--------------------------- MODULE HandlerProofs ---------------------------
(***************************************************************************)
(* Theorems about Handler, for any number of readers, workers and jobs and *)
(* any policies.                                                           *)
(***************************************************************************)
EXTENDS Handler, FiniteSetTheorems, SequenceTheorems, TLAPS

LEMMA ModRange ==
  ASSUME NEW a \in Int, NEW b \in Nat \ {0}
  PROVE  a % b \in 0 .. b - 1
  OBVIOUS

(* Int64 yields a number of 64 bits. *)
LEMMA Int64Fits ==
  ASSUME NEW n \in Int
  PROVE  Int64(n) \in -MaxInt64 - 1 .. MaxInt64
<1>1. n + MaxInt64 + 1 \in Int /\ 2 * (MaxInt64 + 1) \in Nat \ {0}
  BY HandlerAssumption
<1>2. (n + MaxInt64 + 1) % (2 * (MaxInt64 + 1)) \in 0 .. 2 * (MaxInt64 + 1) - 1
  BY <1>1, ModRange
<1>3. ASSUME NEW m \in 0 .. 2 * (MaxInt64 + 1) - 1
      PROVE  m - (MaxInt64 + 1) \in -MaxInt64 - 1 .. MaxInt64
  BY HandlerAssumption
<1>4. QED  BY <1>2, <1>3 DEF Int64

(* The actions that leave the set Running alone. *)
LEMMA RunningUnchanged ==
  ASSUME TypeOK, RunningAccurate, runningJobs' = runningJobs,
         \A w \in Workers : wpc'[w] \in {"run", "leave"} <=> wpc[w] \in {"run", "leave"}
  PROVE  RunningAccurate'
  BY DEF RunningAccurate, Running

(* The type invariant and running_jobs go together: the decrement of Leave *)
(* stays in Nat only because the counter is accurate.                      *)
LEMMA TypeStep ==
  TypeOK /\ RunningAccurate /\ [Next]_vars => TypeOK' /\ RunningAccurate'
<1> SUFFICES ASSUME TypeOK, RunningAccurate, [Next]_vars
             PROVE  TypeOK' /\ RunningAccurate'
    OBVIOUS
<1> USE HandlerAssumption
<1> IsFiniteSet(Running)
    BY FS_Subset DEF Running
<1>1. ASSUME NEW r \in Readers, CheckDepth(r)
      PROVE  TypeOK' /\ RunningAccurate'
  <2>1. PICK j \in inbox : inbox' = inbox \ {j} /\ taken' = [taken EXCEPT ![r] = j]
    BY <1>1 DEF CheckDepth
  <2>2. j \in Jobs /\ j # None
    BY DEF TypeOK
  <2>3. droppedJobs' \in Nat
    BY <1>1 DEF CheckDepth, TypeOK
  <2>4. PICK pc \in {"refuse", "send"} : rpc' = [rpc EXCEPT ![r] = pc]
    BY <1>1 DEF CheckDepth
  <2>5. \A q \in Readers : q \in Busy' <=> taken'[q] # None
    BY <2>1, <2>2, <2>4 DEF TypeOK, Busy, Admitted, Refusing
  <2>6. \A q \in Readers :
           rpc'[q] \in {"concurrency", "queue", "timeout", "notify"} => applying'[q] \in Policies
    BY <1>1, <2>4 DEF TypeOK, CheckDepth
  <2>7. /\ inbox' \subseteq Jobs
        /\ rpc' \in [Readers -> {"idle", "send", "refuse", "concurrency", "queue", "timeout", "notify"}]
        /\ taken' \in [Readers -> Jobs \cup {None}]
    BY <2>1, <2>2, <2>4 DEF TypeOK
  <2>8. TypeOK'
    BY <1>1, <2>3, <2>5, <2>6, <2>7
    DEF TypeOK, CheckDepth, limitVars, workerVars, Holding
  <2>9. QED  BY <2>8, <1>1, RunningUnchanged DEF CheckDepth, workerVars
<1>2. ASSUME NEW r \in Readers, Enqueue(r)
      PROVE  TypeOK' /\ RunningAccurate'
  <2>1. taken[r] \in Jobs
    BY <1>2 DEF TypeOK, Enqueue, Busy, Admitted
  <2>2. Append(jobs, taken[r]) \in Seq(Jobs)
    BY <2>1, AppendProperties DEF TypeOK
  <2>3. jobs' \in Seq(Jobs)
    BY <1>2, <2>2 DEF Enqueue, TypeOK
  <2>4. rpc[r] = "send" /\ UNCHANGED <<inbox, applying, probeID, limitVars, workerVars, workerNotify, answers>>
    BY <1>2 DEF Enqueue
  <2>5. ASSUME rpc' = [rpc EXCEPT ![r] = "idle"], taken' = [taken EXCEPT ![r] = None],
               UNCHANGED droppedJobs
        PROVE  TypeOK'
    <3>1. \A q \in Readers : q \in Busy' <=> taken'[q] # None
      BY <2>4, <2>5 DEF TypeOK, Busy, Admitted, Refusing
    <3>2. \A q \in Readers :
             rpc'[q] \in {"concurrency", "queue", "timeout", "notify"} => applying'[q] \in Policies
      BY <2>4, <2>5 DEF TypeOK
    <3>3. /\ rpc' \in [Readers -> {"idle", "send", "refuse", "concurrency", "queue", "timeout", "notify"}]
          /\ taken' \in [Readers -> Jobs \cup {None}]
          /\ droppedJobs' \in Nat
      BY <2>5 DEF TypeOK
    <3>4. /\ UNCHANGED <<inbox, applying, probeID, maxConcurrency, queueSize, jobTimeoutNanos>>
          /\ UNCHANGED <<wpc, held, runningJobs, workerNotify, answers>>
      BY <2>4 DEF limitVars, workerVars
    <3>5. QED
      BY <2>3, <3>1, <3>2, <3>3, <3>4 DEF TypeOK, Holding
  <2>6. ASSUME rpc' = [rpc EXCEPT ![r] = "refuse"], droppedJobs' = droppedJobs + 1,
               UNCHANGED taken
        PROVE  TypeOK'
    <3>1. \A q \in Readers : q \in Busy' <=> taken'[q] # None
      BY <2>4, <2>6 DEF TypeOK, Busy, Admitted, Refusing
    <3>2. \A q \in Readers :
             rpc'[q] \in {"concurrency", "queue", "timeout", "notify"} => applying'[q] \in Policies
      BY <2>4, <2>6 DEF TypeOK
    <3>3. /\ rpc' \in [Readers -> {"idle", "send", "refuse", "concurrency", "queue", "timeout", "notify"}]
          /\ taken' \in [Readers -> Jobs \cup {None}]
          /\ droppedJobs' \in Nat
      BY <2>6 DEF TypeOK
    <3>4. /\ UNCHANGED <<inbox, applying, probeID, maxConcurrency, queueSize, jobTimeoutNanos>>
          /\ UNCHANGED <<wpc, held, runningJobs, workerNotify, answers>>
      BY <2>4 DEF limitVars, workerVars
    <3>5. QED
      BY <2>3, <3>1, <3>2, <3>3, <3>4 DEF TypeOK, Holding
  <2>7. TypeOK'
    BY <1>2, <2>5, <2>6 DEF Enqueue
  <2>8. QED  BY <2>7, <1>2, RunningUnchanged DEF Enqueue, workerVars
<1>3. ASSUME NEW r \in Readers, Refuse(r)
       PROVE  TypeOK' /\ RunningAccurate'
  <2>1. taken[r] \in Jobs
    BY <1>3 DEF TypeOK, Refuse, Busy, Refusing
  <2>2. Append(answers[taken[r]], "queue full") \in Seq(Verdicts)
    BY <2>1, AppendProperties DEF TypeOK, Verdicts
  <2>3. answers' \in [Jobs -> Seq(Verdicts)]
    BY <1>3, <2>1, <2>2 DEF TypeOK, Refuse
  <2>4. TypeOK'
    BY <1>3, <2>3
    DEF TypeOK, Refuse, limitVars, workerVars, Holding, Busy, Admitted, Refusing
  <2>5. QED  BY <2>4, <1>3, RunningUnchanged DEF Refuse, workerVars
<1>4. ASSUME NEW r \in Readers, HandleAuthAck(r)
      PROVE  TypeOK' /\ RunningAccurate'
  <2>1. TypeOK'
    BY <1>4 DEF TypeOK, HandleAuthAck, replyVars, limitVars, workerVars, Holding, Busy, Admitted, Refusing
  <2>2. QED  BY <2>1, <1>4, RunningUnchanged DEF HandleAuthAck, workerVars
<1>5. ASSUME NEW r \in Readers, SetConcurrency(r)
      PROVE  TypeOK' /\ RunningAccurate'
  <2>1. TypeOK'
    BY <1>5, FS_CardinalityType
    DEF TypeOK, SetConcurrency, replyVars, workerVars, Holding, Busy, Admitted, Refusing, Clamp, Policy, MaxConcurrency
  <2>2. QED  BY <2>1, <1>5, RunningUnchanged DEF SetConcurrency, workerVars
<1>6. ASSUME NEW r \in Readers, SetQueueSize(r)
      PROVE  TypeOK' /\ RunningAccurate'
  <2>1. TypeOK'
    BY <1>6
    DEF TypeOK, SetQueueSize, replyVars, workerVars, Holding, Busy, Admitted, Refusing, Clamp, Policy, QueueSizes
  <2>2. QED  BY <2>1, <1>6, RunningUnchanged DEF SetQueueSize, workerVars
<1>7. ASSUME NEW r \in Readers, SetJobTimeout(r)
      PROVE  TypeOK' /\ RunningAccurate'
  <2>1. applying[r] \in Policies /\ applying[r].job_timeout_seconds \in Nat
    BY <1>7 DEF TypeOK, SetJobTimeout, Policy
  <2>2. Int64(applying[r].job_timeout_seconds * Second) \in -MaxInt64 - 1 .. MaxInt64
    BY <2>1, Int64Fits
  <2>3. jobTimeoutNanos' \in -MaxInt64 - 1 .. MaxInt64
    BY <1>7, <2>2 DEF TypeOK, SetJobTimeout
  <2>4. TypeOK'
    BY <1>7, <2>3
    DEF TypeOK, SetJobTimeout, replyVars, workerVars, Holding, Busy, Admitted, Refusing
  <2>5. QED  BY <2>4, <1>7, RunningUnchanged DEF SetJobTimeout, workerVars
<1>8. ASSUME NEW r \in Readers, PolicyNotify(r)
      PROVE  TypeOK' /\ RunningAccurate'
  <2>1. TypeOK'
    BY <1>8 DEF TypeOK, PolicyNotify, replyVars, limitVars, workerVars, Holding, Busy, Admitted, Refusing
  <2>2. QED  BY <2>1, <1>8, RunningUnchanged DEF PolicyNotify, workerVars
<1>9. ASSUME NEW w \in Workers, Receive(w)
      PROVE  TypeOK' /\ RunningAccurate'
  <2>1. TypeOK'
    BY <1>9, HeadTailProperties DEF TypeOK, Receive, readerVars, replyVars, limitVars, Holding, Busy, Admitted, Refusing
  <2>2. QED  BY <2>1, <1>9, RunningUnchanged DEF Receive, TypeOK
<1>10. ASSUME NEW w \in Workers, CheckSlot(w)
      PROVE  TypeOK' /\ RunningAccurate'
  <2>1. TypeOK'
    BY <1>10 DEF TypeOK, CheckSlot, readerVars, replyVars, limitVars, Holding, Busy, Admitted, Refusing
  <2>2. QED  BY <2>1, <1>10, RunningUnchanged DEF CheckSlot, TypeOK
<1>11. ASSUME NEW w \in Workers, Wake(w)
       PROVE  TypeOK' /\ RunningAccurate'
  <2>1. TypeOK'
    BY <1>11 DEF TypeOK, Wake, readerVars, replyVars, limitVars, Holding, Busy, Admitted, Refusing
  <2>2. QED  BY <2>1, <1>11, RunningUnchanged DEF Wake, TypeOK
<1>12. ASSUME NEW w \in Workers, Start(w)
       PROVE  TypeOK' /\ RunningAccurate'
  <2>1. TypeOK'
    BY <1>12 DEF TypeOK, Start, readerVars, replyVars, limitVars, Holding, Busy, Admitted, Refusing
  <2>2. Running' = Running \cup {w} /\ w \notin Running
    BY <1>12 DEF TypeOK, Start, Running
  <2>3. QED  BY <2>1, <2>2, <1>12, FS_AddElement DEF Start, RunningAccurate
<1>13. ASSUME NEW w \in Workers, HandleJob(w)
       PROVE  TypeOK' /\ RunningAccurate'
  <2>1. held[w] \in Jobs
    BY <1>13 DEF TypeOK, HandleJob, Holding
  <2>2. answers[held[w]] \in Seq(Verdicts) /\ Verdict(held[w]) \in Seq(Verdicts)
    <3>1. <<>> \in Seq(Verdicts) /\ <<"unknown type">> \in Seq(Verdicts) /\ <<"measured">> \in Seq(Verdicts)
      BY DEF Verdicts
    <3>2. QED  BY <2>1, <3>1 DEF TypeOK, Verdict
  <2>3. answers[held[w]] \o Verdict(held[w]) \in Seq(Verdicts)
    BY <2>2, ConcatProperties
  <2>4. answers' \in [Jobs -> Seq(Verdicts)]
    BY <1>13, <2>1, <2>3 DEF TypeOK, HandleJob
  <2>5. TypeOK'
    BY <1>13, <2>4 DEF TypeOK, HandleJob, readerVars, limitVars, Holding, Busy, Admitted, Refusing
  <2>6. QED  BY <2>5, <1>13, RunningUnchanged DEF HandleJob, TypeOK
<1>14. ASSUME NEW w \in Workers, Leave(w)
       PROVE  TypeOK' /\ RunningAccurate'
  <2>1. Running' = Running \ {w} /\ w \in Running
    BY <1>14 DEF TypeOK, Leave, Running
  <2>2. Cardinality(Running') = Cardinality(Running) - 1 /\ Cardinality(Running') \in Nat
    BY <2>1, FS_RemoveElement, FS_CardinalityType
  <2>3. runningJobs' \in Nat /\ RunningAccurate'
    BY <2>2, <1>14 DEF Leave, RunningAccurate
  <2>4. TypeOK'
    BY <1>14, <2>3 DEF TypeOK, Leave, readerVars, replyVars, limitVars, Holding, Busy, Admitted, Refusing
  <2>5. QED  BY <2>3, <2>4
<1>15. ASSUME NEW w \in Workers, NotifyWorkers(w)
       PROVE  TypeOK' /\ RunningAccurate'
  <2>1. TypeOK'
    BY <1>15 DEF TypeOK, NotifyWorkers, readerVars, replyVars, limitVars, Holding, Busy, Admitted, Refusing
  <2>2. QED  BY <2>1, <1>15, RunningUnchanged DEF NotifyWorkers, TypeOK
<1>16. CASE UNCHANGED vars
  BY <1>16
  DEF vars, readerVars, limitVars, workerVars, replyVars, TypeOK, RunningAccurate, Running, Holding, Busy, Admitted, Refusing
<1>17. QED
  BY <1>1, <1>2, <1>3, <1>4, <1>5, <1>6, <1>7, <1>8, <1>9, <1>10, <1>11, <1>12, <1>13, <1>14,
     <1>15, <1>16 DEF Next, Reader, Worker

(* Spec => []TypeOK: every variable keeps its type, and the limits stay    *)
(* positive and below their caps.                                          *)
THEOREM TypeCorrect == Spec => [](TypeOK /\ RunningAccurate)
<1>1. Init => TypeOK /\ RunningAccurate
  <2> SUFFICES ASSUME Init PROVE TypeOK /\ RunningAccurate
      OBVIOUS
  <2> USE HandlerAssumption
  <2>1. Running = {}
    BY DEF Init, Running
  <2>2. Busy = {} /\ Holding = {}
    BY DEF Init, Busy, Admitted, Refusing, Holding
  <2>3. queueSize \in QueueSizes /\ maxConcurrency \in 1..MaxConcurrency
    BY DEF Init, QueueSizes
  <2>4. TypeOK
    <3>1. jobs \in Seq(Jobs)
      BY EmptySeq DEF Init
    <3>2. answers \in [Jobs -> Seq(Verdicts)]
      BY EmptySeq DEF Init
    <3>3. \A r \in Readers : r \in Busy <=> taken[r] # None
      BY <2>2 DEF Init
    <3>4. \A w \in Workers : w \in Holding <=> held[w] # None
      BY <2>2 DEF Init
    <3>5. jobTimeoutNanos \in -MaxInt64 - 1 .. MaxInt64
      BY DEF Init
    <3>6. QED
      BY <2>3, <3>1, <3>2, <3>3, <3>4, <3>5 DEF Init, TypeOK
  <2>5. QED  BY <2>1, <2>4, FS_EmptySet DEF Init, RunningAccurate
<1>2. QED  BY <1>1, TypeStep, PTL DEF Spec

-----------------------------------------------------------------------------
(* The overshoot of queue_size *)

(* The bound follows from two numbers that no step can raise together: a   *)
(* reader is admitted only while the channel is shorter than queue_size,   *)
(* and it gives up its admission when it sends.                            *)
LEMMA OvershootStep ==
  TypeOK /\ OvershootBounded /\ [Next]_vars => OvershootBounded'
<1> SUFFICES ASSUME TypeOK, OvershootBounded, [Next]_vars
             PROVE  OvershootBounded'
    OBVIOUS
<1> USE HandlerAssumption
<1>1. /\ IsFiniteSet(Admitted) /\ Cardinality(Admitted) \in Nat
      /\ IsFiniteSet(Admitted') /\ Cardinality(Admitted') \in Nat
      /\ Cardinality(Admitted') <= Cardinality(Readers)
      /\ Cardinality(Readers) \in Nat
  BY FS_Subset, FS_CardinalityType DEF Admitted
<1>2. PICK q \in QueueSizes : Len(jobs) + Cardinality(Admitted) < q + Cardinality(Readers)
  BY DEF OvershootBounded
<1>3. QueueSizes \subseteq Nat /\ Len(jobs) \in Nat
  BY LenProperties DEF QueueSizes, TypeOK
<1>4. ASSUME NEW r \in Readers, CheckDepth(r)
      PROVE  OvershootBounded'
  <2>1. CASE Len(jobs) < queueSize /\ jobs' = jobs
    <3>1. queueSize \in QueueSizes
      BY DEF TypeOK
    <3>2. Len(jobs') + Cardinality(Admitted') < queueSize + Cardinality(Readers)
      BY <1>1, <1>3, <2>1, <3>1
    <3>3. QED  BY <3>1, <3>2 DEF OvershootBounded, QueueSizes
  <2>2. CASE rpc' = [rpc EXCEPT ![r] = "refuse"] /\ jobs' = jobs
    <3>1. Admitted' = Admitted
      BY <1>4, <2>2 DEF CheckDepth, Admitted, TypeOK
    <3>2. QED  BY <1>2, <2>2, <3>1 DEF OvershootBounded, QueueSizes
  <2>3. QED  BY <1>4, <2>1, <2>2 DEF CheckDepth
<1>5. ASSUME NEW r \in Readers, Enqueue(r)
      PROVE  OvershootBounded'
  <2>1. r \in Admitted /\ Admitted' = Admitted \ {r}
    BY <1>5 DEF Enqueue, Admitted, TypeOK
  <2>2. Cardinality(Admitted') = Cardinality(Admitted) - 1
    BY <1>1, <2>1, FS_RemoveElement
  <2>3. Len(jobs') <= Len(jobs) + 1 /\ Len(jobs') \in Nat
    <3>1. CASE jobs' = jobs
      BY <1>3, <3>1
    <3>2. CASE jobs' = Append(jobs, taken[r])
      <4>1. taken[r] \in Jobs
        BY <2>1 DEF TypeOK, Busy
      <4>2. QED  BY <1>3, <3>2, <4>1, AppendProperties DEF TypeOK
    <3>3. QED  BY <1>5, <3>1, <3>2 DEF Enqueue
  <2>4. Len(jobs') + Cardinality(Admitted') < q + Cardinality(Readers)
    BY <1>1, <1>2, <1>3, <2>2, <2>3
  <2>5. QED  BY <2>4 DEF OvershootBounded, QueueSizes
<1>6. ASSUME NEW w \in Workers, Receive(w)
      PROVE  OvershootBounded'
  <2>1. Len(jobs') = Len(jobs) - 1 /\ Admitted' = Admitted
    BY <1>6, HeadTailProperties DEF Receive, readerVars, Admitted, TypeOK
  <2>2. QED  BY <1>1, <1>2, <1>3, <2>1 DEF OvershootBounded, QueueSizes
<1>7. ASSUME jobs' = jobs,
             \A r \in Readers : rpc'[r] = "send" <=> rpc[r] = "send"
      PROVE  OvershootBounded'
  <2>1. Admitted' = Admitted
    BY <1>7 DEF Admitted
  <2>2. QED  BY <1>2, <1>7, <2>1 DEF OvershootBounded, QueueSizes
<1>8. ASSUME NEW r \in Readers,
             \/ Refuse(r) \/ HandleAuthAck(r) \/ SetConcurrency(r) \/ SetQueueSize(r)
             \/ SetJobTimeout(r) \/ PolicyNotify(r)
      PROVE  OvershootBounded'
  BY <1>7, <1>8
  DEF TypeOK, Refuse, HandleAuthAck, SetConcurrency, SetQueueSize, SetJobTimeout, PolicyNotify
<1>9. ASSUME NEW w \in Workers,
             \/ CheckSlot(w) \/ Wake(w) \/ Start(w) \/ HandleJob(w) \/ Leave(w)
             \/ NotifyWorkers(w)
      PROVE  OvershootBounded'
  BY <1>7, <1>9
  DEF readerVars, CheckSlot, Wake, Start, HandleJob, Leave, NotifyWorkers
<1>10. CASE UNCHANGED vars
  BY <1>7, <1>10 DEF vars, readerVars
<1>11. QED
  BY <1>4, <1>5, <1>6, <1>8, <1>9, <1>10 DEF Next, Reader, Worker

(* The channel holds fewer than queue_size + Cardinality(Readers) jobs,    *)
(* for any number of readers and whatever policies arrive.                 *)
THEOREM Overshoot == Spec => []OvershootBounded
<1>1. Init => OvershootBounded
  <2> SUFFICES ASSUME Init PROVE OvershootBounded
      OBVIOUS
  <2>1. Admitted = {} /\ Len(jobs) = 0
    BY DEF Init, Admitted
  <2>2. DefaultQueueSize \in QueueSizes /\ DefaultQueueSize \in Nat \ {0}
    BY HandlerAssumption DEF QueueSizes
  <2>3. Cardinality(Readers) \in Nat
    BY HandlerAssumption, FS_CardinalityType
  <2>4. QED  BY <2>1, <2>2, <2>3, FS_EmptySet DEF OvershootBounded
<1>2. QED  BY <1>1, OvershootStep, TypeCorrect, PTL DEF Spec

-----------------------------------------------------------------------------
(* Policies and the stored probe id *)

(* PolicyNeedsProbe is not inductive: a reader already in applyPolicy      *)
(* changes a limit without looking at the store again.                     *)
ApplyingNeedsProbe ==
  \A r \in Readers :
    rpc[r] \in {"concurrency", "queue", "timeout", "notify"} => probeID # None

(* No limit leaves its default before a probe id is stored.                *)
THEOREM PolicyAfterProbe == Spec => []PolicyNeedsProbe
<1> DEFINE Inv == PolicyNeedsProbe /\ ApplyingNeedsProbe
<1> USE HandlerAssumption
<1>1. Init => Inv
  BY DEF Init, PolicyNeedsProbe, ApplyingNeedsProbe
<1>2. TypeOK /\ Inv /\ [Next]_vars => Inv'
  <2> SUFFICES ASSUME TypeOK, Inv, [Next]_vars
               PROVE  Inv'
      OBVIOUS
  <2>1. ASSUME NEW r \in Readers, CheckDepth(r) \/ Enqueue(r) \/ Refuse(r)
        PROVE  Inv'
    BY <2>1
    DEF TypeOK, CheckDepth, Enqueue, Refuse, limitVars, PolicyNeedsProbe, ApplyingNeedsProbe
  <2>2. ASSUME NEW r \in Readers, HandleAuthAck(r)
        PROVE  Inv'
    BY <2>2 DEF HandleAuthAck, PolicyNeedsProbe, ApplyingNeedsProbe
  <2>3. ASSUME NEW r \in Readers,
               SetConcurrency(r) \/ SetQueueSize(r) \/ SetJobTimeout(r) \/ PolicyNotify(r)
        PROVE  Inv'
    <3>1. probeID # None /\ probeID' = probeID
      BY <2>3
      DEF ApplyingNeedsProbe, SetConcurrency, SetQueueSize, SetJobTimeout, PolicyNotify
    <3>2. QED  BY <3>1 DEF PolicyNeedsProbe, ApplyingNeedsProbe
  <2>4. ASSUME NEW w \in Workers, Worker(w)
        PROVE  Inv'
    BY <2>4
    DEF Worker, Receive, CheckSlot, Wake, Start, HandleJob, Leave, NotifyWorkers, readerVars,
        limitVars, PolicyNeedsProbe, ApplyingNeedsProbe
  <2>5. CASE UNCHANGED vars
    BY <2>5 DEF vars, readerVars, limitVars, PolicyNeedsProbe, ApplyingNeedsProbe
  <2>6. QED
    BY <2>1, <2>2, <2>3, <2>4, <2>5 DEF Next, Reader
<1>3. QED  BY <1>1, <1>2, TypeCorrect, PTL DEF Spec
=============================================================================
