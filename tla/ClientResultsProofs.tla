------------------------- MODULE ClientResultsProofs -------------------------
(***************************************************************************)
(* Theorems about the results that pass through Client, for any numbers of *)
(* connections and results and any capacity of the queue.                  *)
(***************************************************************************)
EXTENDS ClientProofs

Holds   == {"lock", "writing"}
Ends    == {"report", "ended"}
Useless == {"broken", "closed"}

-----------------------------------------------------------------------------
(* What no step undoes *)

(* A write pump that has given up stays so, as does a socket; only a new   *)
(* socket comes up.                                                        *)
OneWay ==
  \A d \in Conns :
    /\ pump["write"][d] \in Ends => pump'["write"][d] \in Ends
    /\ link[d] \in Useless => link'[d] \in Useless
    /\ link'[d] = "up" => link[d] \in {"up", "none"}

SameHolds == \A d \in Conns : pump'["write"][d] \in Holds <=> pump["write"][d] \in Holds

Drifts ==
  \A d \in Conns :
    \/ link'[d] = link[d]
    \/ link[d] = "none" /\ link'[d] = "up"
    \/ link[d] \notin Useless /\ link'[d] \in {"dead", "dying"}
    \/ link'[d] \in Useless

Steps(k, c) ==
  \E from, to \in PumpStates :
    /\ Move(k, c, from, to)
    /\ from \in Ends => to \in Ends

Passes(k, c) ==
  \E from, to \in PumpStates :
    /\ Move(k, c, from, to)
    /\ from \in Ends => to \in Ends
    /\ k = "write" => (from \in Holds <=> to \in Holds)

LEMMA OneWaySteps ==
  ASSUME ConnAll, NEW k \in Kinds, NEW c \in Conns, Steps(k, c), Drifts
  PROVE  OneWay
<1>1. PICK from \in PumpStates, to \in PumpStates : Move(k, c, from, to) /\ (from \in Ends => to \in Ends)
  BY DEF Steps
<1>2. /\ pump[k][c] = from /\ pump'[k][c] = to
      /\ \A j \in Kinds, d \in Conns : j # k \/ d # c => pump'[j][d] = pump[j][d]
  BY <1>1, MovePump DEF ConnAll
<1>3. \A d \in Conns : pump["write"][d] \in Ends => pump'["write"][d] \in Ends
  BY <1>1, <1>2 DEF Kinds
<1>4. QED  BY <1>3 DEF OneWay, Drifts, Useless

LEMMA OneWayPasses ==
  ASSUME ConnAll, NEW k \in Kinds, NEW c \in Conns, Passes(k, c), Drifts
  PROVE  OneWay /\ SameHolds
<1>1. PICK from \in PumpStates, to \in PumpStates :
        /\ Move(k, c, from, to)
        /\ from \in Ends => to \in Ends
        /\ k = "write" => (from \in Holds <=> to \in Holds)
  BY DEF Passes
<1>2. /\ pump[k][c] = from /\ pump'[k][c] = to
      /\ \A j \in Kinds, d \in Conns : j # k \/ d # c => pump'[j][d] = pump[j][d]
  BY <1>1, MovePump DEF ConnAll
<1>3. SameHolds
  BY <1>1, <1>2 DEF SameHolds, Kinds
<1>4. Steps(k, c)
  BY <1>1 DEF Steps
<1>5. QED  BY <1>3, <1>4, OneWaySteps

LEMMA OneWayLink ==
  ASSUME pump' = pump, Drifts
  PROVE  OneWay /\ SameHolds
BY DEF OneWay, SameHolds, Drifts, Useless

LEMMA StepIsOneWay ==
  ASSUME ConnAll, [Next]_vars
  PROVE  /\ OneWay
         /\ \/ Send
            \/ \E c \in Conns : TakeResult(c) \/ WriteResult(c)
            \/ UNCHANGED resultVars /\ SameHolds
<1> DEFINE Other == UNCHANGED resultVars /\ SameHolds
<1>a. /\ RunHolds /\ Numbered /\ link \in [Conns -> Live \cup {"none", "broken", "closed"}]
      /\ cur \in Nat /\ Conns \subseteq Nat /\ \A c \in Conns : c > cur <=> c \notin 1..cur
  BY Numbers DEF ConnAll, ConnInv, ConnTypes
<1>b. link' = link => Drifts
  BY DEF Drifts
<1>1. CASE UNCHANGED vars \/ Shutdown \/ Send
  <2>1. pump' = pump /\ link' = link /\ (Send \/ UNCHANGED resultVars)
    BY <1>1 DEF vars, Shutdown, Send, netVars
  <2>2. QED  BY <2>1, <1>b, OneWayLink
<1>2. CASE DialFails \/ Install \/ LockAuth \/ Cancel \/ BackoffEnds
  <2>1. pump' = pump /\ link' = link /\ UNCHANGED resultVars
    BY <1>2 DEF DialFails, Install, LockAuth, Cancel, BackoffEnds, netVars
  <2>2. QED  BY <2>1, <1>b, OneWayLink
<1>3. CASE DialSucceeds
  <2>1. cur + 1 \in Conns /\ link' = [link EXCEPT ![cur + 1] = "up"] /\ pump' = pump /\ UNCHANGED resultVars
    BY <1>3, <1>a, ClientAssumption DEF DialSucceeds, Conns
  <2>2. link[cur + 1] = "none"
    BY <2>1, <1>a DEF Numbered, Unborn
  <2>3. Drifts
    BY <2>1, <2>2, <1>a DEF Drifts
  <2>4. QED  BY <2>1, <2>3, OneWayLink
<1>4. CASE SendAuth
  <2>1. /\ main = "auth" /\ cur \in Conns /\ UNCHANGED resultVars
        /\ link' = [link EXCEPT ![cur] = IF @ = "up" THEN "up" ELSE "dying"] /\ link[cur] \in Live
    BY <1>4, <1>a DEF SendAuth, WriteSucceeds, RunHolds
  <2>2. /\ pump["write"][cur] = "off" /\ pump'["write"][cur] = "select"
        /\ \A d \in Conns : d # cur => pump'["write"][d] = pump["write"][d]
    BY <1>4, <1>a, <2>1, StartPumps DEF SendAuth, ConnAll, RunHolds, Kinds
  <2>3. OneWay /\ SameHolds
    BY <1>a, <2>1, <2>2 DEF OneWay, SameHolds, Live, Useless, Holds, Ends
  <2>4. QED  BY <2>1, <2>3
<1>5. CASE AuthFails \/ Abandon
  <2>1. pump' = pump /\ UNCHANGED resultVars
    BY <1>5 DEF AuthFails, Abandon
  <2>2. Drifts
    BY <1>5, <1>a DEF AuthFails, Abandon, WriteFails, Useless, Drifts
  <2>3. QED  BY <2>1, <2>2, OneWayLink
<1>6. ASSUME NEW c \in Conns, Network(c)
      PROVE  OneWay /\ Other
  <2>1. pump' = pump /\ UNCHANGED resultVars
    BY <1>6 DEF Network, Die, Break, Reject
  <2>2. Drifts
    BY <1>6, <1>a DEF Network, Die, Break, Reject, Useless, Drifts
  <2>3. QED  BY <2>1, <2>2, OneWayLink
<1>7. ASSUME NEW k \in Kinds, NEW c \in Conns, Report(k, c) \/ LockWrite(k, c) \/ Stop(k, c)
      PROVE  OneWay /\ Other
  <2>1. link' = link /\ UNCHANGED resultVars
    BY <1>7 DEF Report, LockWrite, Stop, netVars
  <2>2. Passes(k, c)
    BY <1>7 DEF Report, LockWrite, Stop, Passes, PumpStates, Holds, Ends
  <2>3. QED  BY <2>1, <2>2, <1>b, OneWayPasses
<1>8. ASSUME NEW c \in Conns, ReadRejection(c) \/ ReadFails(c) \/ Tick(c) \/ Close(c)
      PROVE  OneWay /\ Other
  <2>1. UNCHANGED resultVars /\ Drifts
    BY <1>8, <1>a DEF ReadRejection, ReadFails, Tick, Close, netVars, Useless, Drifts
  <2>2. Passes("read", c) \/ Passes("beat", c)
    BY <1>8 DEF ReadRejection, ReadFails, Tick, Close, Passes, PumpStates, Holds, Ends
  <2>3. QED  BY <2>1, <2>2, OneWayPasses DEF Kinds
<1>9. ASSUME NEW c \in Conns, WriteResult(c) \/ WriteBeat(c)
      PROVE  OneWay /\ (WriteResult(c) \/ Other)
  <2>a. \/ WriteResult(c) /\ \E to \in {"select", "report"} : Move("write", c, "writing", to)
        \/ UNCHANGED resultVars /\ \E to \in {"select", "report"} : Move("beat", c, "writing", to)
    BY <1>9 DEF WriteResult, WriteBeat
  <2>b. \/ WriteResult(c) /\ Steps("write", c)
        \/ UNCHANGED resultVars /\ Passes("beat", c)
    BY <2>a DEF Steps, Passes, PumpStates, Ends
  <2>1. CASE WriteFails(c)
    <3>1. Drifts
      BY <2>1, <1>a DEF WriteFails, Drifts, Useless
    <3>2. QED  BY <3>1, <2>b, OneWayPasses, OneWaySteps DEF Kinds
  <2>2. ASSUME NEW kind, WriteSucceeds(c, kind)
        PROVE  OneWay /\ (WriteResult(c) \/ Other)
    <3>1. Drifts
      BY <2>2, <1>a DEF WriteSucceeds, Drifts, Useless, Live
    <3>2. QED  BY <3>1, <2>b, OneWayPasses, OneWaySteps DEF Kinds
  <2>3. QED  BY <1>9, <2>1, <2>2 DEF WriteResult, WriteBeat
<1>10. ASSUME NEW c \in Conns, TakeResult(c)
       PROVE  OneWay
  <2>1. link' = link /\ Steps("write", c)
    BY <1>10 DEF TakeResult, netVars, Steps, PumpStates, Ends
  <2>2. QED  BY <2>1, <1>b, OneWaySteps DEF Kinds
<1>11. QED
  <2>1. CASE Run
    BY <2>1, <1>2, <1>3, <1>4, <1>5 DEF Run
  <2>2. CASE \E c \in Conns : Network(c) \/ ReadPump(c) \/ WritePump(c) \/ HeartbeatLoop(c)
    BY <2>2, <1>6, <1>7, <1>8, <1>9, <1>10 DEF ReadPump, WritePump, HeartbeatLoop, Kinds
  <2>3. QED  BY <1>1, <2>1, <2>2 DEF Next, Terminated

-----------------------------------------------------------------------------
(* The order of results *)

ResultTypes ==
  /\ sendCh \in Seq(Results) /\ Len(sendCh) <= SendCap
  /\ sent \in 0..MaxResults
  /\ carried \in [Conns -> Results \cup {None}]
  /\ delivered \in Seq(Results)
  /\ fate \in [Results -> {"none", "dropped", "swallowed", "failed"}]
  /\ failedOn \in [Results -> Conns \cup {0}]

(* A write pump carries a result from the select to the end of its write.  *)
Carrying == \A c \in Conns : carried[c] # None <=> pump["write"][c] \in Holds

(* What is delivered, what a pump may yet deliver, and what is queued are  *)
(* in the order of the calls of Send.                                      *)
Ordered ==
  /\ \A i, k \in DOMAIN sendCh : i < k => sendCh[i] < sendCh[k]
  /\ \A i, k \in DOMAIN delivered : i < k => delivered[i] < delivered[k]
  /\ \A i \in DOMAIN delivered, k \in DOMAIN sendCh : delivered[i] < sendCh[k]
  /\ \A c \in Conns : carried[c] # None => \A k \in DOMAIN sendCh : carried[c] < sendCh[k]
  /\ \A c \in Conns : carried[c] # None /\ link[c] = "up" => \A i \in DOMAIN delivered : delivered[i] < carried[c]

(* No result is with two pumps, or with one and delivered.                 *)
OneCarrier ==
  /\ \A c, d \in Conns : carried[c] # None /\ carried[c] = carried[d] => c = d
  /\ \A c \in Conns, i \in DOMAIN delivered : carried[c] # delivered[i]

InHand(r) ==
  \/ \E i \in DOMAIN sendCh : sendCh[i] = r
  \/ \E c \in Conns : carried[c] = r
  \/ \E i \in DOMAIN delivered : delivered[i] = r

(* A result is gone or still somewhere, once it was passed to Send.        *)
Fated == \A r \in Results : /\ InHand(r) => fate[r] = "none" /\ r <= sent
                            /\ fate[r] # "none" => r <= sent
                            /\ r <= sent => fate[r] # "none" \/ InHand(r)

ResultInv == ResultTypes /\ Carrying /\ Ordered /\ OneCarrier /\ Fated

LEMMA InitResults == Init => ResultInv
<1> SUFFICES ASSUME Init PROVE ResultInv
  OBVIOUS
<1>1. None \notin Nat /\ MaxResults \in Nat /\ SendCap \in Nat
  BY ClientAssumption
<1>2. sendCh = <<>> /\ delivered = <<>> /\ Len(sendCh) = 0 /\ DOMAIN sendCh = {} /\ DOMAIN delivered = {}
  BY DEF Init
<1>3. ResultTypes
  BY <1>1, <1>2 DEF Init, ResultTypes, Results
<1>4. \A c \in Conns : carried[c] = None /\ pump["write"][c] = "off"
  BY DEF Init, Kinds
<1>5. Carrying /\ Ordered /\ OneCarrier
  BY <1>2, <1>4 DEF Carrying, Ordered, OneCarrier, Holds
<1>6. Fated
  BY <1>1, <1>2, <1>4 DEF Init, Fated, InHand, Results
<1>7. QED  BY <1>3, <1>5, <1>6 DEF ResultInv

LEMMA ResultNumbers ==
  ASSUME ResultTypes
  PROVE  /\ None \notin Results /\ Results \subseteq Nat /\ sent \in Nat
         /\ \A i \in DOMAIN sendCh : i \in Nat /\ sendCh[i] \in Results \cap Nat
         /\ \A i \in DOMAIN delivered : i \in Nat /\ delivered[i] \in Results \cap Nat
         /\ \A c \in Conns : carried[c] # None => carried[c] \in Results \cap Nat
<1>1. None \notin Nat /\ MaxResults \in Nat
  BY ClientAssumption
<1>2. QED  BY <1>1 DEF ResultTypes, Results

(* The results stay where they are. *)
LEMMA ResultsStay ==
  ASSUME ConnAll, ResultInv, OneWay, SameHolds, UNCHANGED resultVars
  PROVE  ResultInv'
<1>1. ResultTypes' /\ OneCarrier' /\ Fated'
  BY DEF ResultInv, ResultTypes, OneCarrier, Fated, InHand, resultVars
<1>2. Carrying'
  BY DEF ResultInv, Carrying, SameHolds, resultVars
<1>3. \A c \in Conns : carried[c] # None /\ link'[c] = "up" => link[c] = "up"
  BY DEF ResultInv, Carrying, OneWay, ConnAll, ConnInv, Numbered, Unborn, Holds, Kinds
<1>4. Ordered'
  BY <1>3 DEF ResultInv, Ordered, resultVars
<1>5. QED  BY <1>1, <1>2, <1>4 DEF ResultInv

LEMMA SendKeeps ==
  ASSUME ResultInv, Send
  PROVE  ResultInv'
<1>1. /\ sent + 1 \in Results /\ sent' = sent + 1 /\ UNCHANGED <<pump, link, carried, delivered, failedOn>>
      /\ sent \in Nat /\ SendCap \in Nat /\ MaxResults \in Nat /\ sent + 1 \in 0..MaxResults
  BY ClientAssumption DEF Send, netVars, ResultInv, ResultTypes, Results
<1>2. /\ None \notin Results /\ Results \subseteq Nat
      /\ \A i \in DOMAIN sendCh : i \in Nat /\ sendCh[i] \in Results \cap Nat
      /\ \A i \in DOMAIN delivered : i \in Nat /\ delivered[i] \in Results \cap Nat
      /\ \A c \in Conns : carried[c] # None => carried[c] \in Results \cap Nat
  BY ResultNumbers DEF ResultInv
<1>3. /\ \A i \in DOMAIN sendCh : sendCh[i] <= sent
      /\ \A i \in DOMAIN delivered : delivered[i] <= sent
      /\ \A c \in Conns : carried[c] # None => carried[c] <= sent
  BY <1>2 DEF ResultInv, Fated, InHand
<1>4. CASE Len(sendCh) < SendCap /\ sendCh' = Append(sendCh, sent + 1) /\ fate' = fate
  <2>1. /\ sendCh' \in Seq(Results) /\ Len(sendCh') = Len(sendCh) + 1 /\ Len(sendCh) \in Nat
        /\ \A i \in DOMAIN sendCh' : IF i = Len(sendCh) + 1 THEN sendCh'[i] = sent + 1
                                     ELSE i \in DOMAIN sendCh /\ sendCh'[i] = sendCh[i]
        /\ \A i \in DOMAIN sendCh : i \in DOMAIN sendCh' /\ i <= Len(sendCh)
        /\ Len(sendCh) + 1 \in DOMAIN sendCh' /\ DOMAIN sendCh' \subseteq Nat
    BY <1>1, <1>4 DEF ResultInv, ResultTypes
  <2>2. ResultTypes'
    BY <1>1, <1>4, <2>1 DEF ResultInv, ResultTypes
  <2>3. /\ \A i \in DOMAIN sendCh : sendCh[i] < sent + 1
        /\ \A i \in DOMAIN delivered : delivered[i] < sent + 1
        /\ \A c \in Conns : carried[c] # None => carried[c] < sent + 1
    BY <1>1, <1>2, <1>3
  <2>a. \A i, k \in DOMAIN sendCh' : i < k => sendCh'[i] < sendCh'[k]
    BY <1>1, <2>1, <2>3 DEF ResultInv, Ordered
  <2>b. \A i \in DOMAIN delivered, k \in DOMAIN sendCh' : delivered[i] < sendCh'[k]
    BY <2>1, <2>3 DEF ResultInv, Ordered
  <2>c. \A c \in Conns : carried[c] # None => \A k \in DOMAIN sendCh' : carried[c] < sendCh'[k]
    BY <2>1, <2>3 DEF ResultInv, Ordered
  <2>d. Ordered'
    BY <1>1, <2>a, <2>b, <2>c DEF ResultInv, Ordered
  <2>4. \A r \in Results : InHand(r)' <=> InHand(r) \/ r = sent + 1
    BY <1>1, <2>1 DEF InHand
  <2>5. Fated'
    BY <1>1, <1>2, <1>4, <2>4 DEF ResultInv, Fated
  <2>6. QED  BY <1>1, <2>2, <2>d, <2>5 DEF ResultInv, Carrying, OneCarrier
<1>5. CASE fate' = [fate EXCEPT ![sent + 1] = "dropped"] /\ sendCh' = sendCh
  <2>1. ResultTypes'
    BY <1>1, <1>5 DEF ResultInv, ResultTypes
  <2>2. \A r \in Results : InHand(r)' <=> InHand(r)
    BY <1>1, <1>5 DEF InHand
  <2>3. Fated'
    BY <1>1, <1>2, <1>5, <2>2 DEF ResultInv, ResultTypes, Fated
  <2>4. QED  BY <1>1, <1>5, <2>1, <2>3 DEF ResultInv, Carrying, OneCarrier, Ordered
<1>6. QED  BY <1>4, <1>5 DEF Send

LEMMA TakeKeeps ==
  ASSUME ConnAll, ResultInv, NEW c \in Conns, TakeResult(c)
  PROVE  ResultInv'
<1>1. /\ sendCh # <<>> /\ carried' = [carried EXCEPT ![c] = Head(sendCh)] /\ sendCh' = Tail(sendCh)
      /\ UNCHANGED <<link, sent, delivered, fate, failedOn>> /\ Move("write", c, "select", "lock")
  BY DEF TakeResult, netVars
<1>2. /\ pump["write"][c] = "select" /\ pump'["write"][c] = "lock"
      /\ \A d \in Conns : d # c => pump'["write"][d] = pump["write"][d]
  BY <1>1, MovePump DEF ConnAll, Kinds, PumpStates
<1>3. /\ None \notin Results /\ Results \subseteq Nat /\ sent \in Nat
      /\ \A i \in DOMAIN sendCh : i \in Nat /\ sendCh[i] \in Results \cap Nat
      /\ \A i \in DOMAIN delivered : i \in Nat /\ delivered[i] \in Results \cap Nat
      /\ \A d \in Conns : carried[d] # None => carried[d] \in Results \cap Nat
  BY ResultNumbers DEF ResultInv
<1>4. /\ sendCh' \in Seq(Results) /\ Len(sendCh') <= Len(sendCh) /\ Head(sendCh) \in Results
      /\ 1 \in DOMAIN sendCh /\ Head(sendCh) = sendCh[1] /\ DOMAIN sendCh' \subseteq Nat
      /\ \A i \in DOMAIN sendCh' : i + 1 \in DOMAIN sendCh /\ 1 < i + 1 /\ sendCh'[i] = sendCh[i + 1]
      /\ \A i \in DOMAIN sendCh : i = 1 \/ (i - 1 \in DOMAIN sendCh' /\ sendCh'[i - 1] = sendCh[i])
  BY <1>1 DEF ResultInv, ResultTypes
<1>5. carried[c] = None /\ carried'[c] = sendCh[1] /\ \A d \in Conns : d # c => carried'[d] = carried[d]
  BY <1>1, <1>2, <1>4 DEF ResultInv, ResultTypes, Carrying, Holds
<1>6. ResultTypes'
  BY <1>1, <1>4, ClientAssumption DEF ResultInv, ResultTypes
<1>7. Carrying'
  BY <1>2, <1>3, <1>4, <1>5 DEF ResultInv, Carrying, Holds
<1>8. Ordered'
  BY <1>1, <1>3, <1>4, <1>5 DEF ResultInv, Ordered
<1>9. OneCarrier'
  <2>a. /\ \A d \in Conns : carried[d] # None => carried[d] < sendCh[1]
        /\ \A i \in DOMAIN delivered : delivered[i] < sendCh[1]
    BY <1>4 DEF ResultInv, Ordered
  <2>1. /\ \A d \in Conns : carried[d] # None => carried[d] # sendCh[1]
        /\ \A i \in DOMAIN delivered : delivered[i] # sendCh[1]
    BY <1>3, <1>4, <2>a
  <2>2. QED  BY <1>1, <1>3, <1>4, <1>5, <2>1 DEF ResultInv, OneCarrier
<1>10. \A r \in Results : InHand(r)' <=> InHand(r)
  <2>1. \A r \in Results : (\E i \in DOMAIN sendCh : sendCh[i] = r)
                             <=> r = sendCh[1] \/ \E i \in DOMAIN sendCh' : sendCh'[i] = r
    BY <1>4
  <2>2. \A r \in Results : (\E d \in Conns : carried'[d] = r) <=> r = sendCh[1] \/ \E d \in Conns : carried[d] = r
    BY <1>3, <1>5
  <2>3. QED  BY <1>1, <2>1, <2>2 DEF InHand
<1>11. Fated'
  BY <1>1, <1>10 DEF ResultInv, Fated
<1>12. QED  BY <1>6, <1>7, <1>8, <1>9, <1>11 DEF ResultInv

LEMMA WriteKeeps ==
  ASSUME ConnAll, ResultInv, NEW c \in Conns, WriteResult(c)
  PROVE  ResultInv'
<1>1. /\ carried' = [carried EXCEPT ![c] = None] /\ UNCHANGED <<sendCh, sent>>
      /\ \E to \in {"select", "report"} : Move("write", c, "writing", to)
      /\ \/ delivered' = Append(delivered, carried[c]) /\ fate' = fate /\ link[c] = "up"
         \/ (\E how \in {"swallowed", "failed"} : fate' = [fate EXCEPT ![carried[c]] = how]) /\ delivered' = delivered
      /\ failedOn' = failedOn \/ failedOn' = [failedOn EXCEPT ![carried[c]] = c]
  BY DEF WriteResult, Fails
<1>2. /\ pump["write"][c] = "writing" /\ pump'["write"][c] \in {"select", "report"}
      /\ \A d \in Conns : d # c => pump'["write"][d] = pump["write"][d]
  BY <1>1, MovePump DEF ConnAll, Kinds, PumpStates
<1>3. /\ None \notin Results /\ Results \subseteq Nat /\ sent \in Nat
      /\ \A i \in DOMAIN sendCh : i \in Nat /\ sendCh[i] \in Results \cap Nat
      /\ \A i \in DOMAIN delivered : i \in Nat /\ delivered[i] \in Results \cap Nat
      /\ \A d \in Conns : carried[d] # None => carried[d] \in Results \cap Nat
  BY ResultNumbers DEF ResultInv
<1>4. carried[c] \in Results /\ carried'[c] = None /\ \A d \in Conns : d # c => carried'[d] = carried[d]
  BY <1>1, <1>2, <1>3 DEF ResultInv, ResultTypes, Carrying, Holds
<1>5. \A d \in Conns : link'[d] = "up" => link[d] = "up"
  BY DEF WriteResult, WriteSucceeds, WriteFails, ConnAll, ConnTypes
<1>6. Carrying'
  BY <1>2, <1>3, <1>4 DEF ResultInv, Carrying, Holds
<1>7. fate[carried[c]] = "none" /\ carried[c] <= sent
  BY <1>4 DEF ResultInv, Fated, InHand
<1>8. CASE delivered' = Append(delivered, carried[c]) /\ fate' = fate /\ link[c] = "up"
  <2>1. /\ delivered' \in Seq(Results) /\ DOMAIN delivered' \subseteq Nat /\ Len(delivered) \in Nat
        /\ \A i \in DOMAIN delivered' : IF i = Len(delivered) + 1 THEN delivered'[i] = carried[c]
                                        ELSE i \in DOMAIN delivered /\ delivered'[i] = delivered[i]
        /\ \A i \in DOMAIN delivered : i \in DOMAIN delivered' /\ i <= Len(delivered)
        /\ Len(delivered) + 1 \in DOMAIN delivered'
    BY <1>4, <1>8 DEF ResultInv, ResultTypes
  <2>2. ResultTypes'
    BY <1>1, <1>8, <2>1 DEF ResultInv, ResultTypes
  <2>3. \A d \in Conns : link'[d] = "up" => d = c
    BY <1>5, <1>8 DEF ConnAll, ConnInv, OneSocket
  <2>4. Ordered'
    BY <1>1, <1>3, <1>4, <1>8, <2>1, <2>3 DEF ResultInv, Ordered
  <2>5. OneCarrier'
    BY <1>3, <1>4, <2>1 DEF ResultInv, OneCarrier
  <2>6. \A r \in Results : InHand(r)' <=> InHand(r)
    BY <1>1, <1>3, <1>4, <2>1 DEF InHand
  <2>7. Fated'
    BY <1>1, <1>8, <2>6 DEF ResultInv, Fated
  <2>8. QED  BY <1>6, <2>2, <2>4, <2>5, <2>7 DEF ResultInv
<1>9. CASE (\E how \in {"swallowed", "failed"} : fate' = [fate EXCEPT ![carried[c]] = how]) /\ delivered' = delivered
  <2>1. ResultTypes'
    BY <1>1, <1>4, <1>9 DEF ResultInv, ResultTypes
  <2>a. \A d \in Conns : carried'[d] # None => carried'[d] = carried[d] /\ carried[d] # None
    BY <1>4
  <2>b. sendCh' = sendCh /\ delivered' = delivered
    BY <1>1, <1>9
  <2>c. Ordered'
    BY <1>5, <2>a, <2>b DEF ResultInv, Ordered
  <2>2. OneCarrier'
    BY <2>a, <2>b, <1>3, <1>4 DEF ResultInv, OneCarrier
  <2>3. \A r \in Results : InHand(r)' <=> InHand(r) /\ r # carried[c]
    <3>a. \A i \in DOMAIN sendCh : carried[c] < sendCh[i]
      BY <1>3, <1>4 DEF ResultInv, Ordered
    <3>1. \A i \in DOMAIN sendCh : sendCh[i] # carried[c]
      BY <1>3, <1>4, <3>a
    <3>2. \A d \in Conns : d # c => carried[d] # carried[c]
      BY <1>3, <1>4 DEF ResultInv, OneCarrier
    <3>3. \A i \in DOMAIN delivered : delivered[i] # carried[c]
      BY DEF ResultInv, OneCarrier
    <3>4. QED  BY <1>1, <1>3, <1>4, <1>9, <3>1, <3>2, <3>3 DEF InHand
  <2>4. /\ fate'[carried[c]] # "none"
        /\ \A r \in Results : r # carried[c] => fate'[r] = fate[r]
    BY <1>4, <1>9 DEF ResultInv, ResultTypes
  <2>5. Fated'
    BY <1>1, <1>7, <2>3, <2>4 DEF ResultInv, Fated
  <2>6. QED  BY <1>6, <2>1, <2>2, <2>c, <2>5 DEF ResultInv
<1>10. QED  BY <1>1, <1>8, <1>9

LEMMA ResultStep == ConnAll /\ ResultInv /\ [Next]_vars => ResultInv'
BY StepIsOneWay, ResultsStay, SendKeeps, TakeKeeps, WriteKeeps

LEMMA ResultsHold == Spec => [](ConnAll /\ ResultInv)
<1>1. Init => ConnAll /\ ResultInv
  BY InitConn, InitResults DEF ConnAll
<1>2. ConnAll /\ ResultInv /\ [Next]_vars => (ConnAll /\ ResultInv)'
  BY ConnStep, ResultStep
<1>3. QED  BY <1>1, <1>2, PTL DEF Spec

(* Results reach the center in the order of the calls of Send, each at     *)
(* most once.                                                              *)
THEOREM ResultsInOrder == Spec => []InOrder
<1>1. ConnAll /\ ResultInv => InOrder
  <2> SUFFICES ASSUME ResultInv PROVE InOrder
    OBVIOUS
  <2> DEFINE seq == delivered \o sendCh
  <2>1. /\ Len(delivered) \in Nat /\ DOMAIN seq \subseteq Nat
        /\ \A i \in DOMAIN seq :
             IF i <= Len(delivered) THEN i \in DOMAIN delivered /\ seq[i] = delivered[i]
             ELSE i - Len(delivered) \in DOMAIN sendCh /\ seq[i] = sendCh[i - Len(delivered)]
    BY DEF ResultInv, ResultTypes
  <2> HIDE DEF seq
  <2>2. \A i, j \in DOMAIN seq : i < j => seq[i] < seq[j]
    BY <2>1 DEF ResultInv, Ordered
  <2>3. QED  BY <2>2 DEF InOrder, seq
<1>2. Init => ConnAll /\ ResultInv
  BY InitConn, InitResults DEF ConnAll
<1>3. ConnAll /\ ResultInv /\ [Next]_vars => (ConnAll /\ ResultInv)'
  BY ConnStep, ResultStep
<1>4. QED  BY <1>1, <1>2, <1>3, PTL DEF Spec

-----------------------------------------------------------------------------
(* Where each result is *)

(* A set with at most one member.                                          *)
LEMMA AtMostOne ==
  ASSUME NEW S, \A x, y \in S : x = y
  PROVE  Cardinality(S) = IF S = {} THEN 0 ELSE 1
<1>1. CASE S = {}
  BY <1>1, FS_EmptySet
<1>2. CASE S # {}
  <2>1. \E x : S = {x}
    BY <1>2
  <2>2. QED  BY <1>2, <2>1, FS_Singleton
<1>3. QED  BY <1>1, <1>2

(* Every result passed to Send is in exactly one place, or gone for one of *)
(* three reasons.                                                          *)
THEOREM ResultsAreSomewhere == Spec => []ResultsAccounted
<1>1. ConnAll /\ ResultInv => ResultsAccounted
  <2> SUFFICES ASSUME ResultInv, NEW r \in Results
               PROVE    Cardinality({i \in DOMAIN sendCh : sendCh[i] = r})
                      + Cardinality({c \in Conns : carried[c] = r})
                      + Cardinality({i \in DOMAIN delivered : delivered[i] = r})
                      + (IF fate[r] = "none" THEN 0 ELSE 1)
                      = IF r <= sent THEN 1 ELSE 0
    BY DEF ResultsAccounted
  <2> DEFINE Q == {i \in DOMAIN sendCh : sendCh[i] = r}
             C == {c \in Conns : carried[c] = r}
             D == {i \in DOMAIN delivered : delivered[i] = r}
  <2>1. /\ None \notin Results /\ Results \subseteq Nat /\ sent \in Nat
        /\ \A i \in DOMAIN sendCh : i \in Nat /\ sendCh[i] \in Results \cap Nat
        /\ \A i \in DOMAIN delivered : i \in Nat /\ delivered[i] \in Results \cap Nat
        /\ \A c \in Conns : carried[c] # None => carried[c] \in Results \cap Nat
    BY ResultNumbers DEF ResultInv
  <2>2. \A i, k \in Q : i = k
    <3>1. \A i, k \in DOMAIN sendCh : sendCh[i] = sendCh[k] => ~(i < k) /\ ~(k < i)
      BY <2>1 DEF ResultInv, Ordered
    <3>2. QED  BY <2>1, <3>1
  <2>3. \A i, k \in D : i = k
    <3>1. \A i, k \in DOMAIN delivered : delivered[i] = delivered[k] => ~(i < k) /\ ~(k < i)
      BY <2>1 DEF ResultInv, Ordered
    <3>2. QED  BY <2>1, <3>1
  <2>4. \A c, d \in C : c = d
    BY <2>1 DEF ResultInv, OneCarrier
  <2>5. Q = {} \/ (C = {} /\ D = {})
    <3>1. ASSUME NEW i \in DOMAIN sendCh, NEW k \in DOMAIN delivered
          PROVE  sendCh[i] # delivered[k]
      <4>1. delivered[k] < sendCh[i]
        BY DEF ResultInv, Ordered
      <4>2. QED  BY <2>1, <4>1
    <3>2. ASSUME NEW i \in DOMAIN sendCh, NEW c \in Conns, carried[c] # None
          PROVE  sendCh[i] # carried[c]
      <4>1. carried[c] < sendCh[i]
        BY <3>2 DEF ResultInv, Ordered
      <4>2. QED  BY <2>1, <3>2, <4>1
    <3>3. QED  BY <2>1, <3>1, <3>2
  <2>6. C = {} \/ D = {}
    BY DEF ResultInv, OneCarrier
  <2>7. InHand(r) <=> Q # {} \/ C # {} \/ D # {}
    BY DEF InHand
  <2>8. /\ Cardinality(Q) = IF Q = {} THEN 0 ELSE 1
        /\ Cardinality(C) = IF C = {} THEN 0 ELSE 1
        /\ Cardinality(D) = IF D = {} THEN 0 ELSE 1
    BY <2>2, <2>3, <2>4, AtMostOne
  <2>9. Cardinality(Q) + Cardinality(C) + Cardinality(D) = IF InHand(r) THEN 1 ELSE 0
    BY <2>5, <2>6, <2>7, <2>8
  <2>10. Cardinality(Q) \in Nat /\ Cardinality(C) \in Nat /\ Cardinality(D) \in Nat
    BY <2>8
  <2>11. /\ InHand(r) => fate[r] = "none" /\ r <= sent
         /\ fate[r] # "none" => r <= sent
         /\ r <= sent => fate[r] # "none" \/ InHand(r)
    BY DEF ResultInv, Fated
  <2> HIDE DEF Q, C, D
  <2>12. Cardinality(Q) + Cardinality(C) + Cardinality(D) + (IF fate[r] = "none" THEN 0 ELSE 1)
           = IF r <= sent THEN 1 ELSE 0
    BY <2>9, <2>10, <2>11
  <2>13. QED  BY <2>12 DEF Q, C, D
<1>2. Init => ConnAll /\ ResultInv
  BY InitConn, InitResults DEF ConnAll
<1>3. ConnAll /\ ResultInv /\ [Next]_vars => (ConnAll /\ ResultInv)'
  BY ConnStep, ResultStep
<1>4. QED  BY <1>1, <1>2, <1>3, PTL DEF Spec

-----------------------------------------------------------------------------
(* Failed writes *)

(* Who lost the result r: a connection that no longer writes, and that     *)
(* lost no other.                                                          *)
LostBy(r, c) ==
  /\ failedOn[r] = c
  /\ link[c] \in Useless /\ pump["write"][c] \in Ends
  /\ \A q \in Results : fate[q] = "failed" /\ failedOn[q] = c => q = r

Blamed == \A r \in Results : fate[r] = "failed" => \E c \in Conns : LostBy(r, c)

(* No failed write, so nobody to blame anew. *)
LEMMA BlamedStays ==
  ASSUME Blamed, OneWay, UNCHANGED failedOn,
         \A r \in Results : fate'[r] = "failed" <=> fate[r] = "failed"
  PROVE  Blamed'
BY DEF Blamed, LostBy, OneWay

LEMMA BlamedFails ==
  ASSUME ConnAll, ResultInv, Blamed, OneWay, NEW c \in Conns,
         Move("write", c, "writing", "report"), WriteFails(c), Fails(c)
  PROVE  Blamed'
<1>1. pump["write"][c] = "writing" /\ pump'["write"][c] = "report"
  BY MovePump DEF ConnAll, Kinds, PumpStates
<1>2. PICK lostNow \in Results : lostNow = carried[c]
  BY <1>1 DEF ResultInv, ResultTypes, Carrying, Holds
<1>3. link'[c] \in Useless
  BY DEF WriteFails, ConnAll, ConnTypes, Useless
<1>4. /\ fate'[lostNow] = "failed" /\ failedOn'[lostNow] = c
      /\ \A q \in Results : q # lostNow => fate'[q] = fate[q] /\ failedOn'[q] = failedOn[q]
  BY <1>2 DEF Fails, ResultInv, ResultTypes
<1>5. \A q \in Results : fate[q] = "failed" => failedOn[q] # c
  BY <1>1 DEF Blamed, LostBy, Ends
<1>6. LostBy(lostNow, c)'
  <2>1. \A q \in Results : fate'[q] = "failed" /\ failedOn'[q] = c => q = lostNow
    BY <1>4, <1>5
  <2>2. QED  BY <1>1, <1>3, <1>4, <2>1 DEF LostBy, Ends
<1>7. ASSUME NEW r \in Results, r # lostNow, fate'[r] = "failed"
      PROVE  \E d \in Conns : LostBy(r, d)'
  <2>1. fate[r] = "failed"
    BY <1>4, <1>7
  <2>2. PICK d \in Conns : LostBy(r, d)
    BY <2>1 DEF Blamed
  <2>3. failedOn[r] = d /\ d # c
    BY <1>5, <2>1, <2>2 DEF LostBy
  <2>4. link'[d] \in Useless /\ pump'["write"][d] \in Ends
    BY <2>2 DEF LostBy, OneWay
  <2>5. LostBy(r, d)'
    BY <1>4, <1>7, <2>2, <2>3, <2>4 DEF LostBy
  <2>6. QED  BY <2>5
<1>8. QED  BY <1>6, <1>7 DEF Blamed

LEMMA BlamedStep == ConnAll /\ ResultInv /\ Blamed /\ [Next]_vars => Blamed'
<1> SUFFICES ASSUME ConnAll, ResultInv, Blamed, [Next]_vars PROVE Blamed'
  OBVIOUS
<1>1. CASE UNCHANGED resultVars
  BY <1>1, StepIsOneWay, BlamedStays DEF resultVars
<1>2. CASE Send
  <2>1. sent + 1 \in Results /\ ~(sent + 1 <= sent)
    BY <1>2, ClientAssumption DEF Send, ResultInv, ResultTypes, Results
  <2>2. fate[sent + 1] = "none"
    BY <2>1 DEF ResultInv, ResultTypes, Fated
  <2>3. UNCHANGED failedOn /\ \A r \in Results : fate'[r] = "failed" <=> fate[r] = "failed"
    BY <1>2, <2>1, <2>2 DEF Send, ResultInv, ResultTypes
  <2>4. QED  BY <2>3, StepIsOneWay, BlamedStays
<1>3. ASSUME NEW c \in Conns, TakeResult(c)
      PROVE  Blamed'
  BY <1>3, StepIsOneWay, BlamedStays DEF TakeResult
<1>4. ASSUME NEW c \in Conns, WriteResult(c)
      PROVE  Blamed'
  <2>1. CASE UNCHANGED <<fate, failedOn>>
    BY <2>1, StepIsOneWay, BlamedStays
  <2>2. CASE fate' = [fate EXCEPT ![carried[c]] = "swallowed"] /\ UNCHANGED failedOn
    <3>1. pump["write"][c] = "writing"
      BY <1>4 DEF WriteResult, Move
    <3>2. carried[c] \in Results /\ fate[carried[c]] = "none"
      BY <3>1 DEF ResultInv, ResultTypes, Carrying, Holds, Fated, InHand
    <3>3. \A r \in Results : fate'[r] = "failed" <=> fate[r] = "failed"
      BY <2>2, <3>2 DEF ResultInv, ResultTypes
    <3>4. QED  BY <2>2, <3>3, StepIsOneWay, BlamedStays
  <2>3. CASE Move("write", c, "writing", "report") /\ WriteFails(c) /\ Fails(c)
    BY <2>3, StepIsOneWay, BlamedFails
  <2>4. QED  BY <1>4, <2>1, <2>2, <2>3 DEF WriteResult
<1>5. QED  BY <1>1, <1>2, <1>3, <1>4, StepIsOneWay

(* No connection loses two results to failed writes, and one that lost one *)
(* can no longer deliver.                                                  *)
THEOREM OneFailurePerLink == Spec => []FailuresBounded
<1> DEFINE IInv == ConnAll /\ ResultInv /\ Blamed
<1>1. IInv => FailuresBounded
  BY DEF Blamed, LostBy, FailuresBounded, Useless
<1>2. Init => IInv
  <2>1. Init => Blamed
    BY DEF Init, Blamed
  <2>2. QED  BY <2>1, InitConn, InitResults DEF ConnAll
<1>3. IInv /\ [Next]_vars => IInv'
  BY ConnStep, ResultStep, BlamedStep
<1>4. QED  BY <1>1, <1>2, <1>3, PTL DEF Spec

-----------------------------------------------------------------------------
(* Every variable keeps its type: the queue its capacity, each error       *)
(* channel its three places, and the wait its bound.                       *)
THEOREM TypeCorrect == Spec => []TypeOK
<1> DEFINE Waits == wait \in 0..ReconnectMax
<1>a. ReconnectMax \in Nat \ {0} /\ 0 \in 0..ReconnectMax /\ Backoff \in 0..ReconnectMax
  <2>1. ReconnectMax \in Nat \ {0} /\ 2 ^ 0 = 1
    BY ClientAssumption
  <2>2. QED  BY <2>1 DEF Backoff
<1>1. ConnAll /\ ResultInv /\ Waits => TypeOK
  BY DEF ConnAll, ConnTypes, ResultInv, ResultTypes, TypeOK, PumpStates
<1>2. Init => ConnAll /\ ResultInv /\ Waits
  BY <1>a, InitConn, InitResults DEF ConnAll, Init
<1>3. Waits /\ [Next]_vars => Waits'
  <2> SUFFICES ASSUME Waits, [Next]_vars PROVE Waits'
    OBVIOUS
  <2>1. wait' \in {wait, 0, Backoff}
    BY DEF Next, vars, mainVars, Run, DialFails, DialSucceeds, Install, LockAuth, SendAuth, AuthFails, Cancel,
       Abandon, BackoffEnds, Pause, Terminated, Shutdown, Send, Network, Die, Break, Reject, ReadPump, WritePump,
       HeartbeatLoop, Report, ReadRejection, Close, ReadFails, TakeResult, Tick, Stop, LockWrite, WriteResult,
       WriteBeat
  <2>2. QED  BY <1>a, <2>1
<1>4. ConnAll /\ ResultInv /\ Waits /\ [Next]_vars => (ConnAll /\ ResultInv /\ Waits)'
  BY <1>3, ConnStep, ResultStep
<1>5. QED  BY <1>1, <1>2, <1>4, PTL DEF Spec

-----------------------------------------------------------------------------
(* The client as a queue with one server *)

(* What ResultService calls the hand and the lost results. *)
hand == IF cur > 0 /\ link[cur] = "up" THEN carried[cur] ELSE None

lost == {r \in Results : fate[r] # "none"} \cup Doomed

Up(d) == link[d] = "up"

(* The hand without the numbers of connections: at most one is up.         *)
HandIs ==
  /\ \A d, e \in Conns : Up(d) /\ Up(e) => d = e
  /\ \A d \in Conns : Up(d) => hand = carried[d]
  /\ (\A d \in Conns : ~Up(d)) => hand = None

LEMMA HandIsTrue == ConnAll => HandIs
<1> SUFFICES ASSUME ConnAll PROVE HandIs
  OBVIOUS
<1>1. cur \in Nat /\ (cur > 0 <=> cur \in Conns)
  BY ClientAssumption DEF ConnAll, ConnTypes, Conns
<1>2. \A d \in Conns : Up(d) => d = cur
  BY DEF ConnAll, ConnInv, OneSocket, Up
<1>3. QED  BY <1>1, <1>2 DEF hand, HandIs, Up

LEMMA HandHolder ==
  ASSUME HandIs, hand # None
  PROVE  \E d \in Conns : Up(d) /\ hand = carried[d]
BY DEF HandIs

Carries(c) == carried[c] # None

LEMMA LostIs ==
  ASSUME NEW r
  PROVE  /\ r \in lost <=> \/ r \in Results /\ fate[r] # "none"
                          \/ \E c \in Conns : Carries(c) /\ ~Up(c) /\ r = carried[c]
         /\ r \in lost' <=> \/ r \in Results /\ fate'[r] # "none"
                           \/ \E c \in Conns : Carries(c)' /\ ~Up(c)' /\ r = carried'[c]
BY DEF lost, Doomed, Carries, Up

(* A step that moves no result: at most the hand loses its connection.     *)
LEMMA StayMoves ==
  ASSUME ConnAll, ResultInv, HandIs, HandIs', OneWay, SameHolds, UNCHANGED resultVars
  PROVE  UNCHANGED <<sendCh, hand, delivered, lost>> \/ Service!Lose
<1>1. sendCh' = sendCh /\ delivered' = delivered /\ carried' = carried /\ fate' = fate
  BY DEF resultVars
<1>2. \A d \in Conns : Carries(d) /\ Up(d)' => Up(d)
  BY <1>1 DEF ResultInv, Carrying, Carries, Up, OneWay, ConnAll, ConnInv, Numbered, Unborn, Holds, Kinds
<1>3. CASE \A d \in Conns : Carries(d) /\ Up(d) => Up(d)'
  <2>1. hand' = hand
    BY <1>1, <1>2, <1>3 DEF HandIs, Carries
  <2>2. \A r : r \in lost' <=> r \in lost
    BY <1>1, <1>2, <1>3, LostIs DEF Carries
  <2>3. lost' = lost
    BY <2>2
  <2>4. QED  BY <1>1, <2>1, <2>3
<1>4. ASSUME NEW d \in Conns, Carries(d), Up(d), ~Up(d)'
      PROVE  Service!Lose
  <2>1. hand = carried[d] /\ hand # None
    BY <1>4 DEF HandIs, Carries
  <2>2. \A e \in Conns : Carries(e) => ~Up(e)'
    BY <1>2, <1>4 DEF HandIs
  <2>3. hand' = None
    BY <1>1, <2>2 DEF HandIs, Carries
  <2>4. \A r : r \in lost' <=> r \in lost \/ r = hand
    BY <1>1, <1>4, <2>1, <2>2, LostIs DEF Carries, HandIs
  <2>5. lost' = lost \cup {hand}
    BY <2>4
  <2>6. QED  BY <1>1, <2>1, <2>3, <2>5 DEF Service!Lose, hand, lost
<1>5. QED  BY <1>3, <1>4

LEMMA SendMoves ==
  ASSUME ConnAll, ResultInv, HandIs, HandIs', Send
  PROVE  \E n \in Results : n = sent + 1 /\ Service!Put(n)
<1>1. /\ sent + 1 \in Results /\ UNCHANGED <<link, carried, delivered>>
      /\ sent \in Nat /\ Results \subseteq Nat /\ None \notin Results
  BY ClientAssumption DEF Send, netVars, ResultInv, ResultTypes, Results
<1>a. PICK n \in Results : n = sent + 1
  BY <1>1
<1>2. fate[n] = "none" /\ ~InHand(n)
  BY <1>1, <1>a DEF ResultInv, ResultTypes, Fated
<1>3. hand' = hand
  BY <1>1 DEF HandIs, Up
<1>4. n # hand
  BY <1>1, <1>2, HandHolder DEF InHand
<1>5. n \notin lost
  BY <1>1, <1>2, LostIs DEF InHand
<1>6. n \notin Service!Known
  BY <1>1, <1>2, <1>4, <1>5 DEF Service!Known, Service!Elements, InHand, hand, lost
<1>7. ASSUME Len(sendCh) < SendCap, sendCh' = Append(sendCh, n), fate' = fate
      PROVE  Service!Put(n)
  <2>1. \A r : r \in lost' <=> r \in lost
    BY <1>1, <1>7, LostIs DEF Carries, Up
  <2>2. lost' = lost
    BY <2>1
  <2>3. QED  BY <1>1, <1>3, <1>6, <1>7, <2>2 DEF Service!Put, hand, lost
<1>8. ASSUME Len(sendCh) >= SendCap, fate' = [fate EXCEPT ![n] = "dropped"], sendCh' = sendCh
      PROVE  Service!Put(n)
  <2>1. \A r \in Results : fate'[r] # "none" <=> fate[r] # "none" \/ r = n
    BY <1>2, <1>8 DEF ResultInv, ResultTypes
  <2>2. \A r : r \in lost' <=> r \in lost \/ r = n
    BY <1>1, <1>2, <2>1, LostIs DEF Carries, Up
  <2>3. lost' = lost \cup {n}
    BY <2>2
  <2>4. QED  BY <1>1, <1>3, <1>6, <1>8, <2>3 DEF Service!Put, hand, lost
<1>9. Service!Put(n)
  BY <1>a, <1>7, <1>8 DEF Send
<1>10. QED  BY <1>a, <1>9

LEMMA TakeMoves ==
  ASSUME ConnAll, ResultInv, HandIs, HandIs', NEW c \in Conns, TakeResult(c)
  PROVE  Service!Take \/ Service!Waste
<1>1. /\ sendCh # <<>> /\ sendCh' = Tail(sendCh) /\ carried' = [carried EXCEPT ![c] = Head(sendCh)]
      /\ UNCHANGED <<link, delivered, fate>> /\ pump["write"][c] = "select"
  BY DEF TakeResult, netVars, Move
<1>2. Head(sendCh) \in Results /\ None \notin Results
  BY <1>1, ResultNumbers DEF ResultInv, ResultTypes
<1>3. /\ ~Carries(c) /\ carried'[c] = Head(sendCh) /\ Head(sendCh) # None
      /\ \A d \in Conns : d # c => carried'[d] = carried[d]
      /\ \A d \in Conns : Up(d)' <=> Up(d)
  BY <1>1, <1>2 DEF ResultInv, ResultTypes, Carrying, Carries, Holds, Up
<1>4. CASE Up(c)
  <2>1. hand = None /\ hand' = Head(sendCh)
    BY <1>3, <1>4 DEF HandIs, Carries
  <2>2. \A r : r \in lost' <=> r \in lost
    BY <1>1, <1>3, <1>4, LostIs DEF Carries
  <2>3. lost' = lost
    BY <2>2
  <2>4. QED  BY <1>1, <2>1, <2>3 DEF Service!Take, hand, lost
<1>5. CASE ~Up(c)
  <2>1. hand' = hand
    BY <1>3, <1>5 DEF HandIs
  <2>2. \A r : r \in lost' <=> r \in lost \/ r = Head(sendCh)
    BY <1>1, <1>3, <1>5, LostIs DEF Carries
  <2>3. lost' = lost \cup {Head(sendCh)}
    BY <2>2
  <2>4. QED  BY <1>1, <2>1, <2>3 DEF Service!Waste, hand, lost
<1>6. QED  BY <1>4, <1>5

LEMMA WriteMoves ==
  ASSUME ConnAll, ResultInv, HandIs, HandIs', NEW c \in Conns, WriteResult(c)
  PROVE  UNCHANGED <<sendCh, hand, delivered, lost>> \/ Service!Deliver \/ Service!Lose
<1>1. carried' = [carried EXCEPT ![c] = None] /\ sendCh' = sendCh /\ pump["write"][c] = "writing"
  BY DEF WriteResult, Move
<1>2. /\ Carries(c) /\ carried[c] \in Results /\ fate[carried[c]] = "none"
      /\ ~Carries(c)' /\ carried'[c] = None
      /\ \A d \in Conns : d # c => carried'[d] = carried[d]
  BY <1>1 DEF ResultInv, ResultTypes, Carrying, Carries, Holds, Fated, InHand
<1>3. /\ \A d \in Conns : d # c => (Up(d)' <=> Up(d))
      /\ Up(c)' => Up(c)
  BY DEF WriteResult, WriteSucceeds, WriteFails, Up, ConnAll, ConnTypes
<1>4. CASE delivered' = Append(delivered, carried[c]) /\ fate' = fate /\ Up(c)
  <2>1. hand = carried[c] /\ hand # None /\ hand' = None
    BY <1>2, <1>3, <1>4 DEF HandIs, Carries
  <2>2. \A r : r \in lost' <=> r \in lost
    BY <1>2, <1>3, <1>4, LostIs DEF Carries
  <2>3. lost' = lost
    BY <2>2
  <2>4. QED  BY <1>1, <1>4, <2>1, <2>3 DEF Service!Deliver, hand, lost
<1>5. CASE /\ \E how \in {"swallowed", "failed"} : fate' = [fate EXCEPT ![carried[c]] = how]
           /\ delivered' = delivered
  <2>1. \A r \in Results : fate'[r] # "none" <=> fate[r] # "none" \/ r = carried[c]
    BY <1>2, <1>5 DEF ResultInv, ResultTypes
  <2>2. \A r : r \in lost' <=> r \in lost \/ r = carried[c]
    BY <1>2, <1>3, <2>1, LostIs DEF Carries
  <2>3. lost' = lost \cup {carried[c]}
    BY <2>2
  <2>4. CASE Up(c)
    <3>1. hand = carried[c] /\ hand # None /\ hand' = None
      BY <1>2, <1>3, <2>4 DEF HandIs, Carries
    <3>2. QED  BY <1>1, <1>5, <2>3, <3>1 DEF Service!Lose, hand, lost
  <2>5. CASE ~Up(c)
    <3>1. hand' = hand
      BY <1>2, <1>3, <2>5 DEF HandIs
    <3>2. carried[c] \in lost
      BY <1>2, <2>5, LostIs
    <3>3. QED  BY <1>1, <1>5, <2>3, <3>1, <3>2
  <2>6. QED  BY <2>4, <2>5
<1>6. QED  BY <1>4, <1>5 DEF WriteResult, Fails, Up

LEMMA InitQueue == Init => Service!Init
<1> SUFFICES ASSUME Init PROVE Service!Init
  OBVIOUS
<1>1. hand = None
  BY DEF Init, hand
<1>2. None \notin Results /\ \A c \in Conns : ~Carries(c)
  BY ClientAssumption DEF Init, Results, Carries
<1>3. \A r : r \notin lost
  BY <1>2, LostIs DEF Init
<1>4. lost = {}
  BY <1>3
<1>5. QED  BY <1>1, <1>4 DEF Init, Service!Init, hand, lost

(* What a step other than Send does to the queue. *)
Serves ==
  \/ UNCHANGED <<sendCh, hand, delivered, lost>>
  \/ Service!Take \/ Service!Waste \/ Service!Deliver \/ Service!Lose

LEMMA StepServes ==
  ASSUME ConnAll, ResultInv, HandIs, HandIs', [Next]_vars
  PROVE  Serves \/ Send
<1>1. ASSUME NEW c \in Conns, TakeResult(c)
      PROVE  Serves
  BY <1>1, TakeMoves DEF Serves
<1>2. ASSUME NEW c \in Conns, WriteResult(c)
      PROVE  Serves
  BY <1>2, WriteMoves DEF Serves
<1>3. CASE UNCHANGED resultVars /\ SameHolds
  BY <1>3, StepIsOneWay, StayMoves DEF Serves
<1>4. QED  BY <1>1, <1>2, <1>3, StepIsOneWay

LEMMA HandHolds == Spec => []HandIs
BY ResultsHold, HandIsTrue, PTL

(* Every behaviour of the client is one of ResultService: whatever pumps a *)
(* result passes through, to the center they are one server of one queue.  *)
THEOREM ClientImplementsQueue == Spec => ImplementsResults
<1>1. ConnAll /\ ResultInv /\ HandIs /\ HandIs' /\ [Next]_vars => [Service!Next]_(Service!resultVars)
  <2> SUFFICES ASSUME ConnAll, ResultInv, HandIs, HandIs', [Next]_vars
               PROVE  Service!Next \/ UNCHANGED <<sendCh, hand, delivered, lost>>
    BY DEF Service!resultVars, hand, lost
  <2>1. CASE Send
    BY <2>1, SendMoves DEF Service!Next
  <2>2. CASE Serves
    BY <2>2 DEF Serves, Service!Next
  <2>3. QED  BY <2>1, <2>2, StepServes
<1>2. QED
  BY <1>1, InitQueue, ResultsHold, HandHolds, PTL DEF Spec, ImplementsResults, Service!Spec
=============================================================================
