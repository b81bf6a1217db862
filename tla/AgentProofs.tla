----------------------------- MODULE AgentProofs -----------------------------
(***************************************************************************)
(* Theorems about Agent, for any number of jobs, connections, auth_acks    *)
(* and lives, and any sizes.                                               *)
(***************************************************************************)
EXTENDS Agent, TLAPS

(* The part of TypeOK that the store, the links and the frames are in. *)
IdTypes ==
  /\ main \in {"down", "dial", "fetch", "auth", "serve", "closing", "exiting"}
  /\ disk \in Seq(Acks)
  /\ writers \in Seq(Conns) /\ Len(writers) = Len(disk)
  /\ cur \in 0..MaxConns
  /\ link \in [Conns -> {"none", "up", "down"}]
  /\ inbox \in [Conns -> Seq(Acks)]
  /\ acked \in 0..MaxAcks
  /\ pumps \subseteq Kinds \X (1..cur)
  /\ authAs \in 0..Len(disk)
  /\ seen \in 0..Len(disk)
  /\ beat \in [Conns -> (0..Len(disk)) \cup {None}]

(* Only the newest connection can be up, and only while Run holds it; what *)
(* a frame that may still reach the center says is no older than what the  *)
(* center has heard.                                                       *)
FramesFresh ==
  /\ main \in {"fetch", "auth", "serve"} => cur \in Conns
  /\ \A c \in Conns : link[c] = "up" => c = cur /\ main \in {"fetch", "auth", "serve"}
  /\ \A c \in Conns : c > cur => beat[c] = None
  /\ main \in {"fetch", "auth"} => beat[cur] = None /\ \A k \in Kinds : <<k, cur>> \notin pumps
  /\ main = "auth" => seen <= authAs
  /\ \A c \in Conns : link[c] = "up" /\ beat[c] # None => seen <= beat[c]

LEMMA InitFresh == Init => IdTypes /\ FramesFresh
<1> SUFFICES ASSUME Init PROVE IdTypes /\ FramesFresh
  OBVIOUS
<1>1. MaxConns \in Nat /\ MaxAcks \in Nat /\ None \notin Nat
  BY AgentAssumption
<1>2. /\ disk = <<>> /\ Len(disk) = 0 /\ disk \in Seq(Acks) /\ <<>> \in Seq(Acks)
      /\ writers = <<>> /\ Len(writers) = 0 /\ writers \in Seq(Conns)
  BY DEF Init
<1>3. IdTypes
  BY <1>1, <1>2 DEF Init, IdTypes
<1>4. FramesFresh
  BY <1>1 DEF Init, FramesFresh
<1>5. QED  BY <1>3, <1>4

LEMMA MoreCommits ==
  ASSUME IdTypes, NEW id \in Acks
  PROVE  Append(disk, id) \in Seq(Acks) /\ Len(Append(disk, id)) = Len(disk) + 1
BY DEF IdTypes

LEMMA FreshStep == IdTypes /\ FramesFresh /\ [Next]_vars => IdTypes' /\ FramesFresh' /\ seen' >= seen
<1> SUFFICES ASSUME IdTypes, FramesFresh, [Next]_vars
             PROVE  IdTypes' /\ FramesFresh' /\ seen' >= seen
  OBVIOUS
<1>a. MaxConns \in Nat /\ MaxAcks \in Nat /\ None \notin Nat
  BY AgentAssumption
<1>b. Len(disk) \in Nat
  BY DEF IdTypes
<1> USE <1>a, <1>b DEF IdTypes, FramesFresh
<1>1. ASSUME main' = main, disk' = disk, writers' = writers, cur' = cur, link' = link, inbox' = inbox,
             acked' = acked, pumps' \subseteq pumps, authAs' = authAs, beat' = beat, seen' = seen
      PROVE  IdTypes' /\ FramesFresh' /\ seen' >= seen
  BY <1>1
<1>2. CASE UNCHANGED vars
  BY <1>1, <1>2 DEF vars, storeVars, clientVars, centerVars
<1>3. CASE Start \/ Signal \/ CloseStore \/ Return
  BY <1>3 DEF Start, Signal, CloseStore, Return, storeVars, clientVars, centerVars
<1>4. CASE Crash \/ Exit
  <2>1. End
    BY <1>4 DEF Crash, Exit
  <2>2. <<>> \in Seq(Acks)
    OBVIOUS
  <2>3. IdTypes' /\ seen' >= seen
    BY <2>1, <2>2 DEF End, storeVars, centerVars
  <2>4. FramesFresh'
    BY <2>1 DEF End, storeVars, centerVars
  <2>5. QED  BY <2>3, <2>4
<1>5. CASE Dial
  <2>1. cur + 1 \in Conns /\ cur' = cur + 1 /\ main' = "fetch"
    BY <1>5 DEF Dial, Conns
  <2>2. \A c \in Conns : link[c] # "up"
    BY <1>5 DEF Dial
  <2>3. IdTypes' /\ seen' >= seen
    BY <1>5, <2>1 DEF Dial, storeVars, centerVars
  <2>4. beat[cur + 1] = None /\ \A k \in Kinds : <<k, cur + 1>> \notin pumps
    BY <2>1
  <2>5. FramesFresh'
    BY <1>5, <2>1, <2>2, <2>4 DEF Dial, storeVars, centerVars, Conns
  <2>6. QED  BY <2>3, <2>5
<1>6. CASE ReadProbeID
  <2>1. authAs' = Len(disk) /\ main' = "auth" /\ UNCHANGED <<disk, writers, cur, link, inbox, acked, pumps, beat, seen>>
    BY <1>6 DEF ReadProbeID, GetProbeID, storeVars, centerVars
  <2>2. QED  BY <1>6, <2>1 DEF ReadProbeID
<1>7. CASE SendAuth
  <2>1. /\ main = "auth" /\ main' = "serve" /\ authAs' = 0
        /\ UNCHANGED <<disk, writers, cur, link, inbox, acked, beat>>
        /\ pumps' = pumps \cup (Kinds \X {cur})
        /\ cur \in Conns
    BY <1>7 DEF SendAuth, storeVars, centerVars
  <2>2. seen' \in {seen, authAs} /\ seen' >= seen
    BY <1>7 DEF SendAuth
  <2>3. IdTypes'
    BY <2>1, <2>2 DEF Conns
  <2>4. FramesFresh'
    BY <2>1, <2>2
  <2>5. QED  BY <2>2, <2>3, <2>4
<1>8. CASE Disconnect
  <2>1. /\ main \in {"auth", "serve"} /\ main' \in {"closing", "dial"} /\ authAs' = 0
        /\ link' = [link EXCEPT ![cur] = "down"]
        /\ UNCHANGED <<disk, writers, cur, inbox, acked, pumps, beat, seen>>
    BY <1>8 DEF Disconnect, AfterError, Cut, storeVars, centerVars
  <2>2. \A c \in Conns : link'[c] # "up"
    BY <2>1
  <2>3. QED  BY <2>1, <2>2
<1>9. ASSUME NEW c \in Conns, Break(c)
      PROVE  IdTypes' /\ FramesFresh' /\ seen' >= seen
  <2>1. /\ link' = [link EXCEPT ![c] = "down"]
        /\ UNCHANGED <<main, disk, writers, cur, inbox, acked, pumps, authAs, beat, seen>>
    BY <1>9 DEF Break, Cut, storeVars, centerVars
  <2>2. QED  BY <2>1
<1>10. ASSUME NEW c \in Conns, CenterAcks(c)
       PROVE  IdTypes' /\ FramesFresh' /\ seen' >= seen
  <2>1. acked + 1 \in Acks /\ acked' = acked + 1 /\ acked' \in 0..MaxAcks
    BY <1>10 DEF CenterAcks, Acks
  <2>2. inbox' = [inbox EXCEPT ![c] = Append(@, acked + 1)]
    BY <1>10 DEF CenterAcks
  <2>3. inbox' \in [Conns -> Seq(Acks)]
    BY <2>1, <2>2
  <2>4. UNCHANGED <<main, disk, writers, cur, link, pumps, authAs, beat, seen>>
    BY <1>10 DEF CenterAcks, storeVars, clientVars
  <2>5. IdTypes'
    BY <2>1, <2>3, <2>4
  <2>6. FramesFresh' /\ seen' >= seen
    BY <2>4
  <2>7. QED  BY <2>5, <2>6
<1>11. ASSUME NEW c \in Conns, HandleAuthAck(c)
       PROVE  IdTypes' /\ FramesFresh' /\ seen' >= seen
  <2>1. inbox[c] \in Seq(Acks) /\ inbox[c] # <<>>
    BY <1>11 DEF HandleAuthAck
  <2>2. Head(inbox[c]) \in Acks /\ Tail(inbox[c]) \in Seq(Acks)
    BY <2>1
  <2>3. /\ disk' \in Seq(Acks) /\ Len(disk') \in Nat /\ Len(disk') >= Len(disk)
        /\ writers' \in Seq(Conns) /\ Len(writers') = Len(disk')
    <3>1. \/ UNCHANGED <<disk, writers>>
          \/ disk' = Append(disk, Head(inbox[c])) /\ writers' = Append(writers, c)
      BY <1>11 DEF HandleAuthAck, SetProbeID, storeVars
    <3>2. /\ Append(disk, Head(inbox[c])) \in Seq(Acks)
          /\ Len(Append(disk, Head(inbox[c]))) = Len(disk) + 1
      BY <2>2, MoreCommits
    <3>3. Append(writers, c) \in Seq(Conns) /\ Len(Append(writers, c)) = Len(writers) + 1
      OBVIOUS
    <3>4. CASE UNCHANGED <<disk, writers>>
      BY <3>4
    <3>5. CASE disk' = Append(disk, Head(inbox[c])) /\ writers' = Append(writers, c)
      <4>1. Len(disk') = Len(disk) + 1 /\ Len(writers') = Len(disk) + 1
        BY <3>2, <3>3, <3>5
      <4>2. disk' \in Seq(Acks) /\ writers' \in Seq(Conns)
        BY <3>2, <3>3, <3>5
      <4>3. QED  BY <4>1, <4>2
    <3>6. QED  BY <3>1, <3>4, <3>5
  <2>4. inbox' \in [Conns -> Seq(Acks)]
    BY <1>11, <2>2 DEF HandleAuthAck
  <2>5. UNCHANGED <<main, cur, link, acked, pumps, authAs, beat, seen>>
    BY <1>11 DEF HandleAuthAck, clientVars, centerVars
  <2>6. \A n \in 0..Len(disk) : n \in 0..Len(disk')
    BY <2>3
  <2>7. /\ authAs' \in 0..Len(disk') /\ seen' \in 0..Len(disk')
        /\ beat' \in [Conns -> (0..Len(disk')) \cup {None}]
    BY <2>5, <2>6
  <2>8. IdTypes'
    BY <2>3, <2>4, <2>5, <2>7
  <2>9. FramesFresh' /\ seen' >= seen
    BY <2>5
  <2>10. QED  BY <2>8, <2>9
<1>12. ASSUME NEW c \in Conns, ReadFails(c)
       PROVE  IdTypes' /\ FramesFresh' /\ seen' >= seen
  <2>1. <<>> \in Seq(Acks)
    OBVIOUS
  <2>2. /\ inbox' = [inbox EXCEPT ![c] = <<>>] /\ pumps' \subseteq pumps
        /\ UNCHANGED <<main, disk, writers, cur, link, acked, authAs, beat, seen>>
    BY <1>12 DEF ReadFails, storeVars, centerVars
  <2>3. QED  BY <2>1, <2>2
<1>13. ASSUME NEW c \in Conns, ReadBeat(c)
       PROVE  IdTypes' /\ FramesFresh' /\ seen' >= seen
  <2>1. /\ beat' = [beat EXCEPT ![c] = GetProbeID] /\ <<"beat", c>> \in pumps
        /\ UNCHANGED <<main, disk, writers, cur, link, inbox, acked, pumps, authAs, seen>>
    BY <1>13 DEF ReadBeat, storeVars, centerVars
  <2>2. GetProbeID \in 0..Len(disk) /\ (main # "exiting" => GetProbeID = Len(disk))
    BY DEF GetProbeID
  <2>3. c <= cur /\ (main \in {"fetch", "auth"} => c # cur)
    <3>1. <<"beat", c>> \in Kinds \X (1..cur)
      BY <2>1
    <3>2. c \in 1..cur /\ "beat" \in Kinds
      BY <3>1
    <3>3. QED  BY <2>1, <3>2
  <2>4. IdTypes' /\ seen' >= seen
    <3>1. beat' \in [Conns -> (0..Len(disk)) \cup {None}]
      BY <2>1, <2>2
    <3>2. QED  BY <2>1, <3>1
  <2>5. FramesFresh'
    <3>1. ASSUME NEW d \in Conns
          PROVE  /\ d > cur => beat'[d] = None
                 /\ link[d] = "up" /\ beat'[d] # None => seen <= beat'[d]
      <4>1. CASE d = c
        <5>1. beat'[d] = GetProbeID
          BY <2>1, <4>1
        <5>2. d <= cur /\ (link[d] = "up" => main # "exiting")
          BY <2>3, <4>1
        <5>3. QED  BY <2>2, <5>1, <5>2 DEF Conns
      <4>2. CASE d # c
        BY <2>1, <4>2
      <4>3. QED  BY <4>1, <4>2
    <3>2. main \in {"fetch", "auth"} => beat'[cur] = None
      BY <2>1, <2>3
    <3>3. QED  BY <2>1, <3>1, <3>2
  <2>6. QED  BY <2>4, <2>5
<1>14. ASSUME NEW c \in Conns, WriteBeat(c)
       PROVE  IdTypes' /\ FramesFresh' /\ seen' >= seen
  <2>1. /\ beat' = [beat EXCEPT ![c] = None] /\ pumps' \subseteq pumps
        /\ beat[c] # None /\ beat[c] \in 0..Len(disk)
        /\ UNCHANGED <<main, disk, writers, cur, link, inbox, acked, authAs>>
    BY <1>14 DEF WriteBeat, EndsOrGoesOn, storeVars
  <2>2. CASE link[c] = "up"
    <3>1. seen' = beat[c] /\ seen <= beat[c] /\ c = cur /\ main = "serve"
      BY <1>14, <2>1, <2>2 DEF WriteBeat
    <3>2. QED  BY <2>1, <3>1
  <2>3. CASE link[c] # "up"
    <3>1. seen' = seen
      BY <1>14, <2>3 DEF WriteBeat
    <3>2. QED  BY <2>1, <3>1
  <2>4. QED  BY <2>2, <2>3
<1>15. ASSUME NEW c \in Conns,
              \/ HandleJobMessage(c) \/ TakeResult(c) \/ WriteResult(c)
              \/ \E k \in Kinds : Stop(k, c)
       PROVE  IdTypes' /\ FramesFresh' /\ seen' >= seen
  <2>1. /\ UNCHANGED <<main, disk, writers, cur, link, inbox, acked, authAs, beat, seen>>
        /\ pumps' \subseteq pumps
    BY <1>15 DEF HandleJobMessage, TakeResult, WriteResult, Stop, EndsOrGoesOn,
                 storeVars, clientVars, centerVars
  <2>2. QED  BY <1>1, <2>1
<1>16. CASE Workers
  BY <1>1, <1>16 DEF Workers, StartJob, SettleJob, storeVars, clientVars, centerVars
<1>17. QED
  BY <1>2, <1>3, <1>4, <1>5, <1>6, <1>7, <1>8, <1>9, <1>10, <1>11, <1>12, <1>13, <1>14, <1>15,
     <1>16 DEF Next, Run, Pumps

-----------------------------------------------------------------------------
(* Results *)

ResultTypes ==
  /\ queue \in Seq(Jobs)
  /\ hand \in Jobs \cup {None}
  /\ delivered \in Seq(Jobs)
  /\ lost \subseteq Jobs

(* No result is in two places, nor in one of them twice. *)
OnePlace ==
  /\ \A i, k \in DOMAIN queue : queue[i] = queue[k] => i = k
  /\ \A i, k \in DOMAIN delivered : delivered[i] = delivered[k] => i = k
  /\ \A i \in DOMAIN queue : \A k \in DOMAIN delivered : queue[i] # delivered[k]
  /\ \A i \in DOMAIN queue : queue[i] # hand /\ queue[i] \notin lost
  /\ \A i \in DOMAIN delivered : delivered[i] # hand /\ delivered[i] \notin lost
  /\ hand \notin lost

Held == Results!Elements(queue) \cup ({hand} \ {None}) \cup Results!Elements(delivered) \cup lost

LEMMA PutKeeps ==
  ASSUME ResultTypes, OnePlace, NEW r \in Jobs, Results!Put(r)
  PROVE  ResultTypes' /\ OnePlace' /\ Held' \subseteq Held \cup {r}
<1>1. None \notin Jobs
  BY AgentAssumption
<1>2. /\ r # hand /\ r \notin lost /\ hand' = hand /\ delivered' = delivered
      /\ \A i \in DOMAIN queue : queue[i] # r
      /\ \A i \in DOMAIN delivered : delivered[i] # r
  BY DEF Results!Put, Results!Known, Results!Elements
<1>3. CASE queue' = Append(queue, r) /\ lost' = lost
  <2>1. /\ queue' \in Seq(Jobs) /\ Len(queue') = Len(queue) + 1
        /\ \A i \in DOMAIN queue' : IF i = Len(queue) + 1 THEN queue'[i] = r
                                    ELSE i \in DOMAIN queue /\ queue'[i] = queue[i]
    BY <1>3 DEF ResultTypes
  <2>2. ResultTypes'
    BY <1>2, <1>3, <2>1 DEF ResultTypes
  <2>3. OnePlace'
    BY <1>2, <1>3, <2>1 DEF OnePlace
  <2>4. Held' \subseteq Held \cup {r}
    BY <1>2, <1>3, <2>1 DEF Held, Results!Elements
  <2>5. QED  BY <2>2, <2>3, <2>4
<1>4. CASE queue' = queue /\ lost' = lost \cup {r}
  BY <1>2, <1>4 DEF ResultTypes, OnePlace, Held
<1>5. QED  BY <1>3, <1>4 DEF Results!Put

LEMMA TailKept ==
  ASSUME ResultTypes, queue # <<>>, queue' = Tail(queue)
  PROVE  /\ queue' \in Seq(Jobs) /\ Head(queue) \in Jobs
         /\ 1 \in DOMAIN queue /\ Head(queue) = queue[1]
         /\ \A i \in DOMAIN queue' : i + 1 \in DOMAIN queue /\ i + 1 # 1 /\ queue'[i] = queue[i + 1]
BY DEF ResultTypes

LEMMA TakeKeeps ==
  ASSUME ResultTypes, OnePlace, Results!Take
  PROVE  ResultTypes' /\ OnePlace' /\ Held' \subseteq Held
<1>1. /\ hand = None /\ queue # <<>> /\ hand' = Head(queue) /\ queue' = Tail(queue)
      /\ delivered' = delivered /\ lost' = lost
  BY DEF Results!Take
<1>2. /\ queue' \in Seq(Jobs) /\ Head(queue) \in Jobs
      /\ 1 \in DOMAIN queue /\ Head(queue) = queue[1]
      /\ \A i \in DOMAIN queue' : i + 1 \in DOMAIN queue /\ i + 1 # 1 /\ queue'[i] = queue[i + 1]
  BY <1>1, TailKept
<1>3. ResultTypes'
  BY <1>1, <1>2 DEF ResultTypes
<1>4. DOMAIN queue' \subseteq Nat
  BY <1>2
<1>5. OnePlace'
  BY <1>1, <1>2, <1>4 DEF OnePlace
<1>6. Held' \subseteq Held
  BY <1>1, <1>2 DEF Held, Results!Elements
<1>7. QED  BY <1>3, <1>5, <1>6

LEMMA WasteKeeps ==
  ASSUME ResultTypes, OnePlace, Results!Waste
  PROVE  ResultTypes' /\ OnePlace' /\ Held' \subseteq Held
<1>1. /\ queue # <<>> /\ queue' = Tail(queue) /\ lost' = lost \cup {Head(queue)}
      /\ delivered' = delivered /\ hand' = hand
  BY DEF Results!Waste
<1>2. /\ queue' \in Seq(Jobs) /\ Head(queue) \in Jobs
      /\ 1 \in DOMAIN queue /\ Head(queue) = queue[1]
      /\ \A i \in DOMAIN queue' : i + 1 \in DOMAIN queue /\ i + 1 # 1 /\ queue'[i] = queue[i + 1]
  BY <1>1, TailKept
<1>3. ResultTypes'
  BY <1>1, <1>2 DEF ResultTypes
<1>4. DOMAIN queue' \subseteq Nat
  BY <1>2
<1>5. OnePlace'
  BY <1>1, <1>2, <1>4 DEF OnePlace
<1>6. Held' \subseteq Held
  BY <1>1, <1>2 DEF Held, Results!Elements
<1>7. QED  BY <1>3, <1>5, <1>6

LEMMA DeliverKeeps ==
  ASSUME ResultTypes, OnePlace, Results!Deliver
  PROVE  ResultTypes' /\ OnePlace' /\ Held' \subseteq Held
<1>1. /\ hand # None /\ hand \in Jobs /\ hand' = None /\ None \notin Jobs
      /\ delivered' = Append(delivered, hand) /\ queue' = queue /\ lost' = lost
  BY AgentAssumption DEF Results!Deliver, ResultTypes
<1>2. /\ delivered' \in Seq(Jobs)
      /\ \A i \in DOMAIN delivered' : IF i = Len(delivered) + 1 THEN delivered'[i] = hand
                                     ELSE i \in DOMAIN delivered /\ delivered'[i] = delivered[i]
  BY <1>1 DEF ResultTypes
<1>3. ResultTypes'
  BY <1>1, <1>2 DEF ResultTypes
<1>4. \A i \in DOMAIN queue : queue[i] \in Jobs
  BY DEF ResultTypes
<1>5. \A i \in DOMAIN delivered' : delivered'[i] \in Jobs
  BY <1>2
<1>6. OnePlace'
  BY <1>1, <1>2, <1>4, <1>5 DEF OnePlace, ResultTypes
<1>7. Held' \subseteq Held
  BY <1>1, <1>2 DEF Held, Results!Elements
<1>8. QED  BY <1>3, <1>6, <1>7

(* A result in hand is lost with its connection, and all that are queued   *)
(* with the process.                                                       *)
LEMMA LossKeeps ==
  ASSUME ResultTypes, OnePlace, delivered' = delivered, hand' = None,
         \/ queue' = queue /\ lost' = lost \cup ({hand} \ {None})
         \/ queue' = <<>> /\ lost' = lost \cup Results!Elements(queue) \cup ({hand} \ {None})
  PROVE  ResultTypes' /\ OnePlace' /\ Held' \subseteq Held
<1>1. None \notin Jobs
  BY AgentAssumption
<1>2. /\ \A i \in DOMAIN queue : queue[i] \in Jobs
      /\ \A i \in DOMAIN delivered : delivered[i] \in Jobs
      /\ <<>> \in Seq(Jobs) /\ DOMAIN (<<>>) = {}
  BY DEF ResultTypes
<1>3. ResultTypes'
  BY <1>1, <1>2 DEF ResultTypes, Results!Elements
<1>4. OnePlace'
  BY <1>1, <1>2 DEF ResultTypes, OnePlace, Results!Elements
<1>5. Held' \subseteq Held
  BY <1>2 DEF Held, Results!Elements
<1>6. QED  BY <1>3, <1>4, <1>5

-----------------------------------------------------------------------------
(* Jobs and their results *)

Reported == {"refused", "answered"}

(* What is held is the answer of a job, and such a job goes no further.    *)
ReportInv ==
  /\ ResultTypes /\ OnePlace
  /\ status \in [Jobs -> Service!Statuses \cup {"forgotten"}]
  /\ \A r \in Held : status[r] \in Reported

LEMMA ReportImplies == ReportInv => OneReportPerJob
<1> SUFFICES ASSUME ReportInv PROVE OneReportPerJob
  OBVIOUS
<1>1. \A i \in DOMAIN delivered : delivered[i] \in Held
  BY DEF Held, Results!Elements
<1>2. QED  BY <1>1 DEF ReportInv, OnePlace, Reported, OneReportPerJob

LEMMA ReportStep == ReportInv /\ [Next]_vars => ReportInv'
<1> SUFFICES ASSUME ReportInv, [Next]_vars PROVE ReportInv'
  OBVIOUS
<1>a. Held \subseteq Jobs /\ ResultTypes /\ OnePlace
  BY DEF ReportInv, ResultTypes, Held, Results!Elements
<1>b. /\ status \in [Jobs -> Service!Statuses \cup {"forgotten"}]
      /\ \A r \in Held : status[r] \in Reported
  BY DEF ReportInv
(* Three kinds of steps: results move, a job moves, a job's answer is put. *)
<1>1. ASSUME status' = status, ResultTypes', OnePlace', Held' \subseteq Held
      PROVE  ReportInv'
  BY <1>1, <1>b DEF ReportInv
<1>2. ASSUME UNCHANGED resultVars
      PROVE  ResultTypes' /\ OnePlace' /\ Held' = Held
  BY <1>2, <1>a DEF resultVars, ResultTypes, OnePlace, Held, Results!Elements
<1>3. ASSUME NEW j \in Jobs, NEW from \in {"offered", "pending", "running"},
             NEW to \in Service!Statuses, Service!Move(j, from, to)
      PROVE  /\ status' \in [Jobs -> Service!Statuses \cup {"forgotten"}]
             /\ status[j] \notin Reported /\ status'[j] = to
             /\ \A r \in Jobs : status[r] \in Reported => status'[r] \in Reported
  BY <1>3, <1>b DEF Service!Move, Reported
<1>4. ASSUME NEW j \in Jobs, NEW from \in {"offered", "pending", "running"},
             NEW to \in Service!Statuses, Service!Move(j, from, to), UNCHANGED resultVars
      PROVE  ReportInv'
  BY <1>2, <1>3, <1>4, <1>a, <1>b DEF ReportInv
<1>5. ASSUME NEW j \in Jobs, NEW from \in {"offered", "pending", "running"},
             NEW to \in Service!Statuses \cap Reported, Service!Move(j, from, to), Results!Put(j)
      PROVE  ReportInv'
  <2>1. ResultTypes' /\ OnePlace' /\ Held' \subseteq Held \cup {j}
    BY <1>5, <1>a, PutKeeps
  <2>2. QED  BY <1>3, <1>5, <1>a, <1>b, <2>1 DEF ReportInv
<1>6. ASSUME UNCHANGED <<status, resultVars>>
      PROVE  ReportInv'
  BY <1>1, <1>2, <1>6
<1>7. CASE \/ UNCHANGED vars \/ Start \/ Signal \/ CloseStore \/ Dial \/ Return \/ ReadProbeID
           \/ SendAuth
           \/ \E c \in Conns : \/ CenterAcks(c) \/ HandleAuthAck(c) \/ ReadFails(c)
                              \/ ReadBeat(c) \/ WriteBeat(c) \/ \E k \in Kinds : Stop(k, c)
  BY <1>6, <1>7 DEF vars, Start, Signal, CloseStore, Dial, Return, ReadProbeID, SendAuth,
                    CenterAcks, HandleAuthAck, ReadFails, ReadBeat, WriteBeat, Stop
<1>8. CASE Crash \/ Exit
  <2>1. End
    BY <1>8 DEF Crash, Exit
  <2>2. ResultTypes' /\ OnePlace' /\ Held' \subseteq Held
    BY <2>1, <1>a, LossKeeps DEF End
  <2>3. /\ status' \in [Jobs -> Service!Statuses \cup {"forgotten"}]
        /\ \A r \in Jobs : status[r] \in Reported => status'[r] \in Reported
    BY <2>1, <1>b DEF End, Unanswered, Reported
  <2>4. QED  BY <2>2, <2>3, <1>a, <1>b DEF ReportInv
<1>9. ASSUME NEW c, Cut(c), status' = status
      PROVE  ReportInv'
  <2>1. CASE UNCHANGED resultVars
    BY <1>6, <1>9, <2>1
  <2>2. CASE Results!Lose
    <3>1. /\ delivered' = delivered /\ hand' = None /\ queue' = queue
          /\ lost' = lost \cup ({hand} \ {None})
      BY <2>2 DEF Results!Lose
    <3>2. QED  BY <1>1, <1>9, <1>a, <3>1, LossKeeps
  <2>3. QED  BY <1>9, <2>1, <2>2 DEF Cut
<1>10. CASE Disconnect \/ \E c \in Conns : Break(c)
  BY <1>9, <1>10 DEF Disconnect, Break
<1>11. ASSUME NEW c \in Conns, TakeResult(c)
       PROVE  ReportInv'
  BY <1>1, <1>11, <1>a, TakeKeeps, WasteKeeps DEF TakeResult
<1>12. ASSUME NEW c \in Conns, WriteResult(c)
       PROVE  ReportInv'
  BY <1>1, <1>12, <1>a, DeliverKeeps DEF WriteResult
<1>13. ASSUME NEW c \in Conns, HandleJobMessage(c)
       PROVE  ReportInv'
  <2>1. PICK j \in Jobs : \/ Service!Admit(j) /\ UNCHANGED resultVars
                          \/ Service!Refuse(j) /\ Results!Put(j)
    BY <1>13 DEF HandleJobMessage
  <2>2. CASE Service!Admit(j) /\ UNCHANGED resultVars
    BY <1>4, <2>2 DEF Service!Admit, Service!Statuses
  <2>3. CASE Service!Refuse(j) /\ Results!Put(j)
    BY <1>5, <2>3 DEF Service!Refuse, Service!Statuses, Reported
  <2>4. QED  BY <2>1, <2>2, <2>3
<1>14. ASSUME NEW j \in Jobs, StartJob(j)
       PROVE  ReportInv'
  BY <1>4, <1>14 DEF StartJob, Service!Start, Service!Statuses
<1>15. ASSUME NEW j \in Jobs, SettleJob(j)
       PROVE  ReportInv'
  <2>1. CASE j \in Silent
    BY <1>4, <1>15, <2>1 DEF SettleJob, Service!Settle, Service!Statuses
  <2>2. CASE j \notin Silent
    BY <1>5, <1>15, <2>2 DEF SettleJob, Service!Settle, Service!Statuses, Reported
  <2>3. QED  BY <2>1, <2>2
<1>16. QED
  BY <1>7, <1>8, <1>10, <1>11, <1>12, <1>13, <1>14, <1>15 DEF Next, Run, Workers, Pumps

LEMMA InitReport == Init => ReportInv
<1> SUFFICES ASSUME Init PROVE ReportInv
  OBVIOUS
<1>1. None \notin Jobs
  BY AgentAssumption
<1>2. queue = <<>> /\ hand = None /\ delivered = <<>> /\ lost = {}
  BY DEF Init, Results!Init
<1>3. <<>> \in Seq(Jobs) /\ DOMAIN (<<>>) = {}
  OBVIOUS
<1>4. ResultTypes /\ OnePlace /\ Held = {}
  BY <1>2, <1>3 DEF ResultTypes, OnePlace, Held, Results!Elements
<1>5. status \in [Jobs -> Service!Statuses \cup {"forgotten"}]
  BY DEF Init, Service!Init, Service!Statuses
<1>6. QED  BY <1>4, <1>5 DEF ReportInv

(* A job is reported to the center at most once and only with an answer    *)
(* made in the life that reports it, whatever connections and restarts     *)
(* come between.                                                           *)
THEOREM ReportedOnce == Spec => []OneReportPerJob
<1>1. Init => ReportInv
  BY InitReport
<1>2. ReportInv /\ [Next]_vars => ReportInv'
  BY ReportStep
<1>3. ReportInv => OneReportPerJob
  BY ReportImplies
<1>4. QED  BY <1>1, <1>2, <1>3, PTL DEF Spec
-----------------------------------------------------------------------------
(* The order of auth_acks *)

(* The center writes only on the newest connection, so what is unread      *)
(* there is newer than anything the older connections or the store hold.   *)
Unread(older, newer) == \A i \in DOMAIN older : \A k \in DOMAIN newer : older[i] < newer[k]

Sent ==
  /\ \A c \in Conns : c > cur => inbox[c] = <<>>
  /\ \A k \in DOMAIN disk : disk[k] <= acked
  /\ \A c \in Conns : \A i \in DOMAIN inbox[c] : inbox[c][i] <= acked

InOrder == \A c \in Conns : \A i, k \in DOMAIN inbox[c] : i < k => inbox[c][i] < inbox[c][k]

ConnsInOrder == \A c, d \in Conns : c < d => Unread(inbox[c], inbox[d])

StoreOlder == cur \in Conns => Unread(disk, inbox[cur])

AcksOrdered == Sent /\ InOrder /\ ConnsInOrder /\ StoreOlder

LEMMA InboxNumbers ==
  ASSUME IdTypes
  PROVE  /\ \A c \in Conns : /\ DOMAIN inbox[c] \subseteq Nat
                            /\ \A i \in DOMAIN inbox[c] : inbox[c][i] \in Nat
         /\ DOMAIN disk \subseteq Nat /\ \A k \in DOMAIN disk : disk[k] \in Nat
         /\ Conns \subseteq Nat /\ cur \in Nat /\ acked \in Nat
<1>1. MaxConns \in Nat /\ MaxAcks \in Nat
  BY AgentAssumption
<1>2. \A c \in Conns : inbox[c] \in Seq(Acks)
  BY DEF IdTypes
<1>3. Acks \subseteq Nat /\ Conns \subseteq Nat
  BY <1>1 DEF Acks, Conns
<1>4. \A q \in Seq(Acks) : DOMAIN q \subseteq Nat /\ \A i \in DOMAIN q : q[i] \in Nat
  <2> TAKE q \in Seq(Acks)
  <2>1. Len(q) \in Nat /\ DOMAIN q = 1..Len(q) /\ \A i \in DOMAIN q : q[i] \in Acks
    OBVIOUS
  <2>2. DOMAIN q \subseteq Nat
    BY <2>1
  <2>3. QED  BY <1>3, <2>1, <2>2
<1>5. QED  BY <1>1, <1>2, <1>3, <1>4 DEF IdTypes

(* A part of each inbox is left and nothing is stored. *)
LEMMA FewerAcks ==
  ASSUME IdTypes, AcksOrdered, disk' = disk, acked' = acked, cur' = cur,
         \A c \in Conns : inbox'[c] \in {inbox[c], <<>>}
  PROVE  AcksOrdered'
<1>1. DOMAIN (<<>>) = {}
  OBVIOUS
<1>2. \A c \in Conns : \A i \in DOMAIN inbox'[c] : i \in DOMAIN inbox[c] /\ inbox'[c][i] = inbox[c][i]
  BY <1>1
<1>3. QED  BY <1>2 DEF AcksOrdered, Sent, InOrder, ConnsInOrder, StoreOlder, Unread

LEMMA OrderStep ==
  ASSUME IdTypes, FramesFresh, AcksOrdered, [Next]_vars
  PROVE  /\ AcksOrdered'
         /\ Len(disk') > Len(disk) /\ disk # <<>> /\ disk'[Len(disk')] < disk[Len(disk)] =>
              inbox'[cur] = inbox[cur]
<1> DEFINE StaleOnly == Len(disk') > Len(disk) /\ disk # <<>> /\ disk'[Len(disk')] < disk[Len(disk)] =>
                          inbox'[cur] = inbox[cur]
<1>a. /\ \A c \in Conns : /\ DOMAIN inbox[c] \subseteq Nat
                         /\ \A i \in DOMAIN inbox[c] : inbox[c][i] \in Nat
      /\ DOMAIN disk \subseteq Nat /\ \A k \in DOMAIN disk : disk[k] \in Nat
      /\ Conns \subseteq Nat /\ cur \in Nat /\ acked \in Nat
  BY InboxNumbers
<1>b. Len(disk) \in Nat /\ DOMAIN (<<>>) = {}
  BY DEF IdTypes
<1>1. ASSUME UNCHANGED <<disk, acked, cur>>, \A c \in Conns : inbox'[c] \in {inbox[c], <<>>}
      PROVE  AcksOrdered' /\ StaleOnly
  BY <1>1, <1>b, FewerAcks
<1>2. CASE \/ UNCHANGED vars \/ Start \/ Signal \/ CloseStore \/ Return \/ ReadProbeID
           \/ SendAuth \/ Disconnect \/ Workers
           \/ \E c \in Conns : \/ Break(c) \/ HandleJobMessage(c) \/ TakeResult(c)
                              \/ WriteResult(c) \/ ReadBeat(c) \/ WriteBeat(c)
                              \/ \E k \in Kinds : Stop(k, c)
  <2>1. UNCHANGED <<disk, acked, cur, inbox>>
    BY <1>2 DEF vars, storeVars, clientVars, centerVars, Start, Signal, CloseStore, Return,
                ReadProbeID, SendAuth, Disconnect, Workers, StartJob, SettleJob, Break,
                HandleJobMessage, TakeResult, WriteResult, ReadBeat, WriteBeat, Stop
  <2>2. QED  BY <1>1, <2>1
<1>3. CASE Crash \/ Exit
  BY <1>1, <1>3 DEF Crash, Exit, End, storeVars, centerVars
<1>4. ASSUME NEW c \in Conns, ReadFails(c)
      PROVE  AcksOrdered' /\ StaleOnly
  <2>1. UNCHANGED <<disk, acked, cur>> /\ inbox' = [inbox EXCEPT ![c] = <<>>]
    BY <1>4 DEF ReadFails, storeVars, centerVars
  <2>2. \A d \in Conns : inbox'[d] \in {inbox[d], <<>>}
    BY <2>1 DEF IdTypes
  <2>3. QED  BY <1>1, <2>1, <2>2
<1>5. CASE Dial
  <2>1. UNCHANGED <<disk, acked, inbox>> /\ cur' = cur + 1
    BY <1>5 DEF Dial, storeVars, centerVars
  <2>2. cur + 1 \in Conns => inbox[cur + 1] = <<>>
    BY <1>a DEF AcksOrdered, Sent
  <2>3. QED  BY <1>a, <1>b, <2>1, <2>2 DEF AcksOrdered, Sent, InOrder, ConnsInOrder, StoreOlder, Unread
<1>6. ASSUME NEW c \in Conns, CenterAcks(c)
      PROVE  AcksOrdered' /\ StaleOnly
  <2>1. /\ c = cur /\ UNCHANGED <<disk, cur>> /\ acked' = acked + 1
        /\ inbox' = [inbox EXCEPT ![c] = Append(@, acked + 1)]
    BY <1>6 DEF CenterAcks, Offer, FramesFresh, storeVars, clientVars
  <2>2. /\ \A d \in Conns : d # c => inbox'[d] = inbox[d]
        /\ inbox'[c] = Append(inbox[c], acked + 1) /\ inbox[c] \in Seq(Acks)
    BY <2>1 DEF IdTypes
  <2>3. \A i \in DOMAIN inbox'[c] : IF i = Len(inbox[c]) + 1 THEN inbox'[c][i] = acked + 1
                                   ELSE i \in DOMAIN inbox[c] /\ inbox'[c][i] = inbox[c][i]
    BY <2>2
  <2>4. \A i \in DOMAIN inbox[c] : i < Len(inbox[c]) + 1
    BY <2>2
  <2>5. StaleOnly
    BY <1>b, <2>1
  <2>6. AcksOrdered'
    <3>1. Sent'
      BY <1>a, <2>1, <2>2, <2>3, <2>4 DEF AcksOrdered, Sent
    <3>2. InOrder'
      BY <1>a, <2>1, <2>2, <2>3, <2>4 DEF AcksOrdered, InOrder, Sent
    <3>3. ConnsInOrder'
      BY <1>a, <2>1, <2>2, <2>3, <2>4 DEF AcksOrdered, ConnsInOrder, InOrder, Unread, Sent
    <3>4. StoreOlder'
      BY <1>a, <2>1, <2>2, <2>3, <2>4 DEF AcksOrdered, StoreOlder, ConnsInOrder, InOrder, Unread, Sent
    <3>5. QED  BY <3>1, <3>2, <3>3, <3>4 DEF AcksOrdered
  <2>7. QED  BY <2>5, <2>6
<1>7. ASSUME NEW c \in Conns, HandleAuthAck(c)
      PROVE  AcksOrdered' /\ StaleOnly
  <2>1. /\ inbox[c] \in Seq(Acks) /\ inbox[c] # <<>> /\ UNCHANGED <<acked, cur>>
        /\ inbox' = [inbox EXCEPT ![c] = Tail(@)]
        /\ disk' = disk \/ disk' = Append(disk, Head(inbox[c]))
    BY <1>7 DEF HandleAuthAck, SetProbeID, IdTypes, storeVars, clientVars, centerVars
  <2>2. /\ 1 \in DOMAIN inbox[c] /\ Head(inbox[c]) = inbox[c][1]
        /\ \A i \in DOMAIN Tail(inbox[c]) :
             i + 1 \in DOMAIN inbox[c] /\ 1 < i + 1 /\ Tail(inbox[c])[i] = inbox[c][i + 1]
        /\ DOMAIN Tail(inbox[c]) \subseteq Nat
    BY <2>1
  <2>3. /\ \A d \in Conns : d # c => inbox'[d] = inbox[d]
        /\ inbox'[c] = Tail(inbox[c])
    BY <2>1 DEF IdTypes
  <2>4. c <= cur
    BY <1>a, <2>1 DEF AcksOrdered, Sent
  <2>5. InOrder'
    <3>1. ASSUME NEW d \in Conns, NEW i \in DOMAIN inbox'[d], NEW k \in DOMAIN inbox'[d], i < k
          PROVE  inbox'[d][i] < inbox'[d][k]
      <4>1. CASE d = c
        <5>1. /\ i \in Nat /\ k \in Nat /\ i + 1 \in DOMAIN inbox[c] /\ k + 1 \in DOMAIN inbox[c]
              /\ inbox'[d][i] = inbox[c][i + 1] /\ inbox'[d][k] = inbox[c][k + 1]
          BY <2>2, <2>3, <4>1
        <5>2. i + 1 < k + 1
          BY <3>1, <5>1
        <5>3. QED  BY <5>1, <5>2 DEF AcksOrdered, InOrder
      <4>2. CASE d # c
        BY <2>3, <3>1, <4>2 DEF AcksOrdered, InOrder
      <4>3. QED  BY <4>1, <4>2
    <3>2. QED  BY <3>1 DEF InOrder
  <2>6. ConnsInOrder'
    BY <1>a, <2>1, <2>2, <2>3, <2>4 DEF AcksOrdered, ConnsInOrder, Unread
  <2>7. CASE disk' = disk
    <3>1. Sent'
      BY <1>a, <2>1, <2>2, <2>3, <2>4, <2>7 DEF AcksOrdered, Sent
    <3>2. StoreOlder'
      BY <1>a, <2>1, <2>2, <2>3, <2>7 DEF AcksOrdered, StoreOlder, Unread
    <3>3. QED  BY <1>b, <2>5, <2>6, <2>7, <3>1, <3>2 DEF AcksOrdered
  <2>8. CASE disk' = Append(disk, Head(inbox[c]))
    <3>1. /\ Len(disk') = Len(disk) + 1 /\ disk'[Len(disk')] = inbox[c][1]
          /\ \A k \in DOMAIN disk' : disk'[k] = inbox[c][1] \/ (k \in DOMAIN disk /\ disk'[k] = disk[k])
          /\ disk # <<>> => Len(disk) \in DOMAIN disk
      BY <2>2, <2>8 DEF IdTypes
    <3>2. AcksOrdered'
      <4>1. \A d \in Conns : d > cur => inbox'[d] = <<>>
        BY <1>a, <2>3, <2>4 DEF AcksOrdered, Sent
      <4>2. \A k \in DOMAIN disk' : disk'[k] <= acked
        BY <2>2, <3>1 DEF AcksOrdered, Sent
      <4>3. \A d \in Conns : \A i \in DOMAIN inbox'[d] : inbox'[d][i] <= acked
        <5>1. ASSUME NEW i \in DOMAIN inbox'[c]
              PROVE  inbox'[c][i] <= acked
          <6>1. i + 1 \in DOMAIN inbox[c] /\ inbox'[c][i] = inbox[c][i + 1]
            BY <2>2, <2>3
          <6>2. QED  BY <6>1 DEF AcksOrdered, Sent
        <5>2. ASSUME NEW d \in Conns, d # c, NEW i \in DOMAIN inbox'[d]
              PROVE  inbox'[d][i] <= acked
          BY <2>3, <5>2 DEF AcksOrdered, Sent
        <5>3. QED  BY <5>1, <5>2
      <4>4. ASSUME cur \in Conns, NEW k \in DOMAIN disk', NEW i \in DOMAIN inbox'[cur]
            PROVE  disk'[k] < inbox'[cur][i]
        <5>1. CASE c = cur
          <6>1. i + 1 \in DOMAIN inbox[c] /\ 1 < i + 1 /\ inbox'[cur][i] = inbox[c][i + 1]
            BY <2>2, <2>3, <4>4, <5>1
          <6>2. inbox[c][1] < inbox[c][i + 1]
            BY <2>2, <6>1 DEF AcksOrdered, InOrder
          <6>3. \A n \in DOMAIN disk : disk[n] < inbox[c][i + 1]
            BY <5>1, <6>1 DEF AcksOrdered, StoreOlder, Unread
          <6>4. QED  BY <3>1, <4>4, <6>1, <6>2, <6>3
        <5>2. CASE c # cur
          <6>1. c < cur /\ inbox'[cur] = inbox[cur]
            BY <1>a, <2>3, <2>4, <4>4, <5>2
          <6>2. inbox[c][1] < inbox[cur][i]
            BY <2>2, <4>4, <6>1 DEF AcksOrdered, ConnsInOrder, Unread
          <6>3. \A n \in DOMAIN disk : disk[n] < inbox[cur][i]
            BY <4>4, <6>1 DEF AcksOrdered, StoreOlder, Unread
          <6>4. QED  BY <3>1, <4>4, <6>1, <6>2, <6>3
        <5>3. QED  BY <5>1, <5>2
      <4>5. Sent'
        BY <2>1, <4>1, <4>2, <4>3 DEF Sent
      <4>6. StoreOlder'
        BY <2>1, <4>4 DEF StoreOlder, Unread
      <4>7. QED  BY <2>5, <2>6, <4>5, <4>6 DEF AcksOrdered
    <3>3. StaleOnly
      <4>1. CASE c = cur
        BY <1>a, <2>2, <3>1, <4>1 DEF AcksOrdered, StoreOlder, Unread
      <4>2. CASE c # cur
        <5>1. cur \in Conns
          BY <1>a, <2>4 DEF IdTypes, Conns
        <5>2. QED  BY <2>3, <4>2, <5>1
      <4>3. QED  BY <4>1, <4>2
    <3>4. QED  BY <3>2, <3>3
  <2>9. QED  BY <2>1, <2>7, <2>8
<1>8. QED
  BY <1>2, <1>3, <1>4, <1>5, <1>6, <1>7 DEF Next, Run, Pumps

(* The store goes back to an older id only by the reader of a connection   *)
(* that was replaced, for any number of connections, auth_acks and         *)
(* crashes.                                                                *)
THEOREM AcksInOrder == Spec => OnlyStaleReadersGoBack
<1> DEFINE IInv == IdTypes /\ FramesFresh /\ AcksOrdered
<1>1. Init => IInv
  <2> SUFFICES ASSUME Init PROVE AcksOrdered
    BY InitFresh
  <2>1. DOMAIN (<<>>) = {} /\ disk = <<>> /\ \A c \in Conns : inbox[c] = <<>>
    BY DEF Init
  <2>2. QED  BY <2>1 DEF AcksOrdered, Sent, InOrder, ConnsInOrder, StoreOlder, Unread
<1>2. IInv /\ [Next]_vars => IInv'
  BY FreshStep, OrderStep
<1>3. IInv /\ [Next]_vars =>
        [Len(disk') > Len(disk) /\ disk # <<>> /\ disk'[Len(disk')] < disk[Len(disk)] =>
           inbox'[cur] = inbox[cur]]_vars
  BY OrderStep
<1>4. QED  BY <1>1, <1>2, <1>3, PTL DEF Spec, OnlyStaleReadersGoBack

-----------------------------------------------------------------------------
(* The identity the center hears *)

(* What a reader stores is newer than all that it and the readers of older *)
(* connections have stored, and what is unread newer still.                *)
WritersInOrder ==
  \A i, k \in DOMAIN disk : i < k /\ writers[i] <= writers[k] => disk[i] < disk[k]

UnreadNewer ==
  \A i \in DOMAIN disk, c \in Conns :
    writers[i] <= c => \A n \in DOMAIN inbox[c] : disk[i] < inbox[c][n]

Written == WritersInOrder /\ UnreadNewer

LEMMA WrittenStays ==
  ASSUME IdTypes, Written, UNCHANGED <<disk, writers>>,
         \A c \in Conns : inbox'[c] \in {inbox[c], <<>>}
  PROVE  Written'
<1>1. DOMAIN (<<>>) = {}
  OBVIOUS
<1>2. \A c \in Conns : \A n \in DOMAIN inbox'[c] : n \in DOMAIN inbox[c] /\ inbox'[c][n] = inbox[c][n]
  BY <1>1
<1>3. QED  BY <1>2 DEF Written, WritersInOrder, UnreadNewer

LEMMA WrittenCommit ==
  ASSUME IdTypes, AcksOrdered, Written, NEW c \in Conns, inbox[c] # <<>>,
         disk' = Append(disk, Head(inbox[c])), writers' = Append(writers, c),
         inbox' = [inbox EXCEPT ![c] = Tail(@)]
  PROVE  Written'
<1>1. /\ DOMAIN disk \subseteq Nat /\ \A i \in DOMAIN disk : disk[i] \in Nat
      /\ Conns \subseteq Nat
      /\ \A d \in Conns : \A n \in DOMAIN inbox[d] : inbox[d][n] \in Nat
  BY InboxNumbers
<1>2. /\ 1 \in DOMAIN inbox[c] /\ Head(inbox[c]) = inbox[c][1]
      /\ \A n \in DOMAIN inbox'[c] :
           n + 1 \in DOMAIN inbox[c] /\ 1 < n + 1 /\ inbox'[c][n] = inbox[c][n + 1]
      /\ \A d \in Conns : d # c => inbox'[d] = inbox[d]
  BY DEF IdTypes
<1>3. /\ Len(disk) + 1 \in DOMAIN disk' /\ \A i \in DOMAIN disk : i < Len(disk) + 1
      /\ \A i \in DOMAIN disk' : i = Len(disk) + 1 \/ i \in DOMAIN disk
      /\ disk'[Len(disk) + 1] = inbox[c][1] /\ writers'[Len(disk) + 1] = c
      /\ \A i \in DOMAIN disk : disk'[i] = disk[i] /\ writers'[i] = writers[i]
  BY <1>2 DEF IdTypes
<1>4. \A i \in DOMAIN disk : writers[i] <= c => disk[i] < inbox[c][1]
  BY <1>2 DEF Written, UnreadNewer
<1>5. ASSUME NEW i \in DOMAIN disk', NEW k \in DOMAIN disk', i < k, writers'[i] <= writers'[k]
      PROVE  disk'[i] < disk'[k]
  <2>1. Len(disk) \in Nat /\ DOMAIN disk = 1..Len(disk)
    BY DEF IdTypes
  <2>2. i \in DOMAIN disk
    BY <1>3, <1>5, <2>1
  <2>3. CASE k \in DOMAIN disk
    <3>1. writers[i] <= writers[k]
      BY <1>3, <1>5, <2>2, <2>3
    <3>2. disk[i] < disk[k]
      BY <1>5, <2>2, <2>3, <3>1 DEF Written, WritersInOrder
    <3>3. QED  BY <1>3, <2>2, <2>3, <3>2
  <2>4. CASE k = Len(disk) + 1
    <3>1. writers[i] <= c
      BY <1>3, <1>5, <2>2, <2>4
    <3>2. disk[i] < inbox[c][1]
      BY <1>4, <2>2, <3>1
    <3>3. QED  BY <1>3, <2>2, <2>4, <3>2
  <2>5. QED  BY <1>3, <2>3, <2>4
<1>6. ASSUME NEW i \in DOMAIN disk', NEW d \in Conns, writers'[i] <= d, NEW n \in DOMAIN inbox'[d]
      PROVE  disk'[i] < inbox'[d][n]
  <2>1. CASE i \in DOMAIN disk
    <3>1. disk'[i] = disk[i] /\ writers[i] <= d
      BY <1>3, <1>6, <2>1
    <3>2. \A m \in DOMAIN inbox[d] : disk[i] < inbox[d][m]
      BY <2>1, <3>1 DEF Written, UnreadNewer
    <3>3. CASE d = c
      BY <1>2, <1>6, <3>1, <3>2, <3>3
    <3>4. CASE d # c
      BY <1>2, <1>6, <3>1, <3>2, <3>4
    <3>5. QED  BY <3>3, <3>4
  <2>2. CASE i = Len(disk) + 1 /\ d = c
    BY <1>2, <1>3, <2>2 DEF AcksOrdered, InOrder
  <2>3. CASE i = Len(disk) + 1 /\ d # c
    <3>1. c < d /\ inbox'[d] = inbox[d]
      <4>1. c <= d /\ inbox'[d] = inbox[d]
        BY <1>2, <1>3, <1>6, <2>3
      <4>2. c \in Nat /\ d \in Nat
        BY <1>1
      <4>3. QED  BY <2>3, <4>1, <4>2
    <3>2. QED  BY <1>2, <1>3, <1>6, <2>3, <3>1 DEF AcksOrdered, ConnsInOrder, Unread
  <2>4. QED  BY <1>3, <2>1, <2>2, <2>3
<1>7. QED  BY <1>5, <1>6 DEF Written, WritersInOrder, UnreadNewer

LEMMA WrittenStep ==
  ASSUME IdTypes, FramesFresh, AcksOrdered, Written, [Next]_vars
  PROVE  /\ Written'
         /\ \A i \in DOMAIN disk :
              i \in DOMAIN disk' /\ disk'[i] = disk[i] /\ writers'[i] = writers[i]
<1> DEFINE Kept == \A i \in DOMAIN disk :
                     i \in DOMAIN disk' /\ disk'[i] = disk[i] /\ writers'[i] = writers[i]
<1>1. CASE \/ UNCHANGED vars \/ Start \/ Signal \/ CloseStore \/ Dial \/ Return \/ ReadProbeID
           \/ SendAuth \/ Disconnect \/ Workers \/ Crash \/ Exit
           \/ \E c \in Conns : \/ Break(c) \/ HandleJobMessage(c) \/ ReadFails(c) \/ TakeResult(c)
                              \/ WriteResult(c) \/ ReadBeat(c) \/ WriteBeat(c)
                              \/ \E k \in Kinds : Stop(k, c)
  <2>1. UNCHANGED <<disk, writers>>
    BY <1>1 DEF vars, storeVars, Start, Signal, CloseStore, Dial, Return, ReadProbeID, SendAuth,
                Disconnect, Workers, StartJob, SettleJob, Crash, Exit, End, Break,
                HandleJobMessage, ReadFails, TakeResult, WriteResult, ReadBeat, WriteBeat, Stop
  <2>2. \/ inbox' = inbox \/ inbox' = [c \in Conns |-> <<>>]
        \/ \E c \in Conns : inbox' = [inbox EXCEPT ![c] = <<>>]
    BY <1>1 DEF vars, Start, Signal, CloseStore, Dial, Return, ReadProbeID, SendAuth,
                Disconnect, Workers, StartJob, SettleJob, Crash, Exit, End, Break,
                HandleJobMessage, ReadFails, TakeResult, WriteResult, ReadBeat, WriteBeat, Stop
  <2>3. \A c \in Conns : inbox'[c] \in {inbox[c], <<>>}
    <3>1. inbox \in [Conns -> Seq(Acks)]
      BY DEF IdTypes
    <3>2. CASE inbox' = inbox
      BY <3>2
    <3>3. CASE inbox' = [c \in Conns |-> <<>>]
      BY <3>3
    <3>4. ASSUME NEW d \in Conns, inbox' = [inbox EXCEPT ![d] = <<>>]
          PROVE  \A c \in Conns : inbox'[c] \in {inbox[c], <<>>}
      BY <3>1, <3>4
    <3>5. QED  BY <2>2, <3>2, <3>3, <3>4
  <2>4. QED  BY <2>1, <2>3, WrittenStays
<1>2. ASSUME NEW c \in Conns, CenterAcks(c)
      PROVE  Written' /\ Kept
  <2>1. /\ UNCHANGED <<disk, writers>> /\ inbox[c] \in Seq(Acks)
        /\ inbox' = [inbox EXCEPT ![c] = Append(@, acked + 1)]
    BY <1>2 DEF CenterAcks, storeVars, IdTypes
  <2>2. /\ \A d \in Conns : d # c => inbox'[d] = inbox[d]
        /\ \A n \in DOMAIN inbox'[c] : inbox'[c][n] = acked + 1
                                        \/ (n \in DOMAIN inbox[c] /\ inbox'[c][n] = inbox[c][n])
    <3>1. inbox'[c] = Append(inbox[c], acked + 1) /\ \A d \in Conns : d # c => inbox'[d] = inbox[d]
      BY <2>1 DEF IdTypes
    <3>2. QED  BY <2>1, <3>1
  <2>3. \A i \in DOMAIN disk : disk[i] < acked + 1
    BY InboxNumbers DEF AcksOrdered, Sent
  <2>4. UnreadNewer'
    BY <2>1, <2>2, <2>3 DEF Written, UnreadNewer
  <2>5. QED  BY <2>1, <2>4 DEF Written, WritersInOrder
<1>3. ASSUME NEW c \in Conns, HandleAuthAck(c)
      PROVE  Written' /\ Kept
  <2>1. /\ inbox[c] # <<>> /\ inbox' = [inbox EXCEPT ![c] = Tail(@)]
        /\ \/ UNCHANGED <<disk, writers>>
           \/ disk' = Append(disk, Head(inbox[c])) /\ writers' = Append(writers, c)
    BY <1>3 DEF HandleAuthAck, SetProbeID, storeVars
  <2>2. CASE UNCHANGED <<disk, writers>>
    <3>1. /\ \A d \in Conns : d # c => inbox'[d] = inbox[d]
          /\ \A n \in DOMAIN inbox'[c] : n + 1 \in DOMAIN inbox[c] /\ inbox'[c][n] = inbox[c][n + 1]
      BY <2>1 DEF IdTypes
    <3>2. UnreadNewer'
      BY <2>2, <3>1 DEF Written, UnreadNewer
    <3>3. QED  BY <2>2, <3>2 DEF Written, WritersInOrder
  <2>3. CASE disk' = Append(disk, Head(inbox[c])) /\ writers' = Append(writers, c)
    <3>1. Kept
      BY <2>3 DEF IdTypes
    <3>2. QED  BY <2>1, <2>3, <3>1, WrittenCommit
  <2>4. QED  BY <2>1, <2>2, <2>3
<1>4. QED
  BY <1>1, <1>2, <1>3 DEF Next, Run, Pumps

LEMMA HeardStep ==
  ASSUME IdTypes, FramesFresh, AcksOrdered, Written, [Next]_vars
  PROVE  /\ seen' >= seen
         /\ Heard' < Heard => writers'[seen'] < writers'[seen]
<1>1. IdTypes' /\ seen' >= seen /\ Written'
  BY FreshStep, WrittenStep
<1>2. /\ seen \in Nat /\ (seen # 0 => seen \in DOMAIN disk)
      /\ seen' \in Nat /\ (seen' # 0 => seen' \in DOMAIN disk')
  BY <1>1 DEF IdTypes
<1>3. ASSUME Heard' < Heard
      PROVE  writers'[seen'] < writers'[seen]
  <2>1. /\ \A i \in DOMAIN disk : disk[i] \in Nat
        /\ \A i \in DOMAIN disk' : disk'[i] \in Nat /\ writers'[i] \in Nat
    <3>1. MaxAcks \in Nat /\ MaxConns \in Nat
      BY AgentAssumption
    <3>2. Acks \subseteq Nat /\ Conns \subseteq Nat
      BY <3>1 DEF Acks, Conns
    <3>3. \A i \in DOMAIN disk : disk[i] \in Acks
      BY DEF IdTypes
    <3>4. \A i \in DOMAIN disk' : disk'[i] \in Acks
      BY <1>1 DEF IdTypes
    <3>5. DOMAIN writers' = DOMAIN disk' /\ \A i \in DOMAIN writers' : writers'[i] \in Conns
      BY <1>1 DEF IdTypes
    <3>6. QED  BY <3>2, <3>3, <3>4, <3>5
  <2>2. seen # 0 /\ seen' # 0
    BY <1>1, <1>2, <1>3, <2>1 DEF Heard
  <2>3. seen \in DOMAIN disk /\ seen \in DOMAIN disk' /\ disk'[seen] = disk[seen]
    BY <1>2, <2>2, WrittenStep
  <2>4. disk'[seen'] < disk'[seen]
    BY <1>3, <2>2, <2>3 DEF Heard
  <2>5. seen < seen' /\ seen' \in DOMAIN disk'
    BY <1>1, <1>2, <2>1, <2>2, <2>3, <2>4
  <2>6. writers'[seen] <= writers'[seen'] => disk'[seen] < disk'[seen']
    BY <1>1, <2>3, <2>5 DEF Written, WritersInOrder
  <2>7. QED  BY <2>1, <2>3, <2>4, <2>5, <2>6
<1>4. QED  BY <1>1, <1>3

(* What the center hears follows the store, and goes back to the id of an  *)
(* older auth_ack only if the reader of an older connection stored it      *)
(* after the reader of a newer one, however many connections, auth_acks    *)
(* and restarts there are.                                                 *)
THEOREM IdentityKept == Spec => IdentityFollowsStore
<1> DEFINE IInv == IdTypes /\ FramesFresh /\ AcksOrdered /\ Written
<1>1. Init => IInv
  <2> SUFFICES ASSUME Init PROVE AcksOrdered /\ Written
    BY InitFresh
  <2>1. DOMAIN (<<>>) = {} /\ disk = <<>> /\ \A c \in Conns : inbox[c] = <<>>
    BY DEF Init
  <2>2. AcksOrdered
    BY <2>1 DEF AcksOrdered, Sent, InOrder, ConnsInOrder, StoreOlder, Unread
  <2>3. QED  BY <2>1, <2>2 DEF Written, WritersInOrder, UnreadNewer
<1>2. IInv /\ [Next]_vars => IInv'
  BY FreshStep, OrderStep, WrittenStep
<1>3. IInv /\ [Next]_vars =>
        [/\ seen' >= seen
         /\ Heard' < Heard => writers'[seen'] < writers'[seen]]_vars
  BY HeardStep
<1>4. QED  BY <1>1, <1>2, <1>3, PTL DEF Spec, IdentityFollowsStore

-----------------------------------------------------------------------------
(* Types *)

OtherTypes ==
  /\ lives \in 0..MaxLives
  /\ signalled \in BOOLEAN
  /\ Len(queue) <= SendCap

(* Every variable keeps its type; the queue never exceeds sendCh's buffer  *)
(* and no frame refers to a commit that was not made.                      *)
THEOREM TypeCorrect == Spec => []TypeOK
<1> DEFINE IInv == IdTypes /\ FramesFresh /\ ReportInv /\ OtherTypes
<1>a. MaxLives \in Nat /\ SendCap \in Nat
  BY AgentAssumption
<1>1. Init => IInv
  <2> SUFFICES ASSUME Init PROVE ReportInv /\ OtherTypes
    BY InitFresh
  <2>1. Len(queue) = 0 /\ OtherTypes
    <3>1. queue = <<>> /\ Len(queue) = 0 /\ lives = 0 /\ signalled = FALSE
      BY DEF Init, Results!Init
    <3>2. lives \in 0..MaxLives /\ Len(queue) <= SendCap
      BY <1>a, <3>1
    <3>3. signalled \in BOOLEAN
      BY <3>1
    <3>4. QED  BY <3>1, <3>2, <3>3 DEF OtherTypes
  <2>2. QED  BY <2>1, InitReport
<1>2. IInv /\ [Next]_vars => IInv'
  <2> SUFFICES ASSUME IInv, [Next]_vars PROVE OtherTypes'
    BY FreshStep, ReportStep
  <2>1. queue \in Seq(Jobs) /\ Len(queue) \in Nat
    BY DEF ReportInv, ResultTypes
  <2>2. /\ \A r \in Jobs : Results!Put(r) => Len(queue') <= SendCap
        /\ Results!Take \/ Results!Waste \/ Results!Deliver \/ Results!Lose => Len(queue') <= SendCap
    BY <1>a, <2>1 DEF OtherTypes, Results!Put, Results!Take, Results!Waste, Results!Deliver, Results!Lose
  <2>3. UNCHANGED resultVars => Len(queue') <= SendCap
    BY DEF OtherTypes, resultVars
  <2>4. lives' \in 0..MaxLives /\ signalled' \in BOOLEAN
    <3>1. CASE Start
      BY <1>a, <3>1 DEF Start, OtherTypes
    <3>2. CASE Signal \/ Crash \/ Exit
      BY <3>2 DEF Signal, Crash, Exit, End, OtherTypes
    <3>3. CASE UNCHANGED <<lives, signalled>>
      BY <3>3 DEF OtherTypes
    <3>4. QED
      BY <3>1, <3>2, <3>3 DEF Next, Run, Pumps, Workers, vars, CloseStore, Dial, Return, ReadProbeID,
           SendAuth, Disconnect, Break, CenterAcks, HandleAuthAck, HandleJobMessage, ReadFails,
           TakeResult, WriteResult, ReadBeat, WriteBeat, Stop, StartJob, SettleJob
  <2>5. Len(queue') <= SendCap
    <3>1. CASE Crash \/ Exit
      BY <1>a, <3>1 DEF Crash, Exit, End
    <3>2. CASE \/ UNCHANGED resultVars
               \/ \E r \in Jobs : Results!Put(r)
               \/ Results!Take \/ Results!Waste \/ Results!Deliver \/ Results!Lose
      BY <2>2, <2>3, <3>2
    <3>3. QED
      BY <3>1, <3>2 DEF Next, Run, Pumps, Workers, vars, Start, Signal, CloseStore, Dial, Return,
           ReadProbeID, SendAuth, Disconnect, Cut, Break, CenterAcks, HandleAuthAck, HandleJobMessage,
           ReadFails, TakeResult, WriteResult, ReadBeat, WriteBeat, Stop, StartJob, SettleJob
  <2>6. QED  BY <2>4, <2>5 DEF OtherTypes
<1>3. IInv => TypeOK
  BY DEF IdTypes, ReportInv, ResultTypes, OtherTypes, TypeOK
<1>4. QED  BY <1>1, <1>2, <1>3, PTL DEF Spec
=============================================================================
