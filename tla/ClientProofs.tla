---------------------------- MODULE ClientProofs ----------------------------
(***************************************************************************)
(* Theorems about the connections of Client, for any numbers of            *)
(* connections and results and any capacity of the queue.  Those about the *)
(* results are in ClientResultsProofs.                                     *)
(***************************************************************************)
EXTENDS Client, FiniteSetTheorems, TLAPS

PumpStates == {"off", "read", "reject", "select", "lock", "writing", "report", "ended"}

(* The part of TypeOK that connections and pumps are in. *)
ConnTypes ==
  /\ shutdown \in BOOLEAN
  /\ main \in {"dial", "install", "fetch", "auth", "serve", "abandon", "backoff", "done"}
  /\ cur \in 0..MaxConns
  /\ conn \in 1..cur \cup {None}
  /\ link \in [Conns -> Live \cup {"none", "broken", "closed"}]
  /\ rejections \subseteq 1..cur
  /\ first \in [Conns -> {None, "auth", "result", "beat"}]
  /\ cancelled \in [Conns -> BOOLEAN]
  /\ errCh \in [Conns -> 0..ErrCap]
  /\ pump \in [Kinds -> [Conns -> PumpStates]]
  /\ connMu \in BOOLEAN

Unborn(c) == link[c] = "none" /\ first[c] = None /\ errCh[c] = 0 /\ \A k \in Kinds : pump[k][c] = "off"

(* What Run holds while it works on the newest connection. *)
RunHolds ==
  /\ main \in {"install", "fetch", "auth", "serve", "abandon"} => cur \in Conns
  /\ main \in {"fetch", "auth", "serve", "abandon"} => conn = cur
  /\ main \in {"install", "fetch", "auth"} => first[cur] = None /\ \A k \in Kinds : pump[k][cur] = "off"

Numbered == \A c \in Conns : IF c > cur THEN Unborn(c) ELSE link[c] # "none"

(* A pump has an error to report only of a socket that works no more.      *)
ErrorsAreReal ==
  \A c \in Conns :
    errCh[c] > 0 \/ (\E k \in Kinds : pump[k][c] = "report") => link[c] \in {"broken", "closed"}

ConnInv == RunHolds /\ Numbered /\ OneSocket /\ AuthFirst /\ ErrorsAreReal

-----------------------------------------------------------------------------
(* One pump moves, or the three of a connection start *)

LEMMA MovePump ==
  ASSUME ConnTypes, NEW k \in Kinds, NEW c \in Conns, NEW from, NEW to \in PumpStates, Move(k, c, from, to)
  PROVE  /\ pump' \in [Kinds -> [Conns -> PumpStates]]
         /\ pump[k][c] = from /\ pump'[k][c] = to
         /\ \A j \in Kinds, d \in Conns : j # k \/ d # c => pump'[j][d] = pump[j][d]
<1>1. /\ pump[k] \in [Conns -> PumpStates]
      /\ pump' = [pump EXCEPT ![k] = [pump[k] EXCEPT ![c] = to]]
  BY DEF ConnTypes, Move
<1>2. [pump[k] EXCEPT ![c] = to] \in [Conns -> PumpStates]
  BY <1>1
<1>3. pump' \in [Kinds -> [Conns -> PumpStates]]
  BY <1>1, <1>2 DEF ConnTypes
<1>4. QED  BY <1>1, <1>3 DEF ConnTypes, Move

LEMMA StartPumps ==
  ASSUME ConnTypes, NEW c \in Conns,
         pump' = [pump EXCEPT !["read"][c] = "read", !["write"][c] = "select", !["beat"][c] = "select"]
  PROVE  /\ pump' \in [Kinds -> [Conns -> PumpStates]]
         /\ \A k \in Kinds : pump'[k][c] = IF k = "read" THEN "read" ELSE "select"
         /\ \A k \in Kinds, d \in Conns : d # c => pump'[k][d] = pump[k][d]
<1>1. \A k \in Kinds : pump[k] \in [Conns -> PumpStates]
  BY DEF ConnTypes
<1> DEFINE row(k) == [pump[k] EXCEPT ![c] = IF k = "read" THEN "read" ELSE "select"]
<1>2. pump' = [k \in Kinds |-> row(k)]
  BY <1>1 DEF ConnTypes, Kinds
<1>3. \A k \in Kinds :
        /\ row(k) \in [Conns -> PumpStates]
        /\ row(k)[c] = IF k = "read" THEN "read" ELSE "select"
        /\ \A d \in Conns : d # c => row(k)[d] = pump[k][d]
  BY <1>1 DEF PumpStates
<1> HIDE DEF row
<1>4. \A k \in Kinds : pump'[k] = row(k)
  BY <1>2
<1>5. pump' \in [Kinds -> [Conns -> PumpStates]]
  <2> DEFINE rows == [Conns -> PumpStates]
  <2>1. \A k \in Kinds : row(k) \in rows
    BY <1>3
  <2> HIDE DEF rows
  <2>2. pump' \in [Kinds -> rows]
    BY <1>2, <2>1
  <2>3. QED  BY <2>2 DEF rows
<1>6. QED  BY <1>3, <1>4, <1>5

-----------------------------------------------------------------------------
(* Types and connections *)

LEMMA InitConn == Init => ConnTypes /\ ConnInv
<1> SUFFICES ASSUME Init PROVE ConnTypes /\ ConnInv
  OBVIOUS
<1>1. MaxConns \in Nat /\ None \notin Nat
  BY ClientAssumption
<1>2. pump = [k \in Kinds |-> [c \in Conns |-> "off"]]
  BY DEF Init
<1>3. [c \in Conns |-> "off"] \in [Conns -> PumpStates]
  BY DEF PumpStates
<1>4. pump \in [Kinds -> [Conns -> PumpStates]]
  BY <1>2, <1>3
<1>5. \A k \in Kinds, c \in Conns : pump[k][c] = "off"
  BY <1>2
<1>6. ConnTypes
  <2>1. link \in [Conns -> Live \cup {"none", "broken", "closed"}] /\ errCh \in [Conns -> 0..ErrCap]
    BY DEF Init, ErrCap
  <2>2. first \in [Conns -> {None, "auth", "result", "beat"}] /\ cancelled \in [Conns -> BOOLEAN]
    BY DEF Init
  <2>3. /\ shutdown = FALSE /\ main = "dial" /\ cur = 0 /\ conn = None /\ rejections = {} /\ connMu = FALSE
    BY DEF Init
  <2>4. cur \in 0..MaxConns /\ conn \in 1..cur \cup {None} /\ rejections \subseteq 1..cur
    BY <1>1, <2>3
  <2>5. /\ shutdown \in BOOLEAN /\ connMu \in BOOLEAN
        /\ main \in {"dial", "install", "fetch", "auth", "serve", "abandon", "backoff", "done"}
    BY <2>3
  <2>6. QED  BY <1>4, <2>1, <2>2, <2>4, <2>5 DEF ConnTypes
<1>7. ConnInv
  BY <1>1, <1>5 DEF Init, ConnInv, RunHolds, Numbered, Unborn, OneSocket, AuthFirst, ErrorsAreReal, Conns
<1>8. QED  BY <1>6, <1>7

ConnAll == ConnTypes /\ ConnInv

LEMMA Numbers ==
  ASSUME ConnTypes
  PROVE  /\ MaxConns \in Nat /\ None \notin Nat /\ None # "auth" /\ cur \in Nat
         /\ Conns \subseteq Nat /\ \A c \in Conns : c > cur <=> c \notin 1..cur
<1>1. MaxConns \in Nat /\ None \notin Nat /\ None # "auth"
  BY ClientAssumption
<1>2. cur \in Nat
  BY <1>1 DEF ConnTypes
<1>3. QED  BY <1>1, <1>2 DEF Conns

(* Steps that change neither pumps nor errors nor frames nor sockets. *)
LEMMA Quiet ==
  ASSUME ConnAll, UNCHANGED <<cur, conn, link, first, errCh, pump, cancelled, rejections>>,
         main' = main \/ (main \in {"dial", "backoff"} /\ main' \in {"dial", "backoff", "done"}),
         connMu' \in BOOLEAN, shutdown' \in BOOLEAN
  PROVE  ConnAll'
<1>1. ConnTypes'
  BY DEF ConnAll, ConnTypes
<1>2. RunHolds' /\ Numbered' /\ AuthFirst' /\ ErrorsAreReal'
  BY DEF ConnAll, ConnInv, RunHolds, Numbered, Unborn, AuthFirst, ErrorsAreReal
<1>3. OneSocket'
  BY DEF ConnAll, ConnInv, OneSocket
<1>4. QED  BY <1>1, <1>2, <1>3 DEF ConnAll, ConnInv

LEMMA RunSteps == ConnAll /\ Run => ConnAll'
<1> SUFFICES ASSUME ConnAll, Run PROVE ConnAll'
  OBVIOUS
<1>a. /\ MaxConns \in Nat /\ None \notin Nat /\ None # "auth" /\ cur \in Nat
      /\ Conns \subseteq Nat /\ \A c \in Conns : c > cur <=> c \notin 1..cur
  BY Numbers DEF ConnAll
<1>b. /\ ConnTypes /\ RunHolds /\ Numbered /\ OneSocket /\ AuthFirst /\ ErrorsAreReal
      /\ ConnTypes' /\ RunHolds' /\ Numbered' /\ OneSocket' /\ AuthFirst' /\ ErrorsAreReal' => ConnAll'
  BY DEF ConnAll, ConnInv
<1> USE <1>a DEF Unborn, ErrCap, Live
<1>2. ASSUME DialFails \/ BackoffEnds
      PROVE  ConnAll'
  BY <1>2, <1>b, Quiet DEF DialFails, BackoffEnds, AfterError, netVars, resultVars, ConnTypes
<1>3. ASSUME DialSucceeds
      PROVE  ConnAll'
  <2>1. /\ cur' = cur + 1 /\ cur' \in Conns /\ link' = [link EXCEPT ![cur'] = "up"] /\ main' = "install"
        /\ UNCHANGED <<shutdown, conn, cancelled, rejections, first, errCh, pump, connMu>> /\ main = "dial"
    BY <1>3, <1>b DEF DialSucceeds, resultVars, Conns, ConnTypes
  <2>2. Unborn(cur')
    BY <2>1, <1>b DEF Numbered
  <2>3. link'[cur'] = "up" /\ \A c \in Conns : c # cur' => link'[c] = link[c]
    BY <2>1, <1>b DEF ConnTypes
  <2>4. \A c \in Conns : c > cur' => c > cur /\ c # cur'
    BY <2>1
  <2>5. ConnTypes'
    BY <2>1, <1>b DEF ConnTypes, Conns
  <2>6. RunHolds'
    BY <2>1, <2>2, <1>b DEF RunHolds
  <2>7. Numbered'
    BY <2>1, <2>2, <2>3, <2>4, <1>b DEF Numbered
  <2>8. OneSocket' /\ AuthFirst'
    BY <2>1, <2>2, <2>3, <1>b DEF OneSocket, AuthFirst
  <2>9. ErrorsAreReal'
    BY <2>1, <2>2, <2>3, <1>b DEF ErrorsAreReal
  <2>10. QED  BY <2>5, <2>6, <2>7, <2>8, <2>9, <1>b
<1>4. ASSUME Install \/ LockAuth
      PROVE  ConnAll'
  <2>1. /\ \/ main' = "fetch" /\ conn' = cur
           \/ main' = "auth" /\ conn' = conn /\ main = "fetch"
        /\ main \in {"install", "fetch"}
        /\ UNCHANGED <<shutdown, cur, link, cancelled, rejections, first, errCh, pump>> /\ connMu' \in BOOLEAN
    BY <1>4, <1>b DEF Install, LockAuth, Lock, netVars, resultVars, ConnTypes
  <2>2. cur \in 1..cur
    BY <2>1, <1>b DEF RunHolds, Conns
  <2>3. ConnTypes'
    BY <2>1, <2>2, <1>b DEF ConnTypes
  <2>4. RunHolds' /\ Numbered' /\ OneSocket' /\ AuthFirst' /\ ErrorsAreReal'
    BY <2>1, <1>b DEF RunHolds, Numbered, OneSocket, AuthFirst, ErrorsAreReal
  <2>5. QED  BY <2>3, <2>4, <1>b
<1>5. ASSUME SendAuth
      PROVE  ConnAll'
  <2>1. /\ main = "auth" /\ main' = "serve" /\ cur \in Conns /\ link[cur] \in Live
        /\ UNCHANGED <<shutdown, cur, conn, cancelled, rejections, errCh>> /\ connMu' = FALSE
        /\ link' = [link EXCEPT ![cur] = IF @ = "up" THEN "up" ELSE "dying"]
        /\ first' = [first EXCEPT ![cur] = IF @ = None THEN "auth" ELSE @]
    BY <1>5, <1>b DEF SendAuth, WriteSucceeds, Unlock, resultVars, RunHolds
  <2>2. /\ pump' \in [Kinds -> [Conns -> PumpStates]]
        /\ \A k \in Kinds : pump'[k][cur] = IF k = "read" THEN "read" ELSE "select"
        /\ \A k \in Kinds, d \in Conns : d # cur => pump'[k][d] = pump[k][d]
    BY <1>5, <2>1, <1>b, StartPumps DEF SendAuth
  <2>3. /\ first'[cur] = "auth" /\ link'[cur] \in {"up", "dying"}
        /\ \A c \in Conns : c # cur => first'[c] = first[c] /\ link'[c] = link[c]
    BY <2>1, <1>b DEF ConnTypes, RunHolds
  <2>4. errCh[cur] = 0
    BY <2>1, <1>b DEF ErrorsAreReal, ConnTypes
  <2>5. ConnTypes'
    BY <2>1, <2>2, <1>b DEF ConnTypes
  <2>6. RunHolds' /\ Numbered' /\ OneSocket'
    BY <2>1, <2>2, <2>3, <1>b DEF RunHolds, Numbered, OneSocket
  <2>7. AuthFirst'
    <3>1. \A c \in Conns : c # cur => /\ first'[c] \in {None, "auth"}
                                      /\ (\E k \in Kinds : pump'[k][c] # "off") => first'[c] = "auth"
      BY <2>2, <2>3, <1>b DEF AuthFirst
    <3>2. QED  BY <2>3, <3>1 DEF AuthFirst
  <2>8. ErrorsAreReal'
    BY <2>1, <2>2, <2>3, <2>4, <1>b DEF ErrorsAreReal
  <2>9. QED  BY <2>5, <2>6, <2>7, <2>8, <1>b
(* The socket of the connection Run works on closes or breaks. *)
<1>6. ASSUME AuthFails \/ Abandon
      PROVE  ConnAll'
  <2>1. /\ main \in {"auth", "abandon"} /\ cur \in Conns
        /\ \/ main = "abandon" /\ main' \in {"backoff", "done"} /\ link'[cur] = "closed"
           \/ main = "auth" /\ main' = "abandon" /\ link'[cur] \in {"closed", "broken"}
        /\ link' = [link EXCEPT ![cur] = link'[cur]]
        /\ UNCHANGED <<shutdown, cur, conn, cancelled, rejections, first, errCh, pump>> /\ connMu' \in BOOLEAN
    BY <1>6, <1>b DEF AuthFails, Abandon, AfterError, WriteFails, Unlock, resultVars, RunHolds, ConnTypes
  <2>2. /\ link' \in [Conns -> Live \cup {"none", "broken", "closed"}]
        /\ \A c \in Conns : c # cur => link'[c] = link[c]
    BY <2>1, <1>b DEF ConnTypes
  <2>3. ConnTypes'
    BY <2>1, <2>2, <1>b DEF ConnTypes
  <2>4. RunHolds' /\ Numbered' /\ AuthFirst' /\ ErrorsAreReal'
    BY <2>1, <2>2, <1>b DEF RunHolds, Numbered, AuthFirst, ErrorsAreReal
  <2>5. OneSocket'
    BY <2>1, <2>2, <1>b DEF OneSocket
  <2>6. QED  BY <2>3, <2>4, <2>5, <1>b
<1>7. ASSUME Cancel
      PROVE  ConnAll'
  <2>1. /\ main = "serve" /\ main' = "abandon" /\ cur \in Conns
        /\ UNCHANGED <<shutdown, cur, conn, link, rejections, first, pump, connMu>>
        /\ cancelled' = [cancelled EXCEPT ![cur] = TRUE]
    BY <1>7, <1>b DEF Cancel, netVars, resultVars, RunHolds
  <2>2. errCh' \in [Conns -> 0..ErrCap] /\ \A c \in Conns : errCh'[c] <= errCh[c]
    BY <1>7, <2>1, <1>b DEF Cancel, ConnTypes
  <2>3. ConnTypes'
    BY <2>1, <2>2, <1>b DEF ConnTypes
  <2>4. \A c \in Conns : errCh[c] = 0 => errCh'[c] = 0
    BY <2>2, <1>b DEF ConnTypes
  <2>5. RunHolds' /\ Numbered' /\ OneSocket' /\ AuthFirst'
    BY <2>1, <2>4, <1>b DEF RunHolds, Numbered, OneSocket, AuthFirst
  <2>6. ErrorsAreReal'
    <3>1. \A c \in Conns : errCh'[c] > 0 => errCh[c] > 0
      BY <2>2, <1>b DEF ConnTypes
    <3>2. QED  BY <2>1, <3>1, <1>b DEF ErrorsAreReal
  <2>7. QED  BY <2>3, <2>5, <2>6, <1>b
<1>8. QED
  BY <1>2, <1>3, <1>4, <1>5, <1>6, <1>7 DEF Run

LEMMA NetworkSteps ==
  ASSUME ConnAll, NEW c \in Conns, Network(c)
  PROVE  ConnAll'
<1>1. UNCHANGED <<shutdown, mainVars, first, errCh, pump, connMu>>
  BY DEF Network, Die, Break, Reject
<1>2. /\ link' \in [Conns -> Live \cup {"none", "broken", "closed"}]
      /\ \A d \in Conns : \/ link'[d] = link[d]
                          \/ link[d] \in {"up", "dying"} /\ link'[d] \in {"dead", "broken"}
      /\ rejections' \subseteq 1..cur
  <2>1. CASE Die(c) \/ Break(c)
    BY <2>1 DEF Die, Break, ConnAll, ConnTypes, Live
  <2>2. CASE Reject(c)
    BY <2>2, Numbers DEF Reject, ConnAll, ConnTypes, ConnInv, Numbered, Unborn
  <2>3. QED  BY <2>1, <2>2 DEF Network
<1>3. ConnTypes'
  BY <1>1, <1>2 DEF mainVars, ConnAll, ConnTypes
<1>4. RunHolds' /\ Numbered' /\ AuthFirst'
  BY <1>1, <1>2 DEF mainVars, ConnAll, ConnInv, RunHolds, Numbered, Unborn, AuthFirst
<1>5. OneSocket' /\ ErrorsAreReal'
  BY <1>1, <1>2 DEF mainVars, ConnAll, ConnInv, OneSocket, ErrorsAreReal
<1>6. QED  BY <1>3, <1>4, <1>5 DEF ConnAll, ConnInv

(* A pump moves, and reports only when its socket works no more. *)
PumpStep(k, c, from, to) ==
  /\ Move(k, c, from, to)
  /\ UNCHANGED <<shutdown, main, cur, conn, cancelled, first>>
  /\ rejections' \subseteq rejections
  /\ connMu' \in BOOLEAN
  /\ link' \in [Conns -> Live \cup {"none", "broken", "closed"}]
  /\ \A d \in Conns : \/ link'[d] = link[d]
                      \/ link[d] # "none" /\ link'[d] = "closed"
                      \/ link[d] \in Live /\ link'[d] \in Live \cup {"broken"}
  /\ errCh' \in [Conns -> 0..ErrCap]
  /\ \A d \in Conns \ {c} : errCh'[d] = errCh[d]
  /\ errCh'[c] > errCh[c] => from = "report"
  /\ to = "report" => link'[c] \in {"broken", "closed"}

LEMMA PumpMoves ==
  ASSUME ConnAll, NEW k \in Kinds, NEW c \in Conns, NEW from \in PumpStates \ {"off"},
         NEW to \in PumpStates \ {"off"}, PumpStep(k, c, from, to)
  PROVE  ConnAll'
<1>1. /\ pump' \in [Kinds -> [Conns -> PumpStates]]
      /\ pump[k][c] = from /\ pump'[k][c] = to
      /\ \A j \in Kinds, d \in Conns : j # k \/ d # c => pump'[j][d] = pump[j][d]
  BY MovePump DEF ConnAll, PumpStep
<1>2. ~(c > cur) /\ first[c] = "auth"
  BY <1>1 DEF ConnAll, ConnInv, Numbered, Unborn, AuthFirst
<1>4. ConnTypes'
  BY <1>1 DEF ConnAll, ConnTypes, PumpStep
<1>5. RunHolds'
  BY <1>1 DEF ConnAll, ConnInv, RunHolds, PumpStep
<1>6. Numbered'
  BY <1>1, <1>2 DEF ConnAll, ConnInv, Numbered, Unborn, Live, PumpStep
<1>7. OneSocket'
  BY DEF ConnAll, ConnInv, OneSocket, Live, PumpStep
<1>8. AuthFirst'
  BY <1>1, <1>2 DEF ConnAll, ConnInv, AuthFirst, PumpStep
<1>9. ErrorsAreReal'
  <2>1. \A d \in Conns : link[d] \in {"broken", "closed"} => link'[d] \in {"broken", "closed"}
    BY DEF Live, PumpStep
  <2>2. \A d \in Conns : d # c => (errCh'[d] > 0 \/ (\E j \in Kinds : pump'[j][d] = "report")
                                    => link'[d] \in {"broken", "closed"})
    BY <2>1, <1>1 DEF ConnAll, ConnInv, ErrorsAreReal, PumpStep
  <2>3. errCh'[c] > 0 \/ (\E j \in Kinds : pump'[j][c] = "report") => link'[c] \in {"broken", "closed"}
    <3>1. errCh[c] \in Nat /\ errCh'[c] \in Nat
      BY DEF ConnAll, ConnTypes, ErrCap, PumpStep
    <3>2. errCh'[c] > 0 => errCh[c] > 0 \/ pump[k][c] = "report"
      BY <1>1, <3>1 DEF PumpStep
    <3>3. \A j \in Kinds : pump'[j][c] = "report" => pump[j][c] = "report" \/ link'[c] \in {"broken", "closed"}
      BY <1>1 DEF PumpStep
    <3>4. QED  BY <2>1, <3>2, <3>3 DEF ConnAll, ConnInv, ErrorsAreReal
  <2>4. QED  BY <2>2, <2>3 DEF ErrorsAreReal
<1>10. QED  BY <1>4, <1>5, <1>6, <1>7, <1>8, <1>9 DEF ConnAll, ConnInv

(* A pump moves and nothing else but the mutex. *)
LEMMA PumpAlone ==
  ASSUME ConnAll, NEW k \in Kinds, NEW c \in Conns, NEW from, NEW to, Move(k, c, from, to),
         UNCHANGED <<shutdown, main, cur, conn, cancelled, first, link, errCh>>,
         rejections' \subseteq rejections, connMu' \in BOOLEAN,
         to = "report" => link[c] \in {"broken", "closed"}
  PROVE  PumpStep(k, c, from, to)
BY DEF PumpStep, ConnAll, ConnTypes, ErrCap

LEMMA ConnStep == ConnAll /\ [Next]_vars => ConnAll'
<1> SUFFICES ASSUME ConnAll, [Next]_vars PROVE ConnAll'
  OBVIOUS
<1>1. connMu \in BOOLEAN
  BY DEF ConnAll, ConnTypes
<1>2. None # "auth"
  BY Numbers DEF ConnAll
<1>3. \A c \in Conns : [first EXCEPT ![c] = first[c]] = first
  BY DEF ConnAll, ConnTypes
<1>4. errCh \in [Conns -> 0..ErrCap] /\ \A c \in Conns : ~(errCh[c] > errCh[c])
  BY DEF ConnAll, ConnTypes, ErrCap
<1>12. ASSUME NEW k \in Kinds, NEW c \in Conns, Report(k, c)
       PROVE  ConnAll'
  <2>1. PumpStep(k, c, "report", "ended")
    BY <1>12, <1>1, <1>4 DEF PumpStep, Report, mainVars, netVars, ConnAll, ConnTypes, ErrCap
  <2>2. QED  BY <2>1, PumpMoves DEF PumpStates
<1>13. ASSUME NEW c \in Conns, ReadRejection(c)
       PROVE  ConnAll'
  <2>1. PumpStep("read", c, "read", "reject")
    BY <1>13, <1>1, PumpAlone DEF ReadRejection, mainVars, Kinds
  <2>2. QED  BY <2>1, PumpMoves DEF PumpStates, Kinds
<1>14. ASSUME NEW c \in Conns, ReadFails(c)
       PROVE  ConnAll'
  <2>1. PumpStep("read", c, "read", "report")
    BY <1>14, <1>1, PumpAlone DEF ReadFails, mainVars, netVars, Kinds
  <2>2. QED  BY <2>1, PumpMoves DEF PumpStates, Kinds
<1>15. ASSUME NEW c \in Conns, Close(c)
       PROVE  ConnAll'
  <2>1. /\ Move("read", c, "reject", "read") /\ link' = [link EXCEPT ![conn] = "closed"]
        /\ UNCHANGED <<shutdown, main, cur, conn, cancelled, first, rejections, errCh, connMu>>
    BY <1>15 DEF Close, mainVars
  <2>2. conn \in Conns => link[conn] # "none"
    BY Numbers DEF ConnAll, ConnTypes, ConnInv, Numbered
  <2>3. \A d \in Conns : link'[d] = link[d] \/ (link[d] # "none" /\ link'[d] = "closed")
    BY <2>1, <2>2 DEF ConnAll, ConnTypes
  <2>4. PumpStep("read", c, "reject", "read")
    BY <2>1, <2>3, <1>1, <1>4 DEF PumpStep, ConnAll, ConnTypes
  <2>5. QED  BY <2>4, PumpMoves DEF PumpStates, Kinds
<1>16. ASSUME NEW c \in Conns, TakeResult(c) \/ Tick(c)
       PROVE  ConnAll'
  <2>1. \E k \in {"write", "beat"} : PumpStep(k, c, "select", "lock")
    BY <1>16, <1>1, PumpAlone DEF TakeResult, Tick, mainVars, netVars, Kinds
  <2>2. QED  BY <2>1, PumpMoves DEF PumpStates, Kinds
<1>17. ASSUME NEW k \in Kinds, NEW c \in Conns, LockWrite(k, c) \/ Stop(k, c)
       PROVE  ConnAll'
  <2>1. PumpStep(k, c, "lock", "writing") \/ PumpStep(k, c, "select", "ended")
    BY <1>17, <1>1, PumpAlone DEF LockWrite, Stop, Lock, mainVars, netVars
  <2>2. QED  BY <2>1, PumpMoves DEF PumpStates
(* A write of a pump. *)
<1>18. ASSUME NEW k \in Kinds, NEW c \in Conns, Unlock,
              UNCHANGED <<shutdown, main, cur, conn, cancelled, rejections, errCh>>,
              \/ Move(k, c, "writing", "select") /\ \E kind : WriteSucceeds(c, kind)
              \/ Move(k, c, "writing", "report") /\ WriteFails(c)
       PROVE  ConnAll'
  <2>1. first[c] = "auth" /\ link[c] # "none"
    BY <1>18, Numbers DEF Move, PumpStates, ConnAll, ConnInv, AuthFirst, Numbered, Unborn
  <2>2. CASE Move(k, c, "writing", "select") /\ \E kind : WriteSucceeds(c, kind)
    <3>1. link[c] \in Live /\ link' = [link EXCEPT ![c] = IF @ = "up" THEN "up" ELSE "dying"]
      BY <2>2 DEF WriteSucceeds
    <3>2. first' = first
      BY <2>1, <2>2, <1>2, <1>3 DEF WriteSucceeds, ConnAll, ConnTypes
    <3>3. /\ link' \in [Conns -> Live \cup {"none", "broken", "closed"}]
          /\ link'[c] \in Live /\ \A d \in Conns \ {c} : link'[d] = link[d]
      BY <3>1 DEF ConnAll, ConnTypes, Live
    <3>4. PumpStep(k, c, "writing", "select")
      BY <1>18, <1>4, <2>2, <3>1, <3>2, <3>3 DEF PumpStep, Unlock
    <3>5. QED  BY <3>4, PumpMoves DEF PumpStates
  <2>3. CASE Move(k, c, "writing", "report") /\ WriteFails(c)
    <3>1. link' = [link EXCEPT ![c] = IF @ = "closed" THEN "closed" ELSE "broken"] /\ first' = first
      BY <2>3 DEF WriteFails
    <3>2. /\ link' \in [Conns -> Live \cup {"none", "broken", "closed"}]
          /\ link'[c] = (IF link[c] = "closed" THEN "closed" ELSE "broken")
          /\ \A d \in Conns \ {c} : link'[d] = link[d]
      BY <3>1 DEF ConnAll, ConnTypes
    <3>3. link[c] \in Live \cup {"broken", "closed"}
      BY <2>1 DEF ConnAll, ConnTypes
    <3>4. PumpStep(k, c, "writing", "report")
      BY <1>18, <1>4, <2>3, <3>1, <3>2, <3>3 DEF PumpStep, Unlock
    <3>5. QED  BY <3>4, PumpMoves DEF PumpStates
  <2>4. QED  BY <1>18, <2>2, <2>3
<1>19. ASSUME NEW c \in Conns, WriteResult(c) \/ WriteBeat(c)
       PROVE  ConnAll'
  <2>1. \E k \in {"write", "beat"} :
          /\ UNCHANGED <<shutdown, main, cur, conn, cancelled, rejections, errCh>> /\ Unlock
          /\ \/ Move(k, c, "writing", "select") /\ \E kind : WriteSucceeds(c, kind)
             \/ Move(k, c, "writing", "report") /\ WriteFails(c)
    BY <1>19 DEF WriteResult, WriteBeat, mainVars
  <2>2. QED  BY <1>18, <2>1 DEF Kinds
<1>20. ASSUME UNCHANGED vars \/ Shutdown \/ Send
       PROVE  ConnAll'
  BY <1>20, Quiet DEF vars, Shutdown, Send, mainVars, netVars, ConnAll, ConnTypes
<1>21. QED
  <2>1. CASE \E c \in Conns : Network(c) \/ ReadPump(c) \/ WritePump(c) \/ HeartbeatLoop(c)
    BY <2>1, NetworkSteps, <1>12, <1>13, <1>14, <1>15, <1>16, <1>17, <1>19 DEF ReadPump, WritePump, HeartbeatLoop, Kinds
  <2>2. QED  BY <2>1, <1>20, RunSteps DEF Next, Terminated

(* The first frame on each connection is its auth frame.                   *)
THEOREM AuthComesFirst == Spec => []AuthFirst
<1>1. ConnAll => AuthFirst
  BY DEF ConnAll, ConnInv
<1>2. Init => ConnAll
  BY InitConn DEF ConnAll
<1>3. QED  BY <1>1, <1>2, ConnStep, PTL DEF Spec

(* Only the socket Run works on may be open, so none leaks.                *)
THEOREM SocketsClosed == Spec => []OneSocket
<1>1. ConnAll => OneSocket
  BY DEF ConnAll, ConnInv
<1>2. Init => ConnAll
  BY InitConn DEF ConnAll
<1>3. QED  BY <1>1, <1>2, ConnStep, PTL DEF Spec

(* A late error of an older connection's pump never ends a connection that *)
(* works.                                                                  *)
THEOREM HealthyKept == Spec => HealthyLinkKept
<1>1. ASSUME ConnAll, [Next]_vars, main = "serve", main' # "serve"
      PROVE  shutdown \/ link[cur] # "up"
  <2>1. CASE Cancel
    BY <1>1, <2>1 DEF Cancel, ConnAll, ConnInv, RunHolds, ErrorsAreReal
  <2>2. CASE Run /\ ~Cancel
    BY <1>1, <2>2 DEF Run, DialFails, DialSucceeds, Install, LockAuth, SendAuth, AuthFails, Abandon, BackoffEnds
  <2>3. CASE ~Run
    <3>1. main' = main
      BY <1>1, <2>3 DEF Next, vars, mainVars, Terminated, Shutdown, Send, Network, Die, Break, Reject,
           ReadPump, WritePump, HeartbeatLoop, Report, ReadRejection, Close, ReadFails, TakeResult, Tick,
           Stop, LockWrite, WriteResult, WriteBeat
    <3>2. QED  BY <1>1, <3>1
  <2>4. QED  BY <2>1, <2>2, <2>3
<1>2. ConnAll /\ [Next]_vars =>
        [main = "serve" /\ main' # "serve" => shutdown \/ link[cur] # "up"]_vars
  BY <1>1
<1>3. Init => ConnAll
  BY InitConn DEF ConnAll
<1>4. QED  BY <1>2, <1>3, ConnStep, PTL DEF Spec, HealthyLinkKept

(* A rejection closes the connection it arrived on, and not a later one    *)
(* only.                                                                   *)
THEOREM RejectionCloses == Spec => RejectedLinkCloses
<1>1. ASSUME ConnAll, [Next]_vars, NEW c \in Conns, pump["read"][c] = "reject", pump'["read"][c] # "reject"
      PROVE  link'[c] = "closed"
  <2>1. \A k \in Kinds, d \in Conns : \A from, to \in PumpStates : Move(k, d, from, to) => from = "reject"
    BY <1>1, MovePump DEF ConnAll, Kinds
  <2>2. \A d \in Conns : Move("read", d, "reject", "read") => d = c
    BY <1>1, MovePump DEF ConnAll, Kinds, PumpStates
  <2>3. pump' # pump
    BY <1>1
  <2>4. ~Run
    <3>1. ASSUME SendAuth
          PROVE  FALSE
      <4>1. main = "auth" /\ cur \in Conns /\ pump["read"][cur] = "off"
        BY <1>1, <3>1 DEF SendAuth, ConnAll, ConnInv, RunHolds, Kinds
      <4>2. pump'["read"][c] = pump["read"][c]
        BY <1>1, <3>1, <4>1, StartPumps DEF SendAuth, ConnAll, Kinds
      <4>3. QED  BY <1>1, <4>2
    <3>2. QED  BY <2>3, <3>1 DEF Run, DialFails, DialSucceeds, Install, LockAuth, AuthFails, Cancel, Abandon, BackoffEnds
  <2>5. PICK d \in Conns : ReadPump(d) \/ WritePump(d) \/ HeartbeatLoop(d)
    BY <1>1, <2>3, <2>4 DEF Next, vars, Terminated, Shutdown, Send, Network, Die, Break, Reject
  <2>6. Close(c)
    BY <2>1, <2>2, <2>5 DEF ReadPump, WritePump, HeartbeatLoop, Report, ReadRejection, Close, ReadFails,
       TakeResult, Tick, Stop, LockWrite, WriteResult, WriteBeat, Kinds, PumpStates
  <2>7. /\ link' = [link EXCEPT ![conn] = "closed"]
        /\ link \in [Conns -> Live \cup {"none", "broken", "closed"}]
    BY <1>1, <2>6 DEF Close, ConnAll, ConnTypes
  <2>8. CASE link[c] = "closed"
    BY <2>7, <2>8
  <2>9. CASE link[c] # "closed"
    <3>1. link[c] # "none"
      BY <1>1 DEF ConnAll, ConnInv, Numbered, Unborn, Kinds
    <3>2. c = cur /\ conn = cur
      BY <1>1, <2>9, <3>1 DEF ConnAll, ConnInv, OneSocket, RunHolds, Kinds
    <3>3. QED  BY <2>7, <3>2
  <2>10. QED  BY <2>8, <2>9
<1>2. ConnAll /\ [Next]_vars =>
        [\A c \in Conns : pump["read"][c] = "reject" /\ pump'["read"][c] # "reject" => link'[c] = "closed"]_vars
  BY <1>1
<1>3. Init => ConnAll
  BY InitConn DEF ConnAll
<1>4. QED  BY <1>2, <1>3, ConnStep, PTL DEF Spec, RejectedLinkCloses

-----------------------------------------------------------------------------
(* The mutex *)

Writing(k, c) == pump[k][c] = "writing"

(* The mutex is held exactly while one goroutine writes. *)
MutexInv ==
  /\ main = "auth" => connMu /\ \A k \in Kinds, c \in Conns : ~Writing(k, c)
  /\ \A k \in Kinds, c \in Conns : Writing(k, c) => connMu
  /\ \A j, k \in Kinds : \A c, d \in Conns : Writing(j, c) /\ Writing(k, d) => j = k /\ c = d
  /\ connMu => main = "auth" \/ \E k \in Kinds, c \in Conns : Writing(k, c)

(* Run or a pump acts without the mutex. *)
LEMMA MutexUntouched ==
  ASSUME MutexInv, connMu' = connMu, main' = "auth" <=> main = "auth",
         \A k \in Kinds, c \in Conns : pump'[k][c] = "writing" <=> pump[k][c] = "writing"
  PROVE  MutexInv'
BY DEF MutexInv, Writing

LEMMA MutexStep == ConnAll /\ MutexInv /\ [Next]_vars => MutexInv'
<1> SUFFICES ASSUME ConnAll, MutexInv, [Next]_vars PROVE MutexInv'
  OBVIOUS
<1>a. ConnTypes /\ RunHolds
  BY DEF ConnAll, ConnInv
<1>1. ASSUME NEW k \in Kinds, NEW c \in Conns, NEW from \in PumpStates \ {"writing"},
             NEW to \in PumpStates \ {"writing"}, Move(k, c, from, to), main' = main, connMu' = connMu
      PROVE  MutexInv'
  BY <1>1, <1>a, MovePump, MutexUntouched
<1>2. ASSUME UNCHANGED <<pump, connMu>>, main' = "auth" <=> main = "auth"
      PROVE  MutexInv'
  BY <1>2, MutexUntouched
<1>3. CASE LockAuth
  BY <1>3 DEF LockAuth, Lock, MutexInv, Writing
<1>4. CASE SendAuth
  <2>1. main = "auth" /\ main' = "serve" /\ connMu' = FALSE
    BY <1>4 DEF SendAuth, Unlock
  <2>2. cur \in Conns
    BY <1>a, <2>1 DEF RunHolds
  <2>3. /\ \A k \in Kinds : pump'[k][cur] \in {"read", "select"}
        /\ \A k \in Kinds, c \in Conns : c # cur => pump'[k][c] = pump[k][c]
    BY <1>4, <1>a, <2>2, StartPumps DEF SendAuth
  <2>4. \A k \in Kinds, c \in Conns : pump'[k][c] # "writing"
    BY <2>1, <2>3 DEF MutexInv, Writing
  <2>5. QED  BY <2>1, <2>4 DEF MutexInv, Writing
<1>5. CASE AuthFails
  BY <1>5 DEF AuthFails, Unlock, MutexInv, Writing
<1>6. CASE DialFails \/ DialSucceeds \/ Install \/ Cancel \/ Abandon \/ BackoffEnds
  BY <1>2, <1>6 DEF DialFails, DialSucceeds, Install, Cancel, Abandon, BackoffEnds, AfterError
<1>7. ASSUME NEW k \in Kinds, NEW c \in Conns, LockWrite(k, c)
      PROVE  MutexInv'
  <2>1. Move(k, c, "lock", "writing") /\ ~connMu /\ connMu' = TRUE /\ main' = main
    BY <1>7 DEF LockWrite, Lock, mainVars
  <2>2. /\ pump'[k][c] = "writing"
        /\ \A j \in Kinds, d \in Conns : j # k \/ d # c => pump'[j][d] = pump[j][d]
    BY <2>1, <1>a, MovePump DEF PumpStates
  <2>3. QED  BY <2>1, <2>2 DEF MutexInv, Writing
<1>8. ASSUME NEW k \in Kinds, NEW c \in Conns, NEW to \in {"select", "report"},
             Move(k, c, "writing", to), connMu' = FALSE, main' = main
      PROVE  MutexInv'
  <2>1. /\ pump[k][c] = "writing" /\ pump'[k][c] # "writing"
        /\ \A j \in Kinds, d \in Conns : j # k \/ d # c => pump'[j][d] = pump[j][d]
    BY <1>8, <1>a, MovePump DEF PumpStates
  <2>2. QED  BY <1>8, <2>1 DEF MutexInv, Writing
<1>9. ASSUME NEW c \in Conns, WriteResult(c) \/ WriteBeat(c)
      PROVE  MutexInv'
  BY <1>8, <1>9 DEF WriteResult, WriteBeat, Unlock, mainVars, Kinds
<1>10. ASSUME NEW c \in Conns, ReadRejection(c) \/ Close(c) \/ ReadFails(c) \/ TakeResult(c) \/ Tick(c)
       PROVE  MutexInv'
  BY <1>1, <1>10 DEF ReadRejection, Close, ReadFails, TakeResult, Tick, mainVars, Kinds, PumpStates
<1>11. ASSUME NEW k \in Kinds, NEW c \in Conns, Report(k, c) \/ Stop(k, c)
       PROVE  MutexInv'
  BY <1>1, <1>11 DEF Report, Stop, mainVars, PumpStates
<1>12. ASSUME NEW c \in Conns, Network(c)
       PROVE  MutexInv'
  BY <1>2, <1>12 DEF Network, Die, Break, Reject, mainVars
<1>13. ASSUME UNCHANGED vars \/ Shutdown \/ Send
       PROVE  MutexInv'
  BY <1>2, <1>13 DEF vars, Shutdown, Send, mainVars
<1>14. QED
  BY <1>3, <1>4, <1>5, <1>6, <1>7, <1>9, <1>10, <1>11, <1>12, <1>13
     DEF Next, Run, ReadPump, WritePump, HeartbeatLoop, Terminated, Kinds

(* writeJSON is a critical section of Run and of all pumps of all          *)
(* connections.                                                            *)
THEOREM OneWriterAtATime == Spec => []OneWriter
<1>1. ConnAll /\ MutexInv => OneWriter
  <2> SUFFICES ASSUME ConnAll, MutexInv PROVE OneWriter
    OBVIOUS
  <2> DEFINE W == {p \in Kinds \X Conns : pump[p[1]][p[2]] = "writing"}
             M == {<<"main", c>> : c \in IF main = "auth" THEN {cur} ELSE {}}
  <2>1. Writers = W \cup M
    BY DEF Writers
  <2>2. CASE ~connMu
    <3>1. W = {} /\ M = {}
      BY <2>2 DEF MutexInv, Writing
    <3>2. QED  BY <2>1, <2>2, <3>1, FS_EmptySet DEF OneWriter
  <2>3. CASE connMu
    <3>1. \E x : W \cup M = {x}
      <4>1. CASE main = "auth"
        <5>1. W = {} /\ M = {<<"main", cur>>}
          BY <4>1 DEF MutexInv, Writing
        <5>2. QED  BY <5>1
      <4>2. CASE main # "auth"
        <5>1. M = {}
          BY <4>2
        <5>2. PICK k \in Kinds, c \in Conns : Writing(k, c)
          BY <2>3, <4>2 DEF MutexInv
        <5>3. W = {<<k, c>>}
          BY <5>2 DEF MutexInv, Writing
        <5>4. QED  BY <5>1, <5>3
      <4>3. QED  BY <4>1, <4>2
    <3>2. QED  BY <2>1, <2>3, <3>1, FS_Singleton DEF OneWriter
  <2>4. QED  BY <2>2, <2>3
<1>2. Init => ConnAll /\ MutexInv
  <2>1. Init => MutexInv
    BY DEF Init, MutexInv, Writing
  <2>2. QED  BY <2>1, InitConn DEF ConnAll
<1>3. ConnAll /\ MutexInv /\ [Next]_vars => (ConnAll /\ MutexInv)'
  BY ConnStep, MutexStep
<1>4. QED  BY <1>1, <1>2, <1>3, PTL DEF Spec
=============================================================================
