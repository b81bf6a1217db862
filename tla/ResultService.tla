---------------------------- MODULE ResultService ----------------------------
(***************************************************************************)
(* What the client promises about the results passed to Send, without      *)
(* connections, pumps or locks: a queue with one server.  A result is      *)
(* queued or lost at once, the server takes the oldest, and what it has in *)
(* hand is delivered or lost.  So results are delivered in the order they  *)
(* were queued in, each at most once, and none is in two places.           *)
(***************************************************************************)
EXTENDS Naturals, Sequences

CONSTANTS Results, Capacity, None

VARIABLES
  queue,
  hand,        \* the result that is being written
  delivered,   \* in the order of delivery
  lost

resultVars == <<queue, hand, delivered, lost>>

Elements(seq) == {seq[i] : i \in DOMAIN seq}

Known == Elements(queue) \cup {hand} \cup Elements(delivered) \cup lost

Init ==
  /\ queue = <<>>
  /\ hand = None
  /\ delivered = <<>>
  /\ lost = {}

Put(r) ==
  /\ r \notin Known
  /\ \/ /\ Len(queue) < Capacity
        /\ queue' = Append(queue, r)
        /\ UNCHANGED lost
     \/ /\ Len(queue) >= Capacity
        /\ lost' = lost \cup {r}
        /\ UNCHANGED queue
  /\ UNCHANGED <<hand, delivered>>

Take ==
  /\ hand = None
  /\ queue # <<>>
  /\ hand' = Head(queue)
  /\ queue' = Tail(queue)
  /\ UNCHANGED <<delivered, lost>>

(* Taken by a server whose connection is gone. *)
Waste ==
  /\ queue # <<>>
  /\ queue' = Tail(queue)
  /\ lost' = lost \cup {Head(queue)}
  /\ UNCHANGED <<hand, delivered>>

Deliver ==
  /\ hand # None
  /\ delivered' = Append(delivered, hand)
  /\ hand' = None
  /\ UNCHANGED <<queue, lost>>

Lose ==
  /\ hand # None
  /\ lost' = lost \cup {hand}
  /\ hand' = None
  /\ UNCHANGED <<queue, delivered>>

Next == (\E r \in Results : Put(r)) \/ Take \/ Waste \/ Deliver \/ Lose

Spec == Init /\ [][Next]_resultVars
=============================================================================
