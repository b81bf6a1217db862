----------------------------- MODULE JobService -----------------------------
(***************************************************************************)
(* What the handler promises the center about a job, without goroutines,   *)
(* channels or counters: a job is refused at once or admitted, an admitted *)
(* job is started at most once and then settled, and no more than Capacity *)
(* jobs are run at a time.                                                 *)
(***************************************************************************)
EXTENDS Naturals, FiniteSets

CONSTANTS
  Jobs,
  Silent,     \* the jobs that are discarded without an answer
  Capacity

VARIABLE status

Statuses == {"offered", "refused", "pending", "running", "answered", "discarded"}

In(s) == {j \in Jobs : status[j] = s}

Init == status = [j \in Jobs |-> "offered"]

Move(j, from, to) == status[j] = from /\ status' = [status EXCEPT ![j] = to]

Refuse(j) == Move(j, "offered", "refused")

Admit(j) == Move(j, "offered", "pending")

Start(j) == Cardinality(In("running")) < Capacity /\ Move(j, "pending", "running")

Settle(j) == Move(j, "running", IF j \in Silent THEN "discarded" ELSE "answered")

Next == \E j \in Jobs : Refuse(j) \/ Admit(j) \/ Start(j) \/ Settle(j)

Spec == Init /\ [][Next]_status

(* No admitted job stays in the service for ever. *)
EveryJobSettles ==
  \A j \in Jobs : (status[j] = "pending") ~> (status[j] \in {"answered", "discarded"})
=============================================================================
