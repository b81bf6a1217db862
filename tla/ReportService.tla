---------------------------- MODULE ReportService ----------------------------
(***************************************************************************)
(* What the agent promises the center while its process lives: JobService  *)
(* and ResultService, joined.  The answer to a job, be it a refusal or a   *)
(* measurement, enters the queue in the step that settles the job, once,   *)
(* and from then on nothing but a full queue or a lost connection keeps    *)
(* it from the center.                                                     *)
(***************************************************************************)
CONSTANTS
  Jobs,
  Silent,      \* the jobs that are not answered
  Capacity,    \* how many jobs are run at a time
  SendCap,     \* of the queue
  None

VARIABLES status, queue, hand, delivered, lost

Service == INSTANCE JobService
Results == INSTANCE ResultService WITH Results <- Jobs, Capacity <- SendCap

resultVars == <<queue, hand, delivered, lost>>
vars == <<status, queue, hand, delivered, lost>>

Init == Service!Init /\ Results!Init

Refuse(j) == Service!Refuse(j) /\ Results!Put(j)

Settle(j) ==
  /\ Service!Settle(j)
  /\ IF j \in Silent THEN UNCHANGED resultVars ELSE Results!Put(j)

Proceed(j) == (Service!Admit(j) \/ Service!Start(j)) /\ UNCHANGED resultVars

Report ==
  /\ Results!Take \/ Results!Waste \/ Results!Deliver \/ Results!Lose
  /\ UNCHANGED status

Next == Report \/ \E j \in Jobs : Refuse(j) \/ Settle(j) \/ Proceed(j)

Spec == Init /\ [][Next]_vars
=============================================================================
