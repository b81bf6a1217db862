------------------------------ MODULE MCJobRun ------------------------------
(* Instances of JobRun for TLC.                                            *)
EXTENDS JobRun

(* The values of the options are on both sides of every check and default; *)
(* a count of 60 overflows MaxInt64.                                       *)
OptionJobs ==
  [type : {"ping", "traceroute", "dns", "http", "tls", "ntp"},
   target : {"plain", "bad"},
   timeout_ms : {None, 0, 1, 4, 61},
   timeout : {None, 1},
   count : {None, 1, 3, 21, 60},
   deadline : {None, -1, 3, 30},
   jobTimeoutNanos : {60, -5}]

(* A lookup that its timeout or its budget cuts off in the system's        *)
(* resolver or at any of the four queries, and one that has time for all.  *)
LookupJobs ==
  [type : {"ping", "traceroute", "tls", "ntp"},
   target : {"name", "dn42"},
   timeout_ms : {None, 3, 28},
   timeout : {None},
   count : {None},
   deadline : {None, 9, 60},
   jobTimeoutNanos : {60}]

(* A dns resolver given by name: timeouts the budget cuts off at each      *)
(* step, and one that it leaves all four of (4 * 3 < 60).   *)
ResolverJobs ==
  [type : {"dns"}, target : {"name"}, timeout_ms : {1, 3, 28}, timeout : {None},
   count : {None}, deadline : {None, 9, 60}, jobTimeoutNanos : {60}]

MCJobs == OptionJobs \cup LookupJobs \cup ResolverJobs

(* One ping with time for each of its probes and no name to look up. *)
PingJobs ==
  {[type |-> "ping", target |-> "plain", timeout_ms |-> 2, timeout |-> None,
    count |-> None, deadline |-> None, jobTimeoutNanos |-> 60]}

(* The packets of the ntp runner, with a second of 5 "nanoseconds", a      *)
(* fraction of 8 steps and an era of 8 seconds: every exchange of the last *)
(* seconds of era 0, and the first of era 1.                               *)
Ntp == INSTANCE NtpTime WITH Nanos <- 5, Fracs <- 8, Era <- 8, EpochOffset <- 2

Era0(t) == Ntp!InEra(t, 0)

ASSUME NtpMeasures ==
  /\ Ntp!Units
  /\ \A t1 \in -10..29, theta \in -7..7, out, back \in 0..3, work \in 0..2 :
       Era0(t1) /\ Era0(t1 + out + theta) /\ Era0(t1 + out + theta + work) =>
         Ntp!GoodMeasurement(t1, theta, out, work, back)
  /\ \A t1 \in 30..40 : Ntp!RolledOver(t1, 0, 1, 0, 1)
=============================================================================
