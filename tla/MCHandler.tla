----------------------------- MODULE MCHandler -----------------------------
(* Instances of Handler for TLC. *)
EXTENDS Handler, TLC

Limits(c, q, t) == [max_concurrency |-> c, queue_size |-> q, job_timeout_seconds |-> t]

(* One policy above the cap on concurrency, with a timeout that overflows; *)
(* one above the cap on the queue that sets nothing else.                  *)
MCPolicies == {Limits(9, 1, 7), Limits(0, 9, 0)}

MCNoPolicy == {}

(* Neither FairSpec nor a property names a reader. *)
MCSymmetry == Permutations(Readers)
=============================================================================
