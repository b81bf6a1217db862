------------------------------ MODULE MCClient ------------------------------
(* Instances of Client for TLC: its parameters are numbers in each .cfg.   *)
EXTENDS Client
=============================================================================
