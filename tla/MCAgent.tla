------------------------------ MODULE MCAgent ------------------------------
(* Instances of Agent for TLC: its parameters are values in each .cfg.     *)
EXTENDS Agent
=============================================================================
