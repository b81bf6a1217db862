---------------------------- MODULE MCJobPipeline ----------------------------
(* Instances of JobPipeline for TLC: its parameters are in the .cfg.       *)
EXTENDS JobPipeline
=============================================================================
