---------------------------- MODULE MCPipelines ----------------------------
(* Instances of Pipelines for TLC.                                         *)
EXTENDS Pipelines
=============================================================================
