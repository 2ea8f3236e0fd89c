---------------------------- MODULE MCPipelineConfig ----------------------------
(* A small instance of PipelineConfig for TLC: two Notebooks, so that their     *)
(* admissions and a reconcile are three writers at a time.                      *)
EXTENDS PipelineConfig
================================================================================
