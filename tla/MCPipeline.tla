------------------------------ MODULE MCPipeline ------------------------------
(* Instances of Pipeline for TLC. *)
EXTENDS Pipeline

(* One name. *)
MCName == <<"k", "k", "k">>
===============================================================================
