---------------------------- MODULE MCScriptState ----------------------------
(* Instances of ScriptState for TLC. *)
EXTENDS ScriptState

MCVal == 0..1
===============================================================================
