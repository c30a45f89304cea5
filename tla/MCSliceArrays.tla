---------------------------- MODULE MCSliceArrays ----------------------------
(* Instances of SliceArrays for TLC. *)
EXTENDS SliceArrays

(* Nothing tells storages apart but what refers to them, and no operation looks
   at a value. *)
Symmetry == Permutations(Storages) \cup Permutations(Val)
===============================================================================
