---------------------------- MODULE MCGraphJournal ----------------------------
(* Instances of GraphJournal for TLC. *)
EXTENDS GraphJournal

MCVal == 0..1
===============================================================================
