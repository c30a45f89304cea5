------------------------------ MODULE ArrayEdits ------------------------------
(***************************************************************************)
(* The contents of one journaled array (a std::vector of a primitive       *)
(* element type) and the inverse edits that the undo records of the        *)
(* generated _PFArrayJournal hold (codegen/base.py, ARRAY_JOURNAL_CPP).    *)
(* Positions are 1-based here and 0-based in the C++.                      *)
(***************************************************************************)
EXTENDS Integers, SequencesExt

CONSTANTS
    Val,        \* the values an array element can hold
    Default     \* T{}: what std::vector::resize pads with

ASSUME DefaultIsVal == Default \in Val

(* std::vector::resize(n): truncate, or pad with value-initialised elements. *)
Resize(s, n) == [i \in 1..n |-> IF i <= Len(s) THEN s[i] ELSE Default]

(***************************************************************************)
(* The closures Entry::undo can hold, by the method that built them.       *)
(***************************************************************************)
SetBack(i, old)  == [kind |-> "set",      at |-> i, old |-> <<old>>]
Reinsert(i, old) == [kind |-> "reinsert", at |-> i, old |-> <<old>>]
SwapBack(old)    == [kind |-> "swap",     at |-> 0, old |-> old]
ShrinkTo(n)      == [kind |-> "resize",   at |-> n, old |-> <<>>]
Erase(i)         == [kind |-> "erase",    at |-> i, old |-> <<>>]

Undo == [kind : {"set", "reinsert", "swap", "resize", "erase"},
         at : Nat, old : Seq(Val)]

(* What running the closure u makes of the array s. *)
Apply(u, s) ==
    IF u.kind = "set" THEN ReplaceAt(s, u.at, u.old[1])
    ELSE IF u.kind = "reinsert" THEN InsertAt(s, u.at, u.old[1])
    ELSE IF u.kind = "swap" THEN u.old
    ELSE IF u.kind = "resize" THEN Resize(s, u.at)
    ELSE RemoveAt(s, u.at)

(***************************************************************************)
(* Whether running u can throw: assigning a string and inserting an        *)
(* element copy or allocate; swap, a shrinking resize and erase do not.    *)
(***************************************************************************)
MayThrow(u, isString) ==
    \/ u.kind = "reinsert"
    \/ u.kind = "set" /\ isString
===============================================================================
