---------------------------- MODULE SharedElements ----------------------------
(***************************************************************************)
(* What arrays promise a script that uses array.slice (the comment above   *)
(* the class in codegen/array_slice.py, and tests/test_array_slice_view).  *)
(*                                                                         *)
(* An array is a sequence of elements.  A slice is made of elements of its *)
(* source: a write through either is seen through both.  An operation that *)
(* changes the length of an array gives that array elements of its own and *)
(* leaves every other array alone.  A rollback brings back which elements  *)
(* the rolled-back arrays are made of, and the values of those elements.   *)
(***************************************************************************)
EXTENDS SequencesExt

CONSTANTS
    Arrays,
    Kept,   \* varip arrays: not rolled back
    Val

Rolled == Arrays \ Kept

VARIABLES
    view,   \* [Arrays -> the sequence of the array's elements]
    value,  \* [elements -> Val]
    saved,  \* the checkpoint: NoCheckpoint, or views and values
    torn    \* a rollback threw and has not been retried

vars == <<view, value, saved, torn>>

NoCheckpoint == [taken |-> FALSE]

Contents(a) == [i \in DOMAIN view[a] |-> value[view[a][i]]]

ElementsOf(arrays) == UNION {Range(view[a]) : a \in arrays}
SavedElements == UNION {Range(saved.view[a]) : a \in DOMAIN saved.view}

Keeps(elements) == \A e \in elements : value'[e] = value[e]

Init ==
    /\ view = [a \in Arrays |-> <<>>]
    /\ saved = NoCheckpoint
    /\ torn = FALSE

-------------------------------------------------------------------------------
(* What array.new, copy, assignment, and the operations that change the length
   of a can make of it. *)
Renewals(a) ==
    LET old == Contents(a) IN
    {<<>>}
        \cup {Contents(b) : b \in Arrays}
        \cup {old \o Contents(b) : b \in Arrays}
        \cup {InsertAt(old, i, v) : i \in 1..Len(old) + 1, v \in Val}
        \cup {RemoveAt(old, i) : i \in DOMAIN old}

(* Array a is made of elements that nothing else refers to. *)
Renew(a) ==
    LET others == Arrays \ {a} IN
    /\ \A b \in others : view'[b] = view[b]
    /\ Range(view'[a]) \cap ElementsOf(others) = {}
    /\ saved.taken => Range(view'[a]) \cap SavedElements = {}
    /\ IsInjective(view'[a])
    /\ Keeps(ElementsOf(others))
    /\ Contents(a)' \in Renewals(a)

(* b becomes a part of a. *)
Slice(b, a, from, to) ==
    /\ view' = [view EXCEPT ![b] = SubSeq(view[a], from + 1, to)]
    /\ Keeps(UNION {Range(view'[x]) : x \in Arrays})

(* What set and fill, and reverse and sort, can make of a. *)
Rewritings(a) ==
    LET old == Contents(a) IN
    {[old EXCEPT ![i] = v] : i \in DOMAIN old, v \in Val}
        \cup {[i \in DOMAIN old |-> IF i \in from..to THEN v ELSE old[i]] :
                 from \in DOMAIN old, to \in DOMAIN old, v \in Val}
        \cup {[i \in DOMAIN old |-> old[p[i]]] : p \in Bijection(DOMAIN old, DOMAIN old)}

(* The elements of a are written: whoever else is made of them sees it. *)
Write(a) ==
    /\ view' = view
    /\ Keeps(ElementsOf(Arrays) \ Range(view[a]))
    /\ Contents(a)' \in Rewritings(a)

Run ==
    /\ ~torn
    /\ UNCHANGED <<saved, torn>>
    /\ \E a \in Arrays :
        \/ Write(a)
        \/ Renew(a)
        \/ \E b \in Arrays : \E to \in 0..Len(view[a]) : \E from \in 0..to : Slice(b, a, from, to)

Take ==
    /\ ~torn
    /\ UNCHANGED <<view, torn>>
    /\ saved'.taken
    /\ saved'.view = [a \in Rolled |-> view[a]]
    /\ \A e \in ElementsOf(Rolled) : saved'.value[e] = value[e]
    /\ Keeps(ElementsOf(Arrays))

Restore ==
    /\ saved.taken
    /\ torn' = FALSE
    /\ UNCHANGED saved
    /\ \A a \in Rolled : view'[a] = saved.view[a]
    /\ \A e \in SavedElements : value'[e] = saved.value[e]
    /\ ~torn =>
        /\ \A a \in Kept : view'[a] = view[a]
        /\ Keeps(ElementsOf(Kept) \ DOMAIN saved.value)

(* Nothing is promised until the rollback is retried or a new run begins, but of
   the varip arrays that share nothing with the checkpoint. *)
RestoreThrows ==
    /\ saved.taken
    /\ torn' = TRUE
    /\ UNCHANGED saved
    /\ \A a \in Kept :
        ~torn /\ Range(view[a]) \cap DOMAIN saved.value = {} =>
            view'[a] = view[a] /\ Keeps(Range(view[a]))

PrepareRun ==
    /\ view' = [a \in Arrays |-> <<>>]
    /\ saved' = NoCheckpoint
    /\ torn' = FALSE

Next == Run \/ Take \/ Restore \/ RestoreThrows \/ PrepareRun

Spec == Init /\ [][Next]_vars
===============================================================================
