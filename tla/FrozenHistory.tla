----------------------------- MODULE FrozenHistory -----------------------------
(***************************************************************************)
(* The history of `var` arrays as the script reads it (`a[1]`): every      *)
(* execution of the bar opens a slot and leaves in it a frozen copy of the *)
(* array.  This is _PFCollectionHistory of collection_history.py, which    *)
(* copies the array every time a slot is closed; CachedHistory implements  *)
(* it with fewer copies.                                                   *)
(***************************************************************************)
EXTENDS Naturals, Sequences

CONSTANTS
    Arrays,     \* the `var` arrays whose history is read
    Contents,   \* what an array can hold
    Empty,      \* the contents of a reset array
    Unset,      \* the null pointer of a slot that is still open
    Capacity    \* max_len: slots a history keeps

VARIABLES
    value,      \* the live arrays
    hist,       \* their histories: slots_ (newest first) and open_
    saved,      \* the checkpoint of both
    torn        \* a restore threw and has not been retried

vars == <<value, hist, saved, torn>>

NoCheckpoint == [taken |-> FALSE]
NewHistory == [slots |-> <<>>, open |-> FALSE]

(* Series::push and Series::update. *)
PushSlot(s, x) == SubSeq(<<x>> \o s, 1, IF Len(s) < Capacity THEN Len(s) + 1 ELSE Capacity)
UpdateSlot(s, x) == <<x>> \o Tail(s)

(* close(): an open slot keeps a copy of the array. *)
Closed(h, c) ==
    IF h.open THEN [h EXCEPT !.slots = UpdateSlot(@, c), !.open = FALSE] ELSE h

(* open_slot() of a history just closed: a new bar's slot, or the bar's own
   again; the first execution of a run always starts a bar. *)
Opened(h, new) ==
    [h EXCEPT !.slots = IF new \/ @ = <<>> THEN PushSlot(@, Unset) ELSE UpdateSlot(@, Unset),
              !.open = TRUE]

Init ==
    /\ value = [a \in Arrays |-> Empty]
    /\ hist = [a \in Arrays |-> NewHistory]
    /\ saved = NoCheckpoint
    /\ torn = FALSE

Mutate(a, c) ==
    /\ ~torn
    /\ value' = [value EXCEPT ![a] = c]
    /\ UNCHANGED <<hist, saved, torn>>

OpenSlot(a, new) ==
    /\ ~torn
    /\ hist' = [hist EXCEPT ![a] = Opened(Closed(@, value[a]), new)]
    /\ UNCHANGED <<value, saved, torn>>

Close(a) ==
    /\ ~torn
    /\ hist' = [hist EXCEPT ![a] = Closed(@, value[a])]
    /\ UNCHANGED <<value, saved, torn>>

Snapshot ==
    /\ ~torn
    /\ saved' = [taken |-> TRUE, value |-> value, hist |-> hist]
    /\ UNCHANGED <<value, hist, torn>>

Restore ==
    /\ saved.taken
    /\ value' = saved.value
    /\ hist' = saved.hist
    /\ torn' = FALSE
    /\ UNCHANGED saved

(* A restore that threw assigned some arrays and some histories only. *)
RestoreThrows(V, H) ==
    /\ saved.taken
    /\ value' = [a \in Arrays |-> IF a \in V THEN saved.value[a] ELSE value[a]]
    /\ hist' = [a \in Arrays |-> IF a \in H THEN saved.hist[a] ELSE hist[a]]
    /\ torn' = TRUE
    /\ UNCHANGED saved

PrepareRun ==
    /\ value' = [a \in Arrays |-> Empty]
    /\ hist' = [a \in Arrays |-> NewHistory]
    /\ saved' = NoCheckpoint
    /\ torn' = FALSE

Next ==
    \/ \E a \in Arrays :
         \/ \E c \in Contents : Mutate(a, c)
         \/ \E new \in BOOLEAN : OpenSlot(a, new)
         \/ Close(a)
    \/ Snapshot \/ Restore \/ PrepareRun
    \/ \E V, H \in SUBSET Arrays : RestoreThrows(V, H)

Spec == Init /\ [][Next]_vars
===============================================================================
