--------------------------- MODULE DrawingLifetime ---------------------------
(***************************************************************************)
(* How long a line, box or label lives (codegen/drawing.py): the arena of  *)
(* one kind never evicts; a new drawing passes through the collector, which *)
(* deletes the oldest ones no pinning variable holds.  Arena and variables *)
(* are script state, except varip variables, which no rollback touches.    *)
(*                                                                         *)
(* A drawing is its number among all that were ever made; what the code    *)
(* stores and compares is its id.  The arena's counter is part of the      *)
(* arena, so a rollback lets ids be issued a second time.                  *)
(***************************************************************************)
EXTENDS FiniteSets, Sequences, Integers

CONSTANTS
    Pinning,        \* var, varip and history-read variables
    Varip,          \* those of them that are varip
    Plain,          \* other holders: array elements, fields, locals, plain variables
    Keep,           \* max_<kind>_count
    Slack,          \* DRAWING_COLLECTION_SLACK
    MaxDrawings     \* bound of the model: drawings ever made in a run

ASSUME HoldersAreDistinct ==
    /\ IsFiniteSet(Pinning) /\ Varip \subseteq Pinning
    /\ Pinning \cap Plain = {}

ASSUME CountsArePositive == Keep \in Nat \ {0} /\ Slack \in Nat \ {0}

Holders == Pinning \cup Plain

Na == 0

VARIABLES
    issued,     \* history: the id each drawing was given
    undone,     \* history: the drawings a rollback has undone
    live,       \* the arena: its drawings, order() being from the oldest on
    next,       \*   and its next id
    handle,     \* what each holder holds
    checkpoint  \* arena and variables in the script's checkpoint

vars == <<issued, undone, live, next, handle, checkpoint>>

Id(d) == IF d = Na THEN 0 ELSE issued[d]

Alive(d) == \E e \in live : Id(e) = Id(d)

NoCheckpoint == [taken |-> FALSE]

Init ==
    /\ issued = <<>> /\ undone = {}
    /\ live = {} /\ next = 1
    /\ handle = [h \in Holders |-> Na]
    /\ checkpoint = NoCheckpoint

-------------------------------------------------------------------------------
(* A bug: varip variables are not among the declarations that pin. *)
PinnedIdsOfVar == {Id(handle[h]) : h \in Pinning \ Varip}

(* The ids of _pf_held, besides the new drawing's. *)
PinnedIds == {Id(handle[h]) : h \in Pinning}

Collectable == {d \in live : Id(d) \notin PinnedIds}

Excess(count) == count - Keep

(* A bug: the collector expects to see every count. *)
TriggersAt(count) == count = Keep + Slack

Triggers(count) == count >= Keep + Slack

(* The first ones of order() that are not pinned, when there are count. *)
Doomed(count) ==
    IF Triggers(count)
    THEN {d \in Collectable : Cardinality({e \in Collectable : e < d}) < Excess(count)}
    ELSE {}

(* line.new, and a copy: the variable that receives it still pins what it held. *)
New(h) ==
    /\ Len(issued) < MaxDrawings
    /\ issued' = Append(issued, next)
    /\ next' = next + 1
    /\ LET new == Len(issued) + 1
       IN /\ live' = (live \cup {new}) \ Doomed(Cardinality(live) + 1)
          /\ handle' = [handle EXCEPT ![h] = new]
    /\ UNCHANGED <<undone, checkpoint>>

(* A copy of what is not alive: no new drawing, but the collector is called.  (If
   the engine made one after all, this would be a New.) *)
CopyNothing(h) ==
    /\ \E g \in Holders : ~Alive(handle[g])
    /\ live' = live \ Doomed(Cardinality(live))
    /\ handle' = [handle EXCEPT ![h] = Na]
    /\ UNCHANGED <<issued, undone, next, checkpoint>>

(* A bug: deleting the newest drawing lets its id be issued again. *)
DeleteFreesId ==
    /\ \E d \in live :
        /\ live' = live \ {d}
        /\ next' = IF Id(d) = next - 1 THEN Id(d) ELSE next
    /\ UNCHANGED <<issued, undone, handle, checkpoint>>

(* By a handle, of a variable or of a copy of line.all. *)
Delete ==
    /\ \E d \in live : live' = live \ {d}
    /\ UNCHANGED <<issued, undone, next, handle, checkpoint>>

(* An assignment from another holder, of na, or from line.all. *)
Assign(h) ==
    /\ \E d \in {handle[g] : g \in Holders} \cup {Na} \cup live : handle' = [handle EXCEPT ![h] = d]
    /\ UNCHANGED <<issued, undone, live, next, checkpoint>>

-------------------------------------------------------------------------------
Snapshot ==
    /\ checkpoint' = [taken |-> TRUE, live |-> live, next |-> next, handle |-> handle, made |-> Len(issued)]
    /\ UNCHANGED <<issued, undone, live, next, handle>>

(* A bug: plain variables are not in the checkpoint. *)
RestorePinningOnly ==
    /\ checkpoint.taken
    /\ undone' = undone \cup (checkpoint.made + 1)..Len(issued)
    /\ live' = checkpoint.live /\ next' = checkpoint.next
    /\ handle' = [h \in Holders |-> IF h \in Varip \cup Plain THEN handle[h] ELSE checkpoint.handle[h]]
    /\ UNCHANGED <<issued, checkpoint>>

Restore ==
    /\ checkpoint.taken
    /\ undone' = undone \cup (checkpoint.made + 1)..Len(issued)
    /\ live' = checkpoint.live /\ next' = checkpoint.next
    /\ handle' = [h \in Holders |-> IF h \in Varip THEN handle[h] ELSE checkpoint.handle[h]]
    /\ UNCHANGED <<issued, checkpoint>>

(* A bug: variables live through a new run. *)
PrepareRunKeepsHandles ==
    /\ issued' = <<>> /\ undone' = {}
    /\ live' = {} /\ next' = 1
    /\ checkpoint' = NoCheckpoint
    /\ UNCHANGED handle

PrepareRun ==
    /\ issued' = <<>> /\ undone' = {}
    /\ live' = {} /\ next' = 1
    /\ handle' = [h \in Holders |-> Na]
    /\ checkpoint' = NoCheckpoint

Next ==
    \/ \E h \in Holders : New(h) \/ CopyNothing(h) \/ Assign(h)
    \/ Delete \/ Snapshot \/ Restore \/ PrepareRun

Spec == Init /\ [][Next]_vars

-------------------------------------------------------------------------------
Made == 1..Len(issued)

Checkpoint ==
    [taken: {TRUE}, live: SUBSET Made, next: Nat \ {0}, handle: [Holders -> Made \cup {Na}], made: 0..Len(issued)]

TypeOK ==
    /\ issued \in Seq(Nat) /\ next \in Nat \ {0}
    /\ undone \subseteq Made
    /\ live \subseteq Made \ undone
    /\ handle \in [Holders -> Made \cup {Na}]
    /\ checkpoint \in Checkpoint \cup {NoCheckpoint}

(* However many pinning variables there are, and whatever was released,
   deleted, copied and rolled back, a kind never has more drawings than its
   declared count and slack allow, or than there are pinning variables and the
   newest one: the unbounded arena stays bounded. *)
Limit == IF Keep + Slack - 1 < Cardinality(Pinning) + 1 THEN Cardinality(Pinning) + 1 ELSE Keep + Slack - 1

LiveCountBounded == Cardinality(live) <= Limit

(* A handle whose drawing no rollback has undone names that drawing or reads
   na: an id issued a second time never gives it another one. *)
HandlesNameTheirDrawing ==
    \A h \in Holders : handle[h] \notin undone /\ Alive(handle[h]) => handle[h] \in live

(* A rollback undoes drawings and the variables that hold them together: only
   a varip variable is left with a handle of a drawing it has just undone. *)
RollbackIsWhole ==
    [][Restore => \A h \in Holders \ Varip : handle'[h] \in undone' => handle'[h] \in undone]_vars

(* What a new drawing or a copy deletes is held by no pinning variable, and
   no older drawing outlives it unless one does hold that. *)
CollectsOldestUnheld ==
    [][(\E h \in Holders : New(h) \/ CopyNothing(h)) =>
        \A d \in live \ live' :
            \A h \in Pinning :
                /\ handle[h] # d
                /\ \A e \in live' : e < d => \E g \in Pinning : Id(handle[g]) = Id(e)]_vars
===============================================================================
