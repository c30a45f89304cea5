----------------------------- MODULE GraphJournal -----------------------------
(***************************************************************************)
(* The rollback of `var` maps and matrices in a strategy that runs with    *)
(* calc_on_order_fills (codegen/graph_journal.py).  Their members (roots)  *)
(* are handles to an object on the heap that holds the payload and that no *)
(* other handle shares; a record's undo edits the object it was made for.  *)
(* The records go into the same coordinator as those of journaled arrays.  *)
(*                                                                         *)
(* Small edits leave a delta.  An edit no delta can undo, or one delta     *)
(* more than the payload has elements, leaves a copy of the payload, which *)
(* latches the root: its later edits need no record at all.  Whether a     *)
(* root is latched is kept beside the records, in handle_states_.          *)
(*                                                                         *)
(* The hooks are those of ScriptState, without the other members.          *)
(***************************************************************************)
EXTENDS GraphEdits, FiniteSets

CONSTANTS
    MapRoots,
    GenericRoots,   \* matrices the engine keeps as vectors of rows
    NumericRoots,   \* matrices of float (PineMatrix)
    AddRowMayTear,  \* an add_row before the end that throws may have inserted
    MaxGeneration,  \* std::numeric_limits<uint64_t>::max()
    MaxRecords      \* bound of the model: undo records held at once

ASSUME RootsAreDisjoint ==
    /\ MapRoots \cap (GenericRoots \cup NumericRoots) = {}
    /\ GenericRoots \cap NumericRoots = {}
ASSUME AddRowMayTearIsBoolean == AddRowMayTear \in BOOLEAN
ASSUME LimitsAreNat == MaxGeneration \in Nat /\ MaxRecords \in Nat

MatrixRoots == GenericRoots \cup NumericRoots
Roots == MapRoots \cup MatrixRoots

VARIABLES
    handle,     \* [Roots -> the payload of the root's object, or Na]
    object,     \* [Roots -> the object]: how many constructors since the checkpoint
    entries,    \* entries_: the undo records, oldest first
    generation, \* generation_
    active,     \* active_
    replaying,  \* replaying_
    states,     \* handle_states_
    checkpoint, \* _pf_script_state_checkpoint_
    hook,       \* whether restore_script_state is on the stack: "none", "undo"
    outcome,    \* how the last hook ended: "ok", "threw"
    (* History variables: no guard reads them. *)
    base,       \* the handles at the last begin()
    found       \* for each record, its root's object and payload at the time

journal == <<entries, generation, active, replaying, states>>
history == <<base, found>>
control == <<checkpoint, hook, outcome>>
roots == <<handle, object>>
vars == <<handle, object, entries, generation, active, replaying, states,
          checkpoint, hook, outcome, base, found>>

NoCheckpoint == [taken |-> FALSE]
Unbound == [r \in Roots |-> Na]
NewState(g) == [generation |-> g, saved |-> 0, deltas |-> 0]

Init ==
    /\ handle = Unbound
    /\ object = [r \in Roots |-> 0]
    /\ entries = <<>>
    /\ generation = 0
    /\ active = FALSE
    /\ replaying = FALSE
    /\ states = [r \in Roots |-> NewState(0)]
    /\ checkpoint = NoCheckpoint
    /\ hook = "none"
    /\ outcome = "ok"
    /\ base = Unbound
    /\ found = <<>>

-------------------------------------------------------------------------------
(* Records.                                                                  *)

Recording == active /\ ~replaying

(* handle_state(): a state of an earlier generation counts as a new one. *)
StateOf(r) == IF states[r].generation = generation THEN states[r] ELSE NewState(generation)

(* handle_saved(): the root is latched. *)
Saved(r) == states[r].saved = generation

Held(r) == [object |-> object[r], data |-> handle[r]]

Elements(r) == IF r \in MapRoots THEN Len(handle[r]) ELSE Len(handle[r]) * Columns(handle[r])

(* A bug: one delta too many. *)
OverspentByOne(r) == StateOf(r).deltas > Elements(r)

(* record_handle_delta(): the next delta would exceed the payload's size. *)
BudgetSpent(r) == StateOf(r).deltas >= Elements(r)

(* append_handle(), with what becomes of the root's state. *)
AppendHandle(r, undo, committed, s) ==
    /\ Len(entries) < MaxRecords
    /\ entries' = Append(entries, [owner |-> r, generation |-> generation, object |-> object[r],
                                   committed |-> committed, undo |-> undo])
    /\ found' = Append(found, Held(r))
    /\ states' = [states EXCEPT ![r] = s]

NoRecord == UNCHANGED <<entries, found, states>>

(* save_handle(): the whole payload, once per checkpoint. *)
SaveHandle(r) ==
    IF Recording /\ ~Saved(r)
    THEN AppendHandle(r, Preimage(handle[r]), TRUE, [StateOf(r) EXCEPT !.saved = generation])
    ELSE NoRecord

(* A bug: a committed delta is not counted. *)
RecordDeltaUncounted(r, undo, committed) ==
    IF Recording /\ ~Saved(r) /\ ~BudgetSpent(r)
    THEN AppendHandle(r, undo, committed, StateOf(r))
    ELSE SaveHandle(r)

(* A delta if the root is not latched and its budget allows one.  A delta that
   is not committed does not count against the budget. *)
RecordDelta(r, undo, committed) ==
    IF Recording /\ ~Saved(r) /\ ~BudgetSpent(r)
    THEN AppendHandle(r, undo, committed, [StateOf(r) EXCEPT !.deltas = IF committed THEN @ + 1 ELSE @])
    ELSE SaveHandle(r)

Becomes(r, c) ==
    /\ handle' = [handle EXCEPT ![r] = c]
    /\ UNCHANGED <<object, generation, active, replaying, base>>
    /\ UNCHANGED control

Bound(r) == handle[r] # Na

(* prepare(): a root is declared with a constructor.  (One declared with na stays
   na, as no assignment may name it.) *)
Fresh(r) == IF r \in MapRoots THEN {<<>>} ELSE {c \in BoundedMatrices : Constant(c)}

(* The object of a constructor.  Records refer only to objects since the
   checkpoint, so that is how far they are told apart. *)
NewObject(r) == IF active THEN object[r] + 1 ELSE 0

(* A bug: a latched root is taken to need no record of its handle either. *)
ReplaceUnlessLatched(r, c) ==
    /\ IF Recording /\ ~Saved(r) THEN AppendHandle(r, Rebind(handle[r]), TRUE, states[r]) ELSE NoRecord
    /\ handle' = [handle EXCEPT ![r] = c]
    /\ object' = [object EXCEPT ![r] = NewObject(r)]
    /\ UNCHANGED <<generation, active, replaying, base>>
    /\ UNCHANGED control

(* replace(): a declaration's initialiser binds an object, or binds another when
   it runs again because a later one threw.  It leaves the root's state. *)
Replace(r, c) ==
    /\ IF Recording THEN AppendHandle(r, Rebind(handle[r]), TRUE, states[r]) ELSE NoRecord
    /\ handle' = [handle EXCEPT ![r] = c]
    /\ object' = [object EXCEPT ![r] = NewObject(r)]
    /\ UNCHANGED <<generation, active, replaying, base>>
    /\ UNCHANGED control

(* An edit that its undo record precedes and counts with. *)
EarlyDelta(r, undo, c) == RecordDelta(r, undo, TRUE) /\ Becomes(r, c)

(* An edit whose delta counts once it has returned; a numeric matrix, and an
   edit no delta can undo, save the payload. *)
LateDelta(r, small, undo, c) ==
    /\ IF r \in GenericRoots /\ small THEN RecordDelta(r, undo, TRUE) ELSE SaveHandle(r)
    /\ Becomes(r, c)

(* An edit that saves the payload first.  It may throw with the payload in any
   valid state, so c is not always the result it should have. *)
WholeEdit(r, c) == SaveHandle(r) /\ Becomes(r, c)

-------------------------------------------------------------------------------
(* Maps.                                                                     *)

PutPair(r, k, v) ==
    /\ HasKey(handle[r], k) \/ Len(handle[r]) < MaxSize
    /\ EarlyDelta(r, PairBack(handle[r], k), PutIn(handle[r], k, v))

(* The pair's copy throws; its record stands, and undoes nothing. *)
PutPairThrows(r, k) == EarlyDelta(r, PairBack(handle[r], k), handle[r])

RemoveKey(r, k) == HasKey(handle[r], k) /\ WholeEdit(r, RemovePair(handle[r], k))

ClearMap(r) == handle[r] # <<>> /\ WholeEdit(r, <<>>)

(* put_all, and RemoveKey or ClearMap when they throw. *)
PutAll(r, m) == WholeEdit(r, m)

EditMap(r) ==
    \/ \E k \in Keys : PutPairThrows(r, k) \/ RemoveKey(r, k) \/ \E v \in Val : PutPair(r, k, v)
    \/ ClearMap(r)
    \/ \E m \in BoundedMaps : PutAll(r, m)

-------------------------------------------------------------------------------
(* Matrices.                                                                 *)

Set(r, i, j, v) == EarlyDelta(r, CellBack(handle[r], i, j), SetCell(handle[r], i, j, v))

SetThrows(r, i, j) == EarlyDelta(r, CellBack(handle[r], i, j), handle[r])

AddRow(r, i, row) ==
    /\ Len(handle[r]) < MaxSize
    /\ handle[r] # <<>> => Len(row) = Columns(handle[r])
    /\ LateDelta(r, i = Len(handle[r]) + 1, DropRow(i), InsertAt(handle[r], i, row))

AddCol(r, i, col) ==
    /\ Columns(handle[r]) < MaxSize
    /\ LateDelta(r, TRUE, DropColumn(i), AddColumn(handle[r], i, col))

RemoveRow(r, i) == LateDelta(r, TRUE, RowBack(handle[r], i), RemoveAt(handle[r], i))

RemoveCol(r, i) == LateDelta(r, TRUE, ColumnBack(handle[r], i), RemoveColumn(handle[r], i))

SwapRows(r, i, j) == LateDelta(r, TRUE, RowsBack(i, j), Swapped(handle[r], i, j))

SwapCols(r, i, j) == LateDelta(r, TRUE, ColumnsBack(i, j), SwapColumns(handle[r], i, j))

(* A bug: the delta counts although the edit has not returned. *)
StructuralThrowsCommitted(r, undo) ==
    /\ r \in GenericRoots
    /\ RecordDelta(r, undo, TRUE)
    /\ Becomes(r, handle[r])

(* One of the six edits above throws between its delta and its commit. *)
StructuralThrows(r, undo) ==
    /\ r \in GenericRoots
    /\ RecordDelta(r, undo, FALSE)
    /\ Becomes(r, handle[r])

(* fill, reshape, reverse and sort, an edit above that saves the payload and
   throws, and one whose index is out of range. *)
EngineEdit(r, c) == WholeEdit(r, c)

EditMatrix(r) ==
    LET rows == DOMAIN handle[r]
        cols == 1..Columns(handle[r])
    IN
    \/ \E i \in rows, j \in cols : SetThrows(r, i, j) \/ \E v \in Val : Set(r, i, j, v)
    \/ \E i \in 1..Len(handle[r]) + 1, row \in BoundedSeq(Val, MaxSize) : AddRow(r, i, row)
    \/ rows # {} /\ \E i \in 1..Columns(handle[r]) + 1, col \in [rows -> Val] : AddCol(r, i, col)
    \/ \E i \in rows : RemoveRow(r, i) \/ StructuralThrows(r, RowBack(handle[r], i))
    \/ \E i \in cols : RemoveCol(r, i) \/ StructuralThrows(r, ColumnBack(handle[r], i))
    \/ \E i, j \in rows : SwapRows(r, i, j) \/ StructuralThrows(r, RowsBack(i, j))
    \/ \E i, j \in cols : SwapCols(r, i, j) \/ StructuralThrows(r, ColumnsBack(i, j))
    \/ StructuralThrows(r, DropRow(Len(handle[r]) + 1))
    \/ rows # {} /\ \E i \in 1..Columns(handle[r]) + 1 : StructuralThrows(r, DropColumn(i))
    \/ \E c \in BoundedMatrices : EngineEdit(r, c)

Payloads(r) == IF r \in MapRoots THEN BoundedMaps ELSE BoundedMatrices

(* Script code runs only when no hook is on the stack.  A method of a na handle
   throws before it records anything. *)
RunScript ==
    /\ hook = "none"
    /\ \/ \E r \in Roots : \E c \in Fresh(r) : Replace(r, c)
       \/ \E r \in MapRoots : Bound(r) /\ EditMap(r)
       \/ \E r \in MatrixRoots : Bound(r) /\ EditMatrix(r)

-------------------------------------------------------------------------------
(* The hooks.                                                                *)

(* snapshot_script_state and commit_script_state; begin() leaves the states. *)
Snapshot ==
    /\ hook = "none"
    /\ generation < MaxGeneration
    /\ checkpoint' = [taken |-> TRUE, generation |-> generation + 1]
    /\ entries' = <<>>
    /\ generation' = generation + 1
    /\ active' = TRUE
    /\ outcome' = "ok"
    /\ base' = handle
    /\ found' = <<>>
    /\ object' = [r \in Roots |-> 0]
    /\ UNCHANGED <<handle, replaying, states, hook>>

(* The generations are exhausted, or a copy throws. *)
SnapshotThrows ==
    /\ hook = "none"
    /\ outcome' = "threw"
    /\ UNCHANGED roots /\ UNCHANGED journal /\ UNCHANGED history
    /\ UNCHANGED <<checkpoint, hook>>

RestoreBegin ==
    /\ hook = "none"
    /\ checkpoint.taken
    /\ IF active /\ checkpoint.generation = generation
       THEN replaying' = TRUE /\ hook' = "undo" /\ UNCHANGED outcome
       ELSE outcome' = "threw" /\ UNCHANGED <<replaying, hook>>
    /\ UNCHANGED <<entries, generation, active, states, checkpoint>>
    /\ UNCHANGED roots /\ UNCHANGED history

(* A bug: a replayed preimage leaves the root latched. *)
StateKeepsLatch(e) ==
    IF e.committed /\ IsDelta(e.undo)
    THEN [states EXCEPT ![e.owner].deltas = @ - 1]
    ELSE states

(* The states once the record e is undone. *)
StateAfterUndo(e) ==
    IF ~e.committed \/ e.undo.kind = "rebind" THEN states
    ELSE IF e.undo.kind = "preimage" THEN [states EXCEPT ![e.owner].saved = 0]
    ELSE [states EXCEPT ![e.owner].deltas = @ - 1]

(* What undoing the record e makes of what its root holds: a replace() binds the
   former object again, an edit is undone in the object it was made for. *)
Undone(e, h) ==
    IF ~e.committed THEN h
    ELSE IF e.undo.kind = "rebind" THEN [object |-> e.object, data |-> e.undo.old]
    ELSE IF h.object = e.object THEN [h EXCEPT !.data = Apply(e.undo, @)]
    ELSE h

(* The engine throws at once for what undoing the record e would have it do. *)
Refused(e) ==
    /\ e.committed
    /\ IsDelta(e.undo)
    /\ e.object = object[e.owner]
    /\ ~Accepts(e.undo, handle[e.owner])

(* One turn of the loop in restore(). *)
UndoLast ==
    /\ hook = "undo"
    /\ entries # <<>>
    /\ Last(entries).generation = generation
    /\ ~Refused(Last(entries))
    /\ LET r == Last(entries).owner
           h == Undone(Last(entries), Held(r))
       IN  /\ handle' = [handle EXCEPT ![r] = h.data]
           /\ object' = [object EXCEPT ![r] = h.object]
    /\ states' = StateAfterUndo(Last(entries))
    /\ entries' = Front(entries)
    /\ found' = Front(found)
    /\ UNCHANGED <<generation, active, replaying, base>>
    /\ UNCHANGED control

(* The undo of remove_row is an add_row, before the end unless the last row was
   removed.  The journal relies on a strong guarantee of set, add_col, remove_row,
   remove_col and the swaps, and of add_row at the end: it gives them a delta that
   counts for nothing when they throw.  For an add_row before the end it does not. *)
TornRows(e) ==
    LET c == handle[e.owner]
    IN  IF /\ AddRowMayTear
           /\ e.owner \in GenericRoots
           /\ e.undo.kind = "row"
           /\ Accepts(e.undo, c)
           /\ e.undo.at <= Len(c)
           /\ Len(c) < MaxSize
        THEN {InsertAt(c, e.undo.at, row) : row \in [1..Columns(c) -> Val]}
        ELSE {}

(* What an undo that throws makes of the handles: owner.restore() may stop with
   any payload, an add_row with a row too many. *)
AfterFailedUndo(e) ==
    LET stopped == IF e.object # object[e.owner] THEN {}
                   ELSE IF e.undo.kind = "preimage" THEN Payloads(e.owner)
                   ELSE TornRows(e)
    IN  {handle} \cup {[handle EXCEPT ![e.owner] = c] : c \in stopped}

(* The undo throws, or is refused: its record and its latch stay for a retry. *)
UndoThrows ==
    /\ hook = "undo"
    /\ entries # <<>>
    /\ Last(entries).committed
    /\ Last(entries).undo.kind # "rebind"
    /\ handle' \in AfterFailedUndo(Last(entries))
    /\ replaying' = FALSE
    /\ hook' = "none"
    /\ outcome' = "threw"
    /\ UNCHANGED <<object, entries, generation, active, states, checkpoint>>
    /\ UNCHANGED history

(* Nothing is left to undo.  The assignments of the other members follow, one
   of which may throw. *)
UndoDone ==
    /\ hook = "undo"
    /\ entries = <<>>
    /\ replaying' = FALSE
    /\ hook' = "none"
    /\ outcome' \in {"ok", "threw"}
    /\ UNCHANGED <<entries, generation, active, states, checkpoint>>
    /\ UNCHANGED roots /\ UNCHANGED history

(* A bug: a new run counts its generations from zero again. *)
PrepareRunRestartsGenerations ==
    /\ hook = "none"
    /\ handle' = Unbound
    /\ object' = [r \in Roots |-> 0]
    /\ entries' = <<>>
    /\ generation' = 0
    /\ active' = FALSE
    /\ replaying' = FALSE
    /\ checkpoint' = NoCheckpoint
    /\ outcome' = "ok"
    /\ base' = Unbound
    /\ found' = <<>>
    /\ UNCHANGED <<states, hook>>

(* prepare_script_run: reset_for_run() leaves generation_ and handle_states_. *)
PrepareRun ==
    /\ hook = "none"
    /\ handle' = Unbound
    /\ object' = [r \in Roots |-> 0]
    /\ entries' = <<>>
    /\ active' = FALSE
    /\ replaying' = FALSE
    /\ checkpoint' = NoCheckpoint
    /\ outcome' = "ok"
    /\ base' = Unbound
    /\ found' = <<>>
    /\ UNCHANGED <<generation, states, hook>>

Next ==
    \/ RunScript
    \/ Snapshot \/ SnapshotThrows
    \/ RestoreBegin
    \/ UndoLast \/ UndoThrows \/ UndoDone
    \/ PrepareRun

Spec == Init /\ [][Next]_vars

-------------------------------------------------------------------------------
(* Properties.                                                               *)

Payload(r) == IF r \in MapRoots THEN Maps ELSE Matrices

(* Every variable holds values of the type the code declares for it. *)
TypeOK ==
    /\ handle = [r \in Roots |-> handle[r]]
    /\ base = [r \in Roots |-> base[r]]
    /\ \A r \in Roots : {handle[r], base[r]} \subseteq {Na} \cup Payload(r)
    /\ object \in [Roots -> Nat]
    /\ Len(found) = Len(entries)
    /\ \A i \in DOMAIN entries :
          /\ entries[i].owner \in Roots
          /\ entries[i].generation \in Nat
          /\ entries[i].committed \in BOOLEAN
          /\ found[i].data \in {Na} \cup Payload(entries[i].owner)
    /\ generation \in 0..MaxGeneration
    /\ active \in BOOLEAN
    /\ replaying \in BOOLEAN
    /\ states \in [Roots -> [generation : Nat, saved : Nat, deltas : Nat]]
    /\ checkpoint \in {NoCheckpoint} \cup
         [taken : {TRUE}, generation : Nat]
    /\ hook \in {"none", "undo"}
    /\ outcome \in {"ok", "threw"}

RecordsOf(r) == {i \in DOMAIN entries : entries[i].owner = r}
Deltas(r) == {i \in RecordsOf(r) : entries[i].committed /\ IsDelta(entries[i].undo)}
Preimages(r) == {i \in RecordsOf(r) : entries[i].undo.kind = "preimage"}

(* What handle_states_ says of a root agrees with the records it summarises, at
   every moment of a checkpoint's life: also while records are replayed, after
   a replay that threw, and with states left over from other checkpoints and
   other runs.  Nothing but a replace() is recorded of a latched root. *)
LatchMatchesRecords ==
    active => \A r \in Roots :
        /\ StateOf(r).deltas = Cardinality(Deltas(r))
        /\ Saved(r) <=> Preimages(r) # {}
        /\ \A i \in Preimages(r), j \in RecordsOf(r) :
              j > i => entries[j].undo.kind = "rebind"

(* What the root held when the next record of the same root was made. *)
Later(i) ==
    LET next == {j \in RecordsOf(entries[i].owner) : j > i}
    IN  IF next = {} THEN Held(entries[i].owner)
        ELSE found[CHOOSE j \in next : \A n \in next : j <= n]

(* What r held when its oldest record was made. *)
Oldest(r) ==
    IF RecordsOf(r) = {} THEN Held(r)
    ELSE found[CHOOSE j \in RecordsOf(r) : \A n \in RecordsOf(r) : j <= n]

(* Root by root, undoing a record from what the root's next record found gives
   what this record found, and the oldest one found the checkpoint's payload:
   the records that are left always lead back to the checkpoint, although a
   latched root changes without leaving any. *)
RecordsLinkPayloads ==
    /\ \A i \in DOMAIN entries : Undone(entries[i], Later(i)) = found[i]
    /\ active => \A r \in Roots : Oldest(r).data = base[r]

(* The engine accepts the next undo.  The closures of a matrix call its checked
   edits with positions and lengths that fit what their own edit left; one that
   fits no more would make every retry of the restore throw at the same record. *)
UndosAccepted == entries # <<>> => ~Refused(Last(entries))

(* The undo log of a root stays within the size of its payload: when the k-th
   delta was recorded the payload had at least k elements. *)
DeltasWithinPayload ==
    \A r \in Roots : \A i \in Deltas(r) :
        Cardinality({j \in Deltas(r) : j <= i}) <=
            IF r \in MapRoots THEN Len(found[i].data) ELSE Len(found[i].data) * Columns(found[i].data)

-------------------------------------------------------------------------------
(* The contract of the hooks, implemented.                                   *)

Contract == INSTANCE RollbackContract WITH
    Rolled    <- Roots,
    Kept      <- {},
    Data      <- [r \in Roots |-> {Na} \cup Payload(r)],
    Initial   <- Unbound,
    live      <- handle,
    saved     <- IF checkpoint.taken THEN [taken |-> TRUE, contents |-> base] ELSE NoCheckpoint,
    restoring <- (hook # "none"),
    outcome   <- outcome

(* A restore that returns normally leaves every map and matrix, and whether it
   is bound at all, as it was at the checkpoint; one that throws can be tried
   again. *)
ImplementsContract == Contract!Spec
===============================================================================
