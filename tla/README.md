# TLA+ models of PineForge codegen

`pineforge_codegen` translates Pine Script v6 strategies to C++. Most of it is
syntax-directed text emission. What a test can hardly exhaust is the run-time
machinery it puts *into* the generated strategy: with `calc_on_order_fills` the
engine executes a bar several times and rolls the script's variables back in
between, and the generated code avoids copying every collection at each of these
checkpoints. That machinery (undo logs, generation tokens, latches, shared frozen
copies, all of it under C++ exceptions) is the core of this project. Around it are the
other structures whose meaning a rollback could disturb: array windows, the arena of
drawings, the cursor of the folded loop over closed trades. Of the transpiler itself,
the loop that starts its passes over is modelled.

Paths below are relative to `src/pineforge_codegen/` unless they say otherwise.

## The system

| component | where | state | operations | hard behaviour |
| --- | --- | --- | --- | --- |
| Array journal | `codegen/base.py` 134-281, `codegen/tables.py` 885-1116 | undo records, generation, `active_`, `replaying_` | `begin`, `restore`, `reset_for_run`, `save_set`, `save_remove`, `push`, `insert`, `replace`, `clear`, `fill`, `sort`, `reverse`, `concat` | order of undo, a throw in any operation, retry of a restore, exhausted generations |
| Script-state hooks | `codegen/emit_top.py` 548-1096 | the checkpoint, every generated member | `snapshot_script_state`, `restore_script_state`, `commit_script_state`, `prepare_script_run` | publication order, partial restore, members that must not be rolled back |
| Array history and its sharing | `collection_history.py`, `codegen/collection_history.py`, `codegen/history_sharing.py` | slots, open flag, content token, cached copy, version clock | `open_slot`, `close`, writers, `allocate`, `reset_for_run` | stale reuse after a rollback, exhausted tokens |
| Graph journal | `codegen/graph_journal.py` | the array journal plus a latch and a delta budget per root handle | `save_handle`, deltas of maps and matrices, `replace` | latch against record, budget against size |
| UDT arenas | `codegen/base.py`, `codegen/emit_top.py` | records by numeric id, undo coordinator | field writes, copies | the same as above |
| Array windows | `codegen/array_slice.py` | shared storage, offset, length | `slice`, structural edits, copies, `take`, `restore` | a window outliving a shift of its parent, a restore that refills a storage others share |
| Drawing lifetime | `codegen/drawing.py` | arena per kind, variables that pin | create, copy, delete, collect | more pinned drawings than the cap, ids issued again after a rollback |
| Closed-trade folding | `codegen/closed_trade_fold.py`, `codegen/visit_stmt.py` 2350-2418 | cursor, rows seen, prefix of the accumulators | one execution of the loop | rows that still change order, a cursor rolled back under a ledger that is not |
| Pipeline | `__init__.py`, `limits.py`, `block_locals.py` | pass, renames, clones, deadline | one pass after another, start over | termination of the restarts, a budget shared by them |
| Lexer | `lexer.py` | indentation stack, parentheses, continuation | one line at a time | a newline taken back by the next line |
| Loop proofs | `codegen/endless_for.py` | none | `end_cannot_stop` | a loop bound evaluated every turn |
| Libraries | `library_inline.py` and others | modules being inlined | import, rename, link | cycles, captured names |
| Analyzer, parser, support checker, statement and expression emission, requested data, sessions, inputs, browser package | see `components` in `PROJECT.json` | trees and tables | tree walks | none that interleave or fail half-way |

How they interact. The engine (outside this repository) calls the hooks and the
script's `on_bar`. Script code reaches an enrolled array only through the mutation
templates of `tables.py`, which call the journal or the history writer;
`_plan_array_mutations` proves that at compile time and hands each array to one of
the two, never both. The hooks drive the journal (`next_generation`, `begin`,
`validate`, `restore`, `reset_for_run`) and copy or assign every other member,
the histories included. The version clock is the one mutable object no rollback
touches.

What makes each of them correct:

* journal: at any moment, undoing the remaining records from the newest to the
  oldest gives back the contents at the checkpoint;
* hooks: an ordinary restore is exact, leaves requested evaluators and `varip`
  members alone, and a hook that throws leaves the checkpoint for a retry;
* history: sharing copies cannot be observed;
* graph journal: what the journal promises, although most edits of a latched root leave
  no record; the latch never outlives the record it stands for;
* array windows: arrays behave as sequences of shared elements, through copies of
  storages and rollbacks, and no window reaches past the storage it shares;
* drawings: at most so many live at once, the oldest that no variable holds go first, and
  a handle never comes to name another drawing;
* closed-trade folding: an execution adds the rows the plain loop would add;
* pipeline: it ends, within its time, and returns only what is settled.

## Modules

| module | what it is | models |
| --- | --- | --- |
| `ArrayEdits` | contents of one array and the five inverse edits | the closures in `Entry::undo`, `base.py` 199-245 |
| `ScriptState` | the hooks, the journal, the mutations and their throws | `base.py` 134-281, `emit_top.py` 548-1096, `tables.py` 891-1116 |
| `RollbackContract` | what the engine may expect of the hooks | abstract; `ScriptState` implements it |
| `FrozenHistory` | the history that copies the array at every close | `collection_history.py` 381-444 |
| `CachedHistory` | the history with tokens and cached copies | `history_sharing.py` 85-222; implements `FrozenHistory` |
| `GraphEdits` | payloads of maps and matrices and their inverse edits | the undo closures of `graph_journal.py` 291-514 |
| `GraphJournal` | roots behind handles, latches, delta budgets, the hooks around them | `graph_journal.py` 260-532, `base.py` 134-195; implements `RollbackContract` |
| `SharedElements` | arrays as sequences of elements that several may share | abstract; `SliceArrays` implements it |
| `SliceArrays` | storages, windows, structural edits, checkpoint traits | `array_slice.py` 148-442, `tables.py` 726-1029 |
| `DrawingLifetime` | the arena of one kind, the variables, the collector | `drawing.py` 59-388, 498-550, 730-778 |
| `ClosedTradeFold` | the folded loop, its cursor and the engine's ledger | `visit_stmt.py` 2350-2418 |
| `Pipeline` | the passes of one transpilation | `__init__.py` 55-159, `limits.py` 128-144, `base.py` 4590-4622, 4832-4858 |
| `MCScriptState`, `MCGraphJournal`, `MCSliceArrays`, `MCPipeline` | values for TLC | |
| `SequenceEdits_proofs`, `ScriptState_proofs`, `GraphJournal_proofs`, `CachedHistory_proofs`, `SliceArrays_proofs`, `DrawingLifetime_proofs`, `ClosedTradeFold_proofs`, `Pipeline_proofs` | the TLAPS proofs | |

### ScriptState and RollbackContract

`array` holds the journaled arrays (*roots*), `scalar` one value for each other
member: `Copied` (checkpointed and assigned back), `Requested` (checkpointed, never
assigned back), `Varip` (not in the checkpoint). `entries`, `generation`, `active`,
`replaying` are the journal's fields. `checkpoint` is `_pf_script_state_checkpoint_`,
with a token instead of contents for each root. `hook` says where
`restore_script_state` is, `outcome` how the last hook ended. `base` and `trail` are
history variables: the contents of the roots at the checkpoint and before each record.

Every mutation method is an action with the record it makes, and wherever the C++ can
throw between the record and the end of the edit there is a second action for that:
`PushThrows` and `InsertThrows` leave a record that does not count, `SetThrows` and
`FullEditThrows` leave one that does. A throw before the record (copying the preimage,
growing `entries_`) changes nothing and is not an action. The replay is one action per
turn of its loop (`UndoLast`), which may instead throw (`UndoThrows`); the assignments
of a restore either all happen (`RestoreEnd`) or some of them do (`AssignThrows`).
`commit_script_state` is `snapshot_script_state`, so `Snapshot` stands for both.

Script code may run again after a mutation or a hook that threw: the model does not
rely on the engine stopping.

`RollbackContract` has no journal: a checkpoint holds contents. `ImplementsContract`
maps the roots' checkpointed contents to `base`, so it says that tokens plus records
are as good as copies.

### FrozenHistory and CachedHistory

`hist[a]` is the history object of array `a`; slots are newest first, as `a[1]` sees
them, and `Unset` is a null `shared_ptr`. `Mutate` is any method of `Writer`: `dirty()`
comes first, so a write that throws half-way is the same step as one that does not.
Contents are abstract values. `saved` is the part of the script checkpoint that these
members contribute. `cached_owner_` is constant for a history and left out. `torn`
records that a restore threw between assigning an array and its history; until the
restore is retried or a new run starts, nothing is claimed and nothing else happens.

### GraphEdits and GraphJournal

A root is a handle to an object on the heap. `handle[r]` is the payload of that object
(or `Na`) and `object[r]` says which object it is, counted from the checkpoint, because a
`replace()` binds another one and an undo closure edits the object it captured
(`Undone`). Pairs of a map are in insertion order, as `PineMap` keeps them, so an undo
that put a key back at another place would be seen. `states` is `handle_states_`, keyed
by root. `found` and `base` are history variables.

The three shapes in which the code pairs a record with an edit are the operators
`EarlyDelta` (`put`, `set`: the delta counts before the edit), `LateDelta` (the six
structural edits of a generic matrix: the delta is committed after the edit, and
`StructuralThrows` is the throw in between) and `WholeEdit` (the payload is saved, after
which the edit may do or leave undone anything). `RecordDelta` chooses between a delta, a
copy when the budget is spent, and nothing when the root is latched. The hooks have the
roots as their only members; the other classes of members are in `ScriptState`.

A closure of a matrix calls an edit that checks its arguments. `Accepts` is that check,
and `Refused` says of a record that the engine turns its undo away: `UndoLast` needs one that
is accepted, and a refused one can only throw (`UndoThrows`). `TornRows` is what the undo of a
removed row may leave when it throws, if `AddRowMayTear` says that the engine's `add_row`
may have inserted the row by then; without it only the copy of a payload (`restore` of the
handle) can stop half-way (`AfterFailedUndo`).

### SharedElements and SliceArrays

`storage[s]` is a `std::vector` behind a `shared_ptr`, `binding[a]` the four members of a
`_PFSliceArray`. A storage goes away with the last reference to it, a checkpoint's
included (`Held`), which is what `owner_.unique()` sees (`Unique`). Every edit that
changes a length is `Structural`, every other one `WriteAll`; each method of the Pine
array is an action over one of the two. `array.from` is `array.new` followed by pushes; no
method of a script reaches `resize`; a fill of an empty or inverted range changes nothing
and is left out. Values have no order, so a sort may permute in any way.
`StructuralThrows` is an edit that throws after the array was given its own storage.

A checkpoint holds the bindings of the rolled-back arrays and, for each storage they
refer to, its contents; in the code each member has its own copy of them, and all copies
are equal. Members are restored one after the other, so `RestoreThrows` restores any set
of them and a part of one more. Until that restore is retried or a run starts (`torn`),
no script code runs, and nothing is claimed of arrays that share with the checkpoint.

`SharedElements` has no storages and offsets: `view[a]` is a sequence of elements,
`value[e]` what an element holds, and a checkpoint saves both. `ImplementsElements` says
that detaching, sharing and refilling cannot be told from that.

### DrawingLifetime

One of the three kinds; they share nothing but the code. Linefills are never collected
and left out. A drawing is its number among all that were made, while the code stores and
compares ids: the arena's counter is taken to be part of the arena's value, so it is in the
checkpoint, and a rollback lets ids be issued a second time. That is the reason for
telling drawings and ids apart; `issued` is the history that relates them, `undone` the
drawings a rollback has undone. A `varip` variable may hold the handle of an undone drawing
and read another one through it when its id is issued again; `HandlesNameTheirDrawing`
claims nothing of such a handle, and `RollbackIsWhole` says that only `varip` variables
come to hold one.

`New` stands for the constructors and for a copy of a live drawing, `CopyNothing` for a
copy of one that is gone: the collector is called for its result all the same. The variable
that is being assigned still pins what it held before. `Keep` is the declared count,
`Slack` the code's 6.

### ClosedTradeFold

`trades` is the engine's ledger, oldest first. The engine appends rows and may reorder
those of the newest exit time, also after the script has read them
(`tests/test_e2e_closed_trade_fold.py`, `test_trailing_exit_order_can_change_without_a_new_trade`);
it never shortens the ledger within a run, so the code's test for that never holds here.
An accumulator is the sequence of the rows that were added to it: rounding makes the order
of additions visible, and the fold must keep it. `settled`, `seen` and `prefix` are
members like any other and rolled back, the ledger is not.

### Pipeline

One step per phase of a pass. What a phase infers is left open: any types, any
declarations with storage in their block, any functions whose reads reach the C++. What
is kept is what the loop of `_generate` does with it: which declarations need names
(`NeedingNames`, which depends on the names given so far), which functions may ask
(`Uncloned`), so that the `AssertionError` at the loop's end is written down and cannot be
reached, that names come before clones, and that both sets only grow. `Refuse` is a
`CompileError` of any phase. The clock advances between any two steps by any amount;
`Checked` is `TimeBudget.check` at the end of a phase, the last of the many within it.
`passes` counts up to `MaxPasses` and no further, for `RestartsBounded`.

## Runs

| run | instance | states | shows |
| --- | --- | --- | --- |
| `hooks` | one string root, one member of each other class, 3 generations, length 1, 3 records | 405,888 | types, `JournalFollowsHooks`, `GenerationsNeverReused`, `ImplementsContract` |
| `journal` | two roots (numbers, strings), length 2, 2 records, 2 generations | 370,930 | `RecordsRebuildCheckpoint`, `RecordsLinkContents`, `UndosInRange`, `TokensMatchJournal` |
| `torn_insert` | one string root, length 2, `InsertMayTear` | stops at the violation | the finding below |
| `history` | one array, 2 contents, 2 slots, 5 tokens | 89,850 | types, `CacheIsCurrent`, `ImplementsPlainHistory` |
| `matrices` | one matrix of rows up to 2 by 2, 1 generation, 2 records | 448,276 | `DeltasWithinPayload`, `RecordsLinkPayloads`, `UndosAccepted` |
| `torn_row` | the same with `AddRowMayTear` and 1 record | stops at the violation | `ImplementsContract`, the second finding below |
| `roots` | a map and a numeric matrix of one element, 2 generations, 3 records | 1,130,208 | types, `RecordsLinkPayloads`, `LatchMatchesRecords`, `ImplementsContract` |
| `windows` | a rolled-back and a `varip` array, 3 storages of at most 2, 4 elements in all | 68,691 | types, `WindowsInBounds`, `HeldStoragesKeepLength`, `ImplementsElements`, `UnsharedVaripSurvives` |
| `varip` | the same with one element | stops at the violation | the third finding below |
| `drawings` | one `varip` and one plain holder, count 1, slack 1, 5 drawings | 780,008 | types, `LiveCountBounded`, `HandlesNameTheirDrawing`, `RollbackIsWhole`, `CollectsOldestUnheld` |
| `fold` | 4 rows, 3 exit times, 2 values | 24,366 | types, `PrefixIsFinal`, `MatchesPlainLoop`, `FoldsOnce` |
| `pipeline` | 3 declarations of one name, 2 functions, 3 types, a time limit of 1 | 431,944 | types, `RestartsBounded`, `ReturnedIsSettled`, `LateWorkStops`, `Terminates` |

Bounds. `MaxLen` and `MaxRecords` bound guards of the model (an array and the journal
are unbounded in the code); `MaxGeneration` and `MaxToken` are the code's `uint64_t`
limits made small, so that exhaustion happens. Two records are the least for which the
order of undoing matters, and two roots for which the owner of a record does; length 2
is the least at which an insertion before the end shifts an element. Three generations
allow a checkpoint, its successor, and the refusal to wrap. Five tokens allow a write
before a checkpoint, one after it, another after the rollback, a new run, and
exhaustion. The proofs of `ScriptState`, `GraphJournal`, `CachedHistory` and
`SliceArrays` remove every one of these bounds. In `GraphJournal` the budget of a root is its size, so a payload of one element
is latched by its second delta and an empty one by its first; three records hold a
delta, a copy and a replaced handle in every order; two generations leave states behind
for a later checkpoint and a later run. `MaxSize` 2 gives a matrix rows, columns and
their inner positions. With a single generation (`matrices`) no state is left over; that
is what `roots` is for. Its map has one key, so the order of a map's pairs is not at stake in
the runs; that an undone `put` leaves each pair in its place is proved for every map
(`PutIsUndone`).

In `windows`, two arrays can be windows of each other's storage, of one they share with a
checkpoint, or of one that only the checkpoint still holds; three storages leave one to
detach to, and length 2 gives windows at the front, at the back and empty. In `drawings`
the slack is 1 so that a pinned drawing keeps the collector from reaching the count, which
6 would hide in a small arena; five drawings are enough for one to be collected, undone and
its id issued again. Four rows in `fold` make two runs of equal time and a change between them.
In `pipeline`, three declarations of one name, at most one of them direct, let a rename
change the type of the member the others share, and two functions let clones be asked for
twice.

Each property is paired with a plausible bug of the code (defined beside the action it
replaces, and introduced by "A bug") under which TLC finds it violated.

Fairness is assumed in `Pipeline` only, and weakly, of the disjunction of its phases: each
of them is a finite computation over the syntax tree in one thread, and the interpreter
carries it through. Nothing is assumed of the clock, so the passes end by themselves and
not because the time is over, and nothing of a refusal. All other properties are safety
properties.

### Findings

`torn_insert`. The undo of a removed string (`base.py` 209) inserts a copy of it. `base.py` 238 says
of such an insertion that "a throwing element copy must remain recoverable after any
partial insertion", and saves the whole contents before one made by the script. The
undo itself has no such protection, and its record stays for a retry. If the library's
`vector::insert` moves the tail before it copies the element (the C++ standard leaves
the effects of a throwing copy unspecified for an insertion before the end; libc++ does
this, libstdc++ makes the copy first), a restore that threw has already grown the
array, and the retry grows it again. `InsertMayTear` selects the library. This is the only
way in which a record can stop leading back, with any library (`OnlyFailedUndosUnlink`), and
even then no undo reaches outside its array (`UndosAlwaysInRange`).

`torn_row`. The same of a matrix of rows: the undo of `remove_row` is `add_row` at the
position of the removed row (`graph_journal.py` 454). For an `add_row` of the script the code
tells two cases apart: "End insertion has a strong guarantee" (416) and gets a delta, any other
saves the payload (426). The undo has no such protection, although its record stays for a retry
("the record must be retried", 298). If the engine's insertion before the end may have put
the row in when it throws, the retried restore returns normally with a row too many. The
engine is not in this repository; `AddRowMayTear` selects it. As for arrays, an undo that
throws is the only way in which a record can stop leading back (`OnlyFailedUndosUnlink`).

`varip`. `emit_top.py` 586-590 says that a recalculation rolls `var` back and "leaves
`varip` alone". A `var` window of a `varip` array shares its storage, and the restore of
the window (`array_slice.py` 434-441) refills that storage with what the checkpoint found
there, so the `varip` array loses the elements it was given since. The window stays within
bounds (`WindowsInBounds` includes this case), and a `varip` array whose storage the
checkpoint does not refer to is never touched (`UnsharedVaripSurvives`).

## Proofs

All theorems hold for every set of members, arrays, values and limits allowed by the
named `ASSUME`s.

`ScriptState_proofs`, in three layers. The first needs nothing of the library's
`vector::insert`: the inductive invariant `IInv` is `TypeOK`, `TokensMatchJournal`,
`JournalFollowsHooks`, `HooksInOrder` (the assignments of a restore run only after the
replay) and `RecordsFit`. The last is what the records say of sizes alone: each can be undone
in the array its mutation left, and gives back an array no shorter than the one its mutation
found. A torn insertion only adds elements, hence an array that is found longer than
expected still has the positions the records name. From `IInv` follow `TypeCorrect`,
`TokensAlwaysMatch`, `JournalAlwaysFollowsHooks`, `GenerationsAlwaysIncrease` and
`UndosAlwaysInRange`.

The second is about contents. `RecordsLinkContents` says that undoing record *i* from what its
mutation left gives what its mutation found, and that the oldest found the checkpoint.
`MutationKeepsLinks` treats all mutations at once, given that the record undoes the edit;
`SetIsUndone` and its companions give that for each kind of record, from the lemmas on
sequences in `SequenceEdits_proofs`. An undo removes the newest link. Every step but an undo
that throws keeps the links, with any library (`OnlyFailedUndosUnlink`); an undo that throws
does when a throwing insertion leaves the vector alone (`RecordsAlwaysLink`, which assumes
`InsertMayTear = FALSE`, as must everything that follows from it: the first finding is the
counterexample).

The third is about the whole journal. `RecordsRebuildCheckpoint` replays all records through a
recursive function on their number. Its value is not computed by induction: the sequence
that starts with `base` and goes on with what `trail` says of each mutation satisfies the
recursive equations by `RecordsLinkContents`, and a function on a finite interval that
satisfies them is the only one. `SetInduction` is the one induction needed (on a set, so
that no operator has to be instantiated), `LinksRebuild` the result, `RecordsAlwaysRebuild` the
theorem. With no record left the roots equal `base` (`EmptyJournalIsBase`), which is why a
normal end of a restore is exact, and so `HooksImplementContract`.

`GraphJournal_proofs`, in four stages. First, every closure inverts its edit, for maps and
matrices of any size (`PutIsUndone`, `RemovedColumnIsUndone` and the like), and every edit
leaves a map with distinct keys or a rectangular matrix. Second, script code takes only
three kinds of step, whichever method it calls (`ScriptSteps`): an edit with a delta, an
edit that saves the payload or needs no record, a `replace()`. Third, `IInv`, which is
`TypeOK`, `LatchMatchesRecords`, `DeltasWithinPayload` and two more, and holds whatever an
`add_row` that throws leaves. For `TypeOK` to survive an undo in a payload that nobody promised,
`RecordsInShape` says that a closure makes something of the right type of every payload that
accepts it (`DeltaFits`). It also says that no state in `handle_states_` is of a generation to
come, which is why the states that a run or a checkpoint leaves behind count as new ones in
the next. `HooksInStep` ties the journal to the hooks.

Beside `IInv`, `RecordsLinked` is `RecordsLinkPayloads` said of every record that is a root's
next one, and adds that an edit is undone in the object it was made for, by a call that the
engine accepts. With `LatchMatchesRecords` this is what lets a latched root change without a
record: its last record is a copy, or binds another object, so that what it undoes to does not
depend on the payload. Every step but an undo that throws keeps it (`OnlyFailedUndosUnlink`, for
any engine). An undo that throws keeps it when an `add_row` that throws leaves the matrix
alone, so `RecordsAlwaysLink`, `UndosAlwaysAccepted` and `HooksImplementContract` assume
`AddRowMayTear = FALSE`; `torn_row` is the counterexample without it. `TypeCorrect`,
`LatchAlwaysMatches` and `DeltasAlwaysWithinPayload` assume nothing. Last, the refinement, as
for `ScriptState`.

`CachedHistory_proofs`: `IInv` says that every token in the live state and in the
checkpoint was issued by the clock (`Issued`), and that in both, equal tokens mean that
the cached copy is the array's contents (`Current`). The checkpoint must be included
because a restore makes it live, and the clock must not be rolled back for `Issued` to
stay true of both. Then `TypeCorrect`, `CacheAlwaysCurrent`, and `SharingIsInvisible`:
`CachedHistory` implements `FrozenHistory`.

`SliceArrays_proofs`: `WindowsInBounds` is not inductive without
`HeldStoragesKeepLength`, since a restore gives a storage the length it had at the
checkpoint, and an array the checkpoint does not hold may be a window of it by then. The
two together with `TypeOK` are the invariant. Every action but the hooks goes through `Becomes`, so a
few lemmas on writes, structural edits and fresh storages do for all of them.

`SlicesImplementElements` is the refinement. An element is a storage with a position in it
(`ViewOf`). Three facts carry it. What is live in the abstract specification is what some array or the
checkpoint still refers to, and a storage that is free holds none of it, so an array that
moves to a fresh storage gets fresh elements. A write in place goes to the stretch of the
storage that the array is, and hence to its own elements, which its windows share. And a
structural edit is done in place only where nobody else refers to the storage, so it
takes no position from an element that is live. The hooks need the invariant: a
restore finds every storage of the checkpoint with the length it had, so that the saved values
belong to the saved elements. A restore that throws leaves any values in the elements of the
checkpoint and may have rebound any of the rolled-back arrays; the abstract one may do the
same. `UnsharedVaripAlwaysSurvives` says of the same two hooks what they leave alone.

`DrawingLifetime_proofs`: the invariant adds a timeline to `TypeOK`: the ids of the
drawings no rollback has undone increase with their numbers and are below `next`, in the
live state and in the checkpoint. A deletion or a collection cannot disturb it, a rollback
cuts it off, and it makes ids identify drawings (`HandlesAlwaysNameTheirDrawing`). For the bound,
a collection leaves no more than the pinned drawings and the new one, or the count; the
lemma behind it (`FirstOnes`) says that the first *n* of a set of numbers are all of them or
at least *n*, by way of the least one that is left out.

`ClosedTradeFold_proofs`: `PrefixIsFinal` is inductive once it says the same of the
checkpoint. The rows before the newest run keep their places in every step of the engine,
which is why the prefix of a checkpoint still fits a longer ledger.

`Pipeline_proofs`: `Room` counts the pass that is under way; `OneBudget` says that the
deadline never moves. A declaration that was renamed always fits (`RenamedFits`), hence
what is apart is new, hence a set grows with each restart.

Only model-checked: `Terminates` (a liveness property, which the provers cannot do; its safe
part, that restarts are bounded, is proved), and `VaripSurvivesRestore`, which a finding
refutes.

## Assumptions

* The engine calls hooks and script code from one thread and never re-enters a hook.
* Moving the temporary `_PFScriptState` into the `optional` does not throw; every throw
  of a snapshot comes from the copies made before.
* `Series::push` and `Series::update`, and the vector and string operations, are
  external: modelled as the code in `src/` uses them. Assigning a string has no effect
  when it throws.
* The payload of a journaled map or matrix has one owner. `prepare` admits a root only
  if it is declared with a constructor or `na` and every use of its name is a method call
  on it; of the roots declared `na` nothing can change, and they are left out.
* `put` of a map, and `set`, `add_col`, `remove_row`, `remove_col` and the swaps of a matrix
  of rows leave it as it was when they throw, and so does `add_row` at the end. The code
  relies on this when the script calls them: it gives them a delta, which counts for
  nothing or writes one element back, and no other protection. The undo closures call the
  same methods. On `add_row` before the end the code does not rely when the script calls it,
  and as an undo nothing is assumed of it but where `AddRowMayTear` is `FALSE`. A row it leaves
  is as wide as the others, and `MaxSize` bounds the rows that are left behind.
* These methods check their arguments before they change anything, and a method of a `na`
  handle throws.
* What `put_all`, `fill`, `reshape`, `reverse` and `sort` make of a payload is the
  engine's business: any payload.
* The owner in a token is the address of its member and always matches; only the
  generation is modelled.
* The first execution of a run always advances to a new bar.
* `prepare_script_run` does not throw. Its assignments copy initial values; where one threw the
  run would not begin, and the next `prepare_script_run` would assign every member again,
  with the checkpoint already gone. The members half assigned in between are not modelled.
* The engine's drawing arena is a value: it is copied with its order and its counter.
* A copy of a deleted drawing makes none (`CopyNothing`). If the engine's `pf_*_copy` made
  one from the record it still keeps, the step would be a `New`, which the model allows at
  any moment.
* The engine's ledger of closed trades is appended to and reordered within the newest exit
  time; a new run clears it.
* `std::shared_ptr::unique` is exact, as everything happens in one thread.

## Not modelled, and the plan

In this order:

1. UDT arenas, whose undo coordinator follows the graph journal.
2. `EndlessFor`: `end_cannot_stop` against a loop semantics; theorem that a loop it
   accepts never stops.
3. `Indentation`: the line state machine of the lexer; balanced INDENT and DEDENT.
4. Library inlining and call-site cloning as algorithms.

Left out on purpose: the parser, the analyzer, the support checker, and the emission of
statements and expressions are tree walks over large tables, without state that several
steps share; the browser package and the gate are process and file I/O.
