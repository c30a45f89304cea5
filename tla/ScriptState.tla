------------------------------ MODULE ScriptState ------------------------------
(***************************************************************************)
(* The rollback machinery of a generated strategy that runs with           *)
(* calc_on_order_fills: the script-state hooks (_emit_script_state_hooks,  *)
(* _emit_script_run_prepare in codegen/emit_top.py) and the array journal  *)
(* they drive (ARRAY_JOURNAL_CPP in codegen/base.py).                      *)
(*                                                                         *)
(* A checkpoint copies every member but the enrolled `var` arrays (roots). *)
(* A root contributes only a token; from the checkpoint on, every mutation *)
(* of a root leaves an undo record, and a restore replays the records from *)
(* the last to the first.                                                  *)
(*                                                                         *)
(* A throw is the C++ exception a copy, an allocation or an assignment can *)
(* raise.  The code is single-threaded, so an operation and what it leaves *)
(* behind when it throws are single steps, except the replay loop, whose   *)
(* steps the properties tell apart.                                        *)
(***************************************************************************)
EXTENDS ArrayEdits

CONSTANTS
    Roots,          \* members enrolled in the journal
    StringRoots,    \* the roots whose elements are std::string
    Copied,         \* members the checkpoint copies and a restore assigns
    Requested,      \* request.security evaluators: copied, never assigned back
    Varip,          \* varip members: not in the checkpoint at all
    InsertMayTear,  \* a vector::insert whose string copy throws may have inserted:
                    \* FALSE for libstdc++, TRUE for libc++ and the standard's text
    MaxGeneration,  \* std::numeric_limits<uint64_t>::max()
    MaxLen,         \* bound of the model: elements of an array
    MaxRecords      \* bound of the model: undo records held at once

ASSUME StringRootsAreRoots == StringRoots \subseteq Roots
ASSUME MembersAreDisjoint ==
    /\ Roots \cap (Copied \cup Requested \cup Varip) = {}
    /\ Copied \cap (Requested \cup Varip) = {}
    /\ Requested \cap Varip = {}
ASSUME InsertMayTearIsBoolean == InsertMayTear \in BOOLEAN
ASSUME BoundsAreNat == MaxGeneration \in Nat /\ MaxLen \in Nat /\ MaxRecords \in Nat

Scalars == Copied \cup Requested \cup Varip
Snapshotted == Copied \cup Requested

VARIABLES
    array,      \* [Roots -> Seq(Val)]
    scalar,     \* [Scalars -> Val]: every other member, as one value each
    entries,    \* entries_: the undo records, oldest first
    generation, \* generation_
    active,     \* active_
    replaying,  \* replaying_
    checkpoint, \* _pf_script_state_checkpoint_
    hook,       \* where restore_script_state is: "none", "undo", "assign"
    outcome,    \* how the last hook ended: "ok", "threw"
    (* History variables: no guard reads them. *)
    base,       \* the roots' contents at the last begin()
    trail       \* for each record, the roots' contents when it was appended

data    == <<array, scalar>>
journal == <<entries, generation, active, replaying>>
history == <<base, trail>>
control == <<checkpoint, hook, outcome>>
vars == <<array, scalar, entries, generation, active, replaying,
          checkpoint, hook, outcome, base, trail>>

NoCheckpoint == [taken |-> FALSE]
EmptyArrays == [r \in Roots |-> <<>>]
ResetScalars == [m \in Scalars |-> Default]

Init ==
    /\ array = EmptyArrays
    /\ scalar = ResetScalars
    /\ entries = <<>>
    /\ generation = 0
    /\ active = FALSE
    /\ replaying = FALSE
    /\ checkpoint = NoCheckpoint
    /\ hook = "none"
    /\ outcome = "ok"
    /\ base = EmptyArrays
    /\ trail = <<>>

-------------------------------------------------------------------------------
(* The script's mutations of a root.                                        *)

Recording == active /\ ~replaying

(* append(): one record of the current generation, if recording. *)
Record(r, undo, committed) ==
    IF Recording
    THEN /\ Len(entries) < MaxRecords
         /\ entries' = Append(entries, [owner |-> r, generation |-> generation,
                                        committed |-> committed, undo |-> undo])
         /\ trail' = Append(trail, array)
    ELSE UNCHANGED <<entries, trail>>

Becomes(r, s) ==
    /\ array' = [array EXCEPT ![r] = s]
    /\ UNCHANGED <<scalar, generation, active, replaying, base>>
    /\ UNCHANGED control

(* save_set, then the element assignment of the call site. *)
Set(r, i, v) ==
    /\ Record(r, SetBack(i, array[r][i]), TRUE)
    /\ Becomes(r, ReplaceAt(array[r], i, v))

(* The string assignment throws after save_set recorded the old element. *)
SetThrows(r, i) ==
    /\ r \in StringRoots
    /\ Record(r, SetBack(i, array[r][i]), TRUE)
    /\ Becomes(r, array[r])

(* save_remove, then the erase of the call site: remove, pop and shift. *)
RemoveElement(r, i) ==
    /\ Record(r, Reinsert(i, array[r][i]), TRUE)
    /\ Becomes(r, RemoveAt(array[r], i))

(* push: the record counts only once push_back has returned. *)
Push(r, v) ==
    /\ Len(array[r]) < MaxLen
    /\ Record(r, ShrinkTo(Len(array[r])), TRUE)
    /\ Becomes(r, Append(array[r], v))

PushThrows(r) ==
    /\ Record(r, ShrinkTo(Len(array[r])), FALSE)
    /\ Becomes(r, array[r])

(* insert: a string root saves its whole contents first, any other root an
   erase that counts only once vector::insert has returned. *)
Insert(r, i, v) ==
    /\ Len(array[r]) < MaxLen
    /\ Record(r, IF r \in StringRoots THEN SwapBack(array[r]) ELSE Erase(i), TRUE)
    /\ Becomes(r, InsertAt(array[r], i, v))

(* A bug: the erase counts although the insertion has not returned. *)
InsertThrowsCommitted(r, i) ==
    /\ r \notin StringRoots
    /\ Record(r, Erase(i), TRUE)
    /\ Becomes(r, array[r])

InsertThrows(r, i) ==
    /\ r \notin StringRoots
    /\ Record(r, Erase(i), FALSE)
    /\ Becomes(r, array[r])

(* The methods that save the whole contents first. *)
FullEdit(r, s) ==
    /\ Record(r, SwapBack(array[r]), TRUE)
    /\ Becomes(r, s)

Clear(r) == FullEdit(r, <<>>)

Fill(r, first, last, v) ==
    FullEdit(r, [i \in 1..Len(array[r]) |-> IF i \in first..last THEN v ELSE array[r][i]])

Occurrences(s, v) == Cardinality({i \in DOMAIN s : s[i] = v})

(* std::sort in either order: an ordered permutation. *)
Sort(r) ==
    \E s \in [1..Len(array[r]) -> Val] :
        /\ \/ \A i, j \in DOMAIN s : i < j => s[i] <= s[j]
           \/ \A i, j \in DOMAIN s : i < j => s[i] >= s[j]
        /\ \A v \in Val : Occurrences(s, v) = Occurrences(array[r], v)
        /\ FullEdit(r, s)

ReverseElements(r) == FullEdit(r, Reverse(array[r]))

(* The admission proof refuses a root concatenated to itself. *)
Concat(r, other) ==
    /\ other # r
    /\ Len(array[r]) + Len(array[other]) <= MaxLen
    /\ FullEdit(r, array[r] \o array[other])

(* replace: a declaration's initialiser or a whole-array assignment. *)
ReplaceArray(r, s) == FullEdit(r, s)

(* A string copy throws part-way through a method that saved the contents:
   the vector is valid but its contents are whatever was reached. *)
FullEditThrows(r, s) == r \in StringRoots /\ FullEdit(r, s)

MutateRoot ==
    \E r \in Roots :
      \/ \E i \in DOMAIN array[r] :
           SetThrows(r, i) \/ RemoveElement(r, i) \/ \E v \in Val : Set(r, i, v)
      \/ PushThrows(r)
      \/ \E v \in Val : Push(r, v)
      \/ \E i \in 1..Len(array[r]) + 1 :
           InsertThrows(r, i) \/ \E v \in Val : Insert(r, i, v)
      \/ Clear(r) \/ Sort(r) \/ ReverseElements(r)
      \/ \E i, j \in DOMAIN array[r], v \in Val : Fill(r, i, j, v)
      \/ \E other \in Roots : Concat(r, other)
      \/ \E s \in BoundedSeq(Val, MaxLen) : ReplaceArray(r, s) \/ FullEditThrows(r, s)

(* An assignment to any other member, the evaluators' own progress included. *)
WriteScalar ==
    \E m \in Scalars, v \in Val :
        /\ scalar' = [scalar EXCEPT ![m] = v]
        /\ UNCHANGED <<array, outcome, checkpoint, hook>>
        /\ UNCHANGED journal /\ UNCHANGED history

-------------------------------------------------------------------------------
(* The hooks.                                                                *)

Token(r, g) == [owner |-> r, generation |-> g]

Valid(token, r) == active /\ token = Token(r, generation)

(* begin(): noexcept. *)
Begin(g) ==
    /\ entries' = <<>>
    /\ generation' = g
    /\ active' = TRUE
    /\ base' = array
    /\ trail' = <<>>
    /\ UNCHANGED replaying

(* The _PFScriptState built by snapshot_script_state. *)
Copies(g) == [taken |-> TRUE,
              token |-> [r \in Roots |-> Token(r, g)],
              value |-> [m \in Snapshotted |-> scalar[m]]]

(* A bug: next_generation() does not look for exhaustion. *)
SnapshotUnchecked ==
    /\ hook = "none"
    /\ checkpoint' = Copies(generation + 1)
    /\ Begin(generation + 1)
    /\ outcome' = "ok"
    /\ UNCHANGED <<array, scalar, hook>>

(* snapshot_script_state; commit_script_state is the same call. *)
Snapshot ==
    /\ hook = "none"
    /\ generation < MaxGeneration
    /\ checkpoint' = Copies(generation + 1)
    /\ Begin(generation + 1)
    /\ outcome' = "ok"
    /\ UNCHANGED <<array, scalar, hook>>

(* next_generation() refuses to wrap. *)
GenerationsExhausted ==
    /\ hook = "none"
    /\ generation = MaxGeneration
    /\ outcome' = "threw"
    /\ UNCHANGED data /\ UNCHANGED journal /\ UNCHANGED history
    /\ UNCHANGED <<checkpoint, hook>>

(* A bug: begin() before the members are copied. *)
BegunBeforeCopies == Begin(generation + 1) /\ UNCHANGED checkpoint

(* What a copy that throws finds already done: nothing, because the members
   are copied into a temporary before emplace and before begin(). *)
PublishedBeforeCopies == UNCHANGED journal /\ UNCHANGED history /\ UNCHANGED checkpoint

SnapshotThrows ==
    /\ hook = "none"
    /\ generation < MaxGeneration
    /\ PublishedBeforeCopies
    /\ outcome' = "threw"
    /\ UNCHANGED <<array, scalar, hook>>

(* restore_script_state: without a checkpoint it returns at once; otherwise
   it validates every token before the first write, and a mismatch throws. *)
RestoreBegin ==
    /\ hook = "none"
    /\ checkpoint.taken
    /\ IF \A r \in Roots : Valid(checkpoint.token[r], r)
       THEN replaying' = TRUE /\ hook' = "undo" /\ UNCHANGED outcome
       ELSE outcome' = "threw" /\ UNCHANGED <<replaying, hook>>
    /\ UNCHANGED data /\ UNCHANGED history
    /\ UNCHANGED <<entries, generation, active, checkpoint>>

(* One turn of the loop in restore(): undo the last record, then drop it. *)
UndoLast ==
    /\ hook = "undo"
    /\ entries # <<>>
    /\ Last(entries).generation = generation
    /\ array' = IF Last(entries).committed
                THEN [array EXCEPT ![Last(entries).owner] =
                                     Apply(Last(entries).undo, @)]
                ELSE array
    /\ entries' = Front(entries)
    /\ trail' = Front(trail)
    /\ UNCHANGED <<scalar, generation, active, replaying, base>>
    /\ UNCHANGED control

UndoCanThrow(e) ==
    \/ e.generation # generation
    \/ e.committed /\ MayThrow(e.undo, e.owner \in StringRoots)

(* A bug: no ReplayGuard. *)
UndoThrowsUnguarded ==
    /\ hook = "undo"
    /\ entries # <<>>
    /\ UndoCanThrow(Last(entries))
    /\ hook' = "none"
    /\ outcome' = "threw"
    /\ UNCHANGED data /\ UNCHANGED history
    /\ UNCHANGED <<entries, generation, active, replaying, checkpoint>>

(* A bug: the record is dropped before it is undone. *)
UndoThrowsDropsRecord ==
    /\ hook = "undo"
    /\ entries # <<>>
    /\ UndoCanThrow(Last(entries))
    /\ entries' = Front(entries)
    /\ trail' = Front(trail)
    /\ replaying' = FALSE
    /\ hook' = "none"
    /\ outcome' = "threw"
    /\ UNCHANGED data
    /\ UNCHANGED <<generation, active, checkpoint, base>>

(* What an undo that throws makes of the roots.  Only the insertion of a string
   before the end can leave something behind: the gap it opened, holding a
   moved-from value. *)
AfterFailedUndo(e) ==
    {array} \cup
    {[array EXCEPT ![e.owner] = InsertAt(@, e.undo.at, v)] :
        v \in {w \in Val : /\ InsertMayTear
                          /\ e.generation = generation
                          /\ e.undo.kind = "reinsert"
                          /\ e.undo.at <= Len(array[e.owner])
                          /\ e.owner \in StringRoots}}

(* The undo throws: the record stays for a retry and ~ReplayGuard runs. *)
UndoThrows ==
    /\ hook = "undo"
    /\ entries # <<>>
    /\ UndoCanThrow(Last(entries))
    /\ array' \in AfterFailedUndo(Last(entries))
    /\ replaying' = FALSE
    /\ hook' = "none"
    /\ outcome' = "threw"
    /\ UNCHANGED scalar /\ UNCHANGED history
    /\ UNCHANGED <<entries, generation, active, checkpoint>>

UndoDone ==
    /\ hook = "undo"
    /\ entries = <<>>
    /\ replaying' = FALSE
    /\ hook' = "assign"
    /\ UNCHANGED data /\ UNCHANGED history
    /\ UNCHANGED <<entries, generation, active, checkpoint, outcome>>

(* The member assignments, in full or up to one that throws. *)
Assign(S) ==
    /\ hook = "assign"
    /\ scalar' = [m \in Scalars |-> IF m \in S THEN checkpoint.value[m] ELSE scalar[m]]
    /\ hook' = "none"
    /\ UNCHANGED <<array, checkpoint>>
    /\ UNCHANGED journal /\ UNCHANGED history

(* A bug: the evaluators' members are assigned back with the others. *)
RestoreEndRewindsRequests == Assign(Snapshotted) /\ outcome' = "ok"

RestoreEnd == Assign(Copied) /\ outcome' = "ok"

AssignThrows == \E S \in SUBSET Copied : Assign(S) /\ outcome' = "threw"

(* A bug: a new run counts its generations from zero again. *)
PrepareRunRestartsGenerations ==
    /\ hook = "none"
    /\ checkpoint' = NoCheckpoint
    /\ entries' = <<>>
    /\ generation' = 0
    /\ active' = FALSE
    /\ replaying' = FALSE
    /\ array' = EmptyArrays
    /\ scalar' = ResetScalars
    /\ outcome' = "ok"
    /\ base' = EmptyArrays
    /\ trail' = <<>>
    /\ UNCHANGED hook

(* prepare_script_run: checkpoint.reset(), reset_for_run() on the journal and
   every declared member back to its reset value, varip included.  If one of
   these threw, the run would not begin and the next one would do it all again. *)
PrepareRun ==
    /\ hook = "none"
    /\ checkpoint' = NoCheckpoint
    /\ entries' = <<>>
    /\ active' = FALSE
    /\ replaying' = FALSE
    /\ array' = EmptyArrays
    /\ scalar' = ResetScalars
    /\ outcome' = "ok"
    /\ base' = EmptyArrays
    /\ trail' = <<>>
    /\ UNCHANGED <<generation, hook>>

-------------------------------------------------------------------------------
(* The engine calls a hook, or runs script code, only when no hook is on the
   stack. *)
RunScript == hook = "none" /\ (MutateRoot \/ WriteScalar)

Next ==
    \/ RunScript
    \/ Snapshot \/ SnapshotThrows \/ GenerationsExhausted
    \/ RestoreBegin
    \/ UndoLast \/ UndoThrows \/ UndoDone
    \/ RestoreEnd \/ AssignThrows
    \/ PrepareRun

Spec == Init /\ [][Next]_vars

-------------------------------------------------------------------------------
(* Properties.                                                               *)

Entry == [owner : Roots, generation : Nat, committed : BOOLEAN, undo : Undo]
Arrays == [Roots -> Seq(Val)]

(* Every variable holds values of the type the code declares for it. *)
TypeOK ==
    /\ array \in Arrays
    /\ scalar \in [Scalars -> Val]
    /\ entries \in Seq(Entry)
    /\ generation \in 0..MaxGeneration
    /\ active \in BOOLEAN
    /\ replaying \in BOOLEAN
    /\ checkpoint \in
         {NoCheckpoint} \cup
         [taken : {TRUE},
          token : [Roots -> [owner : Roots, generation : Nat]],
          value : [Snapshotted -> Val]]
    /\ hook \in {"none", "undo", "assign"}
    /\ outcome \in {"ok", "threw"}
    /\ base \in Arrays
    /\ trail \in Seq(Arrays)

(* The roots after the record e is undone in the roots s. *)
Undone(e, s) ==
    IF e.committed THEN [s EXCEPT ![e.owner] = Apply(e.undo, @)] ELSE s

(* The roots once every record has been undone, last to first. *)
Rebuilt ==
    LET n == Len(entries)
        after[i \in 1..n + 1] == IF i = n + 1 THEN array
                                 ELSE Undone(entries[i], after[i + 1])
    IN  after[1]

(* At every moment - between mutations, after one that threw, half-way through
   a restore, after a restore that threw - replaying the remaining records in
   reverse gives back exactly the contents the roots had at the checkpoint. *)
RecordsRebuildCheckpoint == active => Rebuilt = base

(* The roots as record i found them; i = Len(entries) + 1 stands for now. *)
Before(i) == IF i <= Len(entries) THEN trail[i] ELSE array

(* The same one record at a time, which is what every step preserves: undoing
   record i from the contents its mutation left gives the contents its
   mutation found, and the oldest record found the checkpoint's contents. *)
RecordsLinkContents ==
    /\ Len(trail) = Len(entries)
    /\ active => Before(1) = base
    /\ \A i \in 1..Len(entries) : Undone(entries[i], Before(i + 1)) = Before(i)

(* The closures index the array and offset its iterators unchecked, and resize()
   is taken not to throw because it shrinks. *)
InRange(u, n) ==
    /\ u.kind \in {"set", "erase"} => u.at \in 1..n
    /\ u.kind = "reinsert" => u.at \in 1..n + 1
    /\ u.kind = "resize" => u.at \in 0..n

(* Whichever record is the next to be undone stays within the array it finds,
   after any throws and retries, whether or not the library's insertion tears. *)
UndosInRange ==
    entries # <<>> /\ Last(entries).committed =>
        InRange(Last(entries).undo, Len(array[Last(entries).owner]))

(* validate() in restore_script_state never throws, and no record of another
   generation is ever replayed: the checkpoint and the journal change together. *)
TokensMatchJournal ==
    /\ checkpoint.taken <=> active
    /\ checkpoint.taken => \A r \in Roots : Valid(checkpoint.token[r], r)
    /\ \A i \in DOMAIN entries : entries[i].generation = generation

(* Nothing is recorded without a checkpoint to go back to, so a run that never
   snapshots cannot grow the journal; and recording is suspended only while
   restore() itself is replaying. *)
JournalFollowsHooks ==
    /\ ~active => entries = <<>>
    /\ replaying <=> hook = "undo"

(* No two checkpoints of a run, and none of a later run, share a generation:
   a token can never be mistaken for that of an earlier checkpoint. *)
GenerationsNeverReused ==
    [][/\ generation' >= generation
       /\ checkpoint'.taken /\ checkpoint' # checkpoint => generation' > generation]_vars

-------------------------------------------------------------------------------
(* The contract of the hooks, implemented.                                   *)

(* A scalar member counts as a one-element sequence, to give all members one
   type. *)
LiveMembers ==
    [m \in Roots \cup Scalars |-> IF m \in Roots THEN array[m] ELSE <<scalar[m]>>]

SavedMembers ==
    IF checkpoint.taken
    THEN [taken |-> TRUE,
          contents |-> [m \in Roots \cup Copied |->
                          IF m \in Roots THEN base[m] ELSE <<checkpoint.value[m]>>]]
    ELSE NoCheckpoint

Contract == INSTANCE RollbackContract WITH
    Rolled    <- Roots \cup Copied,
    Kept      <- Requested \cup Varip,
    Data      <- [m \in Roots \cup Scalars |-> Seq(Val)],
    Initial   <- [m \in Roots \cup Scalars |-> IF m \in Roots THEN <<>> ELSE <<Default>>],
    live      <- LiveMembers,
    saved     <- SavedMembers,
    restoring <- (hook # "none"),
    outcome   <- outcome

(* A restore that returns normally gives back every root and copied member as
   it was at the checkpoint, touches no evaluator and no varip member, and a
   hook that throws leaves the checkpoint for a retry. *)
ImplementsContract == Contract!Spec
===============================================================================
