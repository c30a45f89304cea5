----------------------------- MODULE SliceArrays -----------------------------
(***************************************************************************)
(* The arrays of a script that uses array.slice: ARRAY_SLICE_CPP of        *)
(* codegen/array_slice.py, and their part of the script checkpoint         *)
(* (checkpoint_traits).                                                    *)
(*                                                                         *)
(* An array refers to a storage that it may share.  A window, made by      *)
(* slice, is a stretch of the storage of its source; any other array is    *)
(* the whole of its storage.  Writes go to the storage.  A change of       *)
(* length goes to it only if nothing else refers to it; else the array is  *)
(* given a copy of its part first (structural_write).                      *)
(*                                                                         *)
(* The checkpoint refers to the storages of the arrays it holds, with a    *)
(* copy of what was in them.                                               *)
(***************************************************************************)
EXTENDS SequencesExt, FiniteSetsExt

CONSTANTS
    Arrays,     \* members that hold an array
    Kept,       \* those declared varip: not in the checkpoint
    Storages,   \* identities of std::vector objects
    Val,
    MaxLen,     \* bound of the model: elements of a storage
    MaxElements \* bound of the model: elements of all storages together

ASSUME KeptAreArrays == Kept \subseteq Arrays
ASSUME BoundsAreNat == MaxLen \in Nat /\ MaxElements \in Nat

Rolled == Arrays \ Kept

VARIABLES
    storage,    \* [Storages -> Seq(Val)]
    binding,    \* [Arrays -> Binding]: owner_, offset_, length_, window_
    checkpoint, \* _pf_script_state_checkpoint_
    torn        \* the last restore threw and neither a restore nor a run followed

vars == <<storage, binding, checkpoint, torn>>

Whole(s) == [owner |-> s, offset |-> 0, length |-> 0, window |-> FALSE]
NoCheckpoint == [taken |-> FALSE]

(* The arrays are default-constructed, each with a storage of its own. *)
Init ==
    /\ storage = [s \in Storages |-> <<>>]
    /\ binding \in [Arrays -> {Whole(s) : s \in Storages}]
    /\ IsInjective([a \in Arrays |-> binding[a].owner])
    /\ checkpoint = NoCheckpoint
    /\ torn = FALSE

-------------------------------------------------------------------------------
Owner(a) == binding[a].owner
Size(a) == IF binding[a].window THEN binding[a].length ELSE Len(storage[Owner(a)])
Contents(a) == SubSeq(storage[Owner(a)], binding[a].offset + 1, binding[a].offset + Size(a))

Held(b, c) == {b[a].owner : a \in Arrays} \cup (IF c.taken THEN {c.binding[a].owner : a \in Rolled} ELSE {})
Free == Storages \ Held(binding, checkpoint)

(* owner_.unique(): no other array and no snapshot shares the storage. *)
Unique(a) ==
    /\ \A b \in Arrays \ {a} : Owner(b) # Owner(a)
    /\ checkpoint.taken => \A b \in Rolled : checkpoint.binding[b].owner # Owner(a)

(* A storage goes away with the last shared_ptr to it. *)
Becomes(b, contents, c) ==
    /\ binding' = b
    /\ checkpoint' = c
    /\ storage' = [s \in Storages |-> IF s \in Held(b, c) THEN contents[s] ELSE <<>>]

(* The bound of the model, after a change of length or a new storage. *)
WithinBounds ==
    /\ \A s \in Storages : Len(storage'[s]) <= MaxLen
    /\ MapThenSumSet(LAMBDA s : Len(storage'[s]), Storages) <= MaxElements

Bind(a, b) == Becomes([binding EXCEPT ![a] = b], storage, checkpoint)

(* a gets a storage of its own, holding s. *)
Fresh(a, s) ==
    /\ \E n \in Free :
        Becomes([binding EXCEPT ![a] = Whole(n)], [storage EXCEPT ![n] = s], checkpoint)
    /\ WithinBounds

(* The array's own storage comes to hold s. *)
InPlace(a, s) ==
    /\ Becomes([binding EXCEPT ![a] = Whole(Owner(a))], [storage EXCEPT ![Owner(a)] = s], checkpoint)
    /\ WithinBounds

(* A bug: a shared storage is taken to be the array's own. *)
StructuralInPlace(a, s) == IF binding[a].window THEN Fresh(a, s) ELSE InPlace(a, s)

(* structural_write(), then an edit of the array's own storage that makes it s. *)
Structural(a, s) == IF binding[a].window \/ ~Unique(a) THEN Fresh(a, s) ELSE InPlace(a, s)

(* A write through operator[], begin() and end(). *)
WriteAll(a, s) ==
    LET old == storage[Owner(a)]
        from == binding[a].offset
    IN Becomes(binding,
               [storage EXCEPT ![Owner(a)] =
                   [i \in DOMAIN old |-> IF i \in from + 1..from + Len(s) THEN s[i - from] ELSE old[i]]],
               checkpoint)

-------------------------------------------------------------------------------
(* Operations of the script.                                                 *)

(* array.new; contents are built by the operations below. *)
New(a) == Fresh(a, <<>>)

(* A bug: a slice of a window counts from the start of the storage. *)
SliceOfStorage(b, a, from, to) ==
    Bind(b, [owner |-> Owner(a), offset |-> from, length |-> to - from, window |-> TRUE])

(* array.slice, with its endpoints checked against size(). *)
Slice(b, a, from, to) ==
    Bind(b, [owner |-> Owner(a), offset |-> binding[a].offset + from, length |-> to - from, window |-> TRUE])

(* operator=(const _PFSliceArray&): a window is shared, an owned array copied. *)
Assign(b, a) ==
    /\ a # b
    /\ IF binding[a].window THEN Bind(b, binding[a]) ELSE Fresh(b, Contents(a))

(* array.copy: detached_copy. *)
Copy(b, a) == Fresh(b, Contents(a))

Set(a, i, v) == WriteAll(a, [Contents(a) EXCEPT ![i] = v])

(* A range of no element, or an inverted one, changes nothing and is left out. *)
Fill(a, from, to, v) ==
    WriteAll(a, [i \in 1..Size(a) |-> IF i \in from + 1..to THEN v ELSE Contents(a)[i]])

ReverseElements(a) == WriteAll(a, Reverse(Contents(a)))

(* Values have no order here: sort may permute the elements in any way. *)
Sort(a) ==
    \E p \in [1..Size(a) -> 1..Size(a)] :
        IsInjective(p) /\ WriteAll(a, [i \in 1..Size(a) |-> Contents(a)[p[i]]])

Push(a, v) == Structural(a, Append(Contents(a), v))

Insert(a, i, v) == Structural(a, InsertAt(Contents(a), i, v))

(* remove, pop and shift: erase or pop_back. *)
RemoveElement(a, i) == Structural(a, RemoveAt(Contents(a), i))

(* clear(): nothing to do for an empty array, which stays a window. *)
Clear(a) == IF Size(a) = 0 THEN UNCHANGED <<storage, binding, checkpoint>> ELSE Structural(a, <<>>)

(* array.concat: the inserted range is copied first, and may be a itself. *)
Concat(a, b) ==
    IF Size(b) = 0
    THEN UNCHANGED <<storage, binding, checkpoint>>
    ELSE Structural(a, Contents(a) \o Contents(b))

(* The array has been given its own storage when the edit itself throws. *)
StructuralThrows(a) == Structural(a, Contents(a))

Script ==
    /\ ~torn
    /\ torn' = torn
    /\ \E a \in Arrays :
        \/ New(a) \/ ReverseElements(a) \/ Sort(a) \/ Clear(a) \/ StructuralThrows(a)
        \/ \E b \in Arrays : Assign(b, a) \/ Copy(b, a) \/ Concat(a, b)
        \/ \E b \in Arrays : \E to \in 0..Size(a) : \E from \in 0..to : Slice(b, a, from, to)
        \/ \E v \in Val :
            \/ Push(a, v)
            \/ \E i \in 1..Size(a) : Set(a, i, v)
            \/ \E i \in 1..Size(a) + 1 : Insert(a, i, v)
            \/ \E to \in 1..Size(a) : \E from \in 0..to - 1 : Fill(a, from, to, v)
        \/ \E i \in 1..Size(a) : RemoveElement(a, i)

-------------------------------------------------------------------------------
(* The hooks.                                                                *)

(* A bug: a window is not copied, as the array it is a part of will be. *)
SnapshotOwnedOnly ==
    /\ ~torn
    /\ torn' = torn
    /\ LET c == [taken |-> TRUE,
                 binding |-> [a \in Rolled |-> binding[a]],
                 contents |-> [s \in {Owner(a) : a \in {b \in Rolled : ~binding[b].window}} |-> storage[s]]]
       IN Becomes(binding, storage, c)

(* take() of each rolled-back member; members that share a storage hold equal
   copies of it, so there is one copy per storage here. *)
Snapshot ==
    /\ ~torn
    /\ torn' = torn
    /\ LET c == [taken |-> TRUE,
                 binding |-> [a \in Rolled |-> binding[a]],
                 contents |-> [s \in {Owner(a) : a \in Rolled} |-> storage[s]]]
       IN Becomes(binding, storage, c)

(* A bug: the storages are refilled before the members are rebound to them. *)
RefilledUnbound(done) ==
    [s \in Storages |->
        LET members == {a \in done : binding[a].owner = s} IN
        IF members = {} THEN storage[s]
        ELSE checkpoint.contents[checkpoint.binding[CHOOSE a \in members : TRUE].owner]]

(* The storages of the members in done, refilled. *)
Refilled(done) ==
    [s \in Storages |->
        IF \E a \in done : checkpoint.binding[a].owner = s THEN checkpoint.contents[s] ELSE storage[s]]

Rebound(done) == [a \in Arrays |-> IF a \in done THEN checkpoint.binding[a] ELSE binding[a]]

(* A bug: the members are filled without being rebound. *)
RestoreContentsOnly ==
    /\ checkpoint.taken
    /\ torn' = FALSE
    /\ Becomes(binding, Refilled(Rolled), checkpoint)

(* restore() of each member: rebind, then clear and refill the storage. *)
Restore ==
    /\ checkpoint.taken
    /\ torn' = FALSE
    /\ Becomes(Rebound(Rolled), Refilled(Rolled), checkpoint)

(* Some members are restored; the next one has n elements when a copy throws. *)
RestoreThrows ==
    /\ checkpoint.taken
    /\ torn' = TRUE
    /\ \E done \in SUBSET Rolled : \E a \in Rolled \ done :
        LET owner == checkpoint.binding[a].owner
            full == checkpoint.contents[owner]
        IN \E n \in 0..Len(full) :
            Becomes(Rebound(done \cup {a}),
                    [Refilled(done) EXCEPT ![owner] = SubSeq(full, 1, n)],
                    checkpoint)

(* prepare_script_run: every member is given its initial value. *)
PrepareRun ==
    /\ torn' = FALSE
    /\ \E b \in [Arrays -> {Whole(s) : s \in Storages}] :
        /\ IsInjective([a \in Arrays |-> b[a].owner])
        /\ Becomes(b, [s \in Storages |-> <<>>], NoCheckpoint)

Next == Script \/ Snapshot \/ Restore \/ RestoreThrows \/ PrepareRun

Spec == Init /\ [][Next]_vars

-------------------------------------------------------------------------------
Bindings == [owner: Storages, offset: 0..MaxLen, length: 0..MaxLen, window: BOOLEAN]
Arrangements == {s \in Seq(Val) : Len(s) <= MaxLen}

TypeOK ==
    /\ storage \in [Storages -> Arrangements]
    /\ binding \in [Arrays -> Bindings]
    /\ torn \in BOOLEAN
    /\ checkpoint.taken \in BOOLEAN
    /\ checkpoint.taken =>
        /\ checkpoint.binding \in [Rolled -> Bindings]
        /\ checkpoint.contents \in [{checkpoint.binding[a].owner : a \in Rolled} -> Arrangements]

Inside(b, n) == IF b.window THEN b.offset + b.length <= n ELSE b.offset = 0

(* A window never reaches past the end of the storage it shares: every change
   of length that could shorten that storage is made elsewhere, and a restore
   gives it back the length it had.  That includes the window of a varip
   array, which a restore leaves bound to a storage that it refills. *)
WindowsInBounds ==
    ~torn => \A a \in Arrays : Inside(binding[a], Len(storage[Owner(a)]))

(* As long as the checkpoint refers to a storage, the storage keeps the length
   it had: what bounded a window then bounds it after the restore. *)
HeldStoragesKeepLength ==
    checkpoint.taken =>
        /\ \A a \in Rolled :
            Inside(checkpoint.binding[a], Len(checkpoint.contents[checkpoint.binding[a].owner]))
        /\ ~torn => \A s \in DOMAIN checkpoint.contents : Len(storage[s]) = Len(checkpoint.contents[s])

(* The elements of an array are positions of its storage. *)
ElementAt(s, i) == <<s, i>>
ViewOf(b, n) ==
    [i \in 1..IF b.window THEN b.length ELSE n |-> ElementAt(b.owner, b.offset + i)]
ElementsIn(c) == {e \in (DOMAIN c) \X (1..MaxLen) : e[2] <= Len(c[e[1]])}
ValuesIn(c) == [e \in ElementsIn(c) |-> c[e[1]][e[2]]]

SavedElements ==
    IF checkpoint.taken
    THEN [taken |-> TRUE,
          view |-> [a \in Rolled |->
                      ViewOf(checkpoint.binding[a], Len(checkpoint.contents[checkpoint.binding[a].owner]))],
          value |-> ValuesIn(checkpoint.contents)]
    ELSE NoCheckpoint

Elements == INSTANCE SharedElements WITH
    view <- [a \in Arrays |-> ViewOf(binding[a], Len(storage[binding[a].owner]))],
    value <- ValuesIn(storage),
    saved <- SavedElements

(* Storages, offsets and copies are invisible: the arrays behave as sequences
   of shared elements. *)
ImplementsElements == Elements!Spec

(* A rollback leaves varip members alone (_varip_state_member_names,
   codegen/emit_top.py).  A rolled-back window of a varip array makes this
   false: the storage it shares with that array is refilled. *)
VaripSurvivesRestore ==
    [][Restore /\ ~torn => \A a \in Kept : ~binding[a].window => Contents(a)' = Contents(a)]_vars

(* What does hold of varip members: one whose storage the checkpoint does not
   refer to is left alone by a restore, whether it returns or throws. *)
UnsharedVaripSurvives ==
    [][(Restore \/ RestoreThrows) =>
         \A a \in Kept : (\A x \in Rolled : checkpoint.binding[x].owner # Owner(a))
                            => Contents(a)' = Contents(a)]_vars
===============================================================================
