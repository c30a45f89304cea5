------------------------ MODULE DrawingLifetime_proofs ------------------------
(***************************************************************************)
(* The arena stays bounded, and a handle names one drawing, for any number *)
(* of variables and drawings and any declared count.                       *)
(***************************************************************************)
EXTENDS DrawingLifetime, FiniteSetTheorems, WellFoundedInduction, TLAPS

(* On the timeline that no rollback has undone, ids are issued in order. *)
Timeline ==
    /\ \A s \in Made \ undone : issued[s] \in 1..next - 1
    /\ \A s, t \in Made \ undone : s < t => issued[s] < issued[t]

(* The checkpoint is a point of that timeline. *)
SavedTimeline ==
    checkpoint.taken =>
        /\ checkpoint.made \in 0..Len(issued)
        /\ checkpoint.live \subseteq (1..checkpoint.made) \ undone
        /\ checkpoint.handle \in [Holders -> 0..checkpoint.made]
        /\ \A s \in (1..checkpoint.made) \ undone : issued[s] \in 1..checkpoint.next - 1

Small(drawings) == IsFiniteSet(drawings) /\ Cardinality(drawings) <= Limit

Bounded == Small(live) /\ (checkpoint.taken => Small(checkpoint.live))

IInv == TypeOK /\ checkpoint.taken \in BOOLEAN /\ Timeline /\ SavedTimeline /\ Bounded

(* A set of naturals that is not empty has a least element. *)
LEMMA LeastNat == ASSUME NEW T \in SUBSET Nat, T # {} PROVE \E x \in T : \A y \in T : x <= y
<1>1. \E x \in T : \A y \in T : ~ (<<y, x>> \in OpToRel(<, Nat))
  BY WFMin, NatLessThanWellFounded
<1>2. \A x, y \in T : ~(<<y, x>> \in OpToRel(<, Nat)) => x <= y
  BY DEF OpToRel
<1>. QED BY <1>1, <1>2

(* The limit is a number, not below the count, nor below the pinning variables
   and one more. *)
LEMMA LimitIs ==
    /\ Limit \in Nat
    /\ Keep + Slack - 1 <= Limit
    /\ Cardinality(Pinning) + 1 <= Limit
<1>1. Cardinality(Pinning) \in Nat
  BY HoldersAreDistinct, FS_CardinalityType
<1>. QED BY <1>1, CountsArePositive DEF Limit

(* Choosing by rank: the first ones of a finite set of numbers are all of
   them, or as many as were asked for. *)
LEMMA FirstOnes ==
    ASSUME NEW C \in SUBSET Nat, IsFiniteSet(C), NEW k \in Int,
           NEW D, D = {d \in C : Cardinality({e \in C : e < d}) < k}
    PROVE  D = C \/ k <= Cardinality(D)
<1>1. SUFFICES ASSUME D # C PROVE k <= Cardinality(D)
  OBVIOUS
<1>2. D \subseteq C /\ C \ D # {} /\ C \ D \subseteq Nat
  BY <1>1
<1>3. PICK m \in C \ D : \A y \in C \ D : m <= y
  BY <1>2, LeastNat
<1>. DEFINE Below == {e \in C : e < m}
<1>4. Below \subseteq D
  <2>1. SUFFICES ASSUME NEW e \in Below, e \notin D PROVE FALSE
    OBVIOUS
  <2>2. e \in C \ D /\ e < m /\ e \in Nat /\ m \in Nat
    BY <2>1
  <2>. QED BY <1>3, <2>2
<1>5. ~(Cardinality(Below) < k)
  BY <1>3
<1>6. IsFiniteSet(D)
  BY <1>2, FS_Subset
<1>7. IsFiniteSet(Below) /\ Cardinality(Below) <= Cardinality(D)
  BY <1>4, <1>6, FS_Subset
<1>8. Cardinality(Below) \in Nat /\ Cardinality(D) \in Nat
  BY <1>6, <1>7, FS_CardinalityType
<1>. HIDE DEF Below
<1>. QED BY <1>5, <1>7, <1>8

(* Ids tell the drawings of the arena apart. *)
LEMMA IdsDistinct ==
    ASSUME TypeOK, Timeline, NEW d \in Made \ undone, NEW e \in Made \ undone, Id(d) = Id(e)
    PROVE  d = e
<1>1. Len(issued) \in Nat
  BY DEF TypeOK
<1>2. d # 0 /\ e # 0 /\ d \in Nat /\ e \in Nat
  BY <1>1 DEF Made
<1>3. issued[d] = issued[e]
  BY <1>2 DEF Id, Na
<1>4. issued[d] \in Int
  BY DEF Timeline
<1>5. ~(d < e) /\ ~(e < d)
  BY <1>3, <1>4 DEF Timeline
<1>. QED BY <1>2, <1>5

(* The drawings that pinning variables hold are no more than the variables. *)
LEMMA HeldAreFew ==
    ASSUME IInv, NEW Held, Held = {d \in live : Id(d) \in PinnedIds}
    PROVE  IsFiniteSet(Held) /\ Cardinality(Held) <= Cardinality(Pinning)
<1>. DEFINE f == [d \in Held |-> CHOOSE h \in Pinning : Id(handle[h]) = Id(d)]
<1>1. \A d \in Held : f[d] \in Pinning /\ Id(handle[f[d]]) = Id(d)
  <2>1. TAKE d \in Held
  <2>2. \E h \in Pinning : Id(handle[h]) = Id(d)
    BY DEF PinnedIds
  <2>. QED BY <2>2
<1>2. \A d, e \in Held : f[d] = f[e] => d = e
  <2>1. TAKE d, e \in Held
  <2>2. HAVE f[d] = f[e]
  <2>3. Id(d) = Id(e)
    BY <1>1, <2>2
  <2>4. d \in Made \ undone /\ e \in Made \ undone
    BY DEF IInv, TypeOK
  <2>. QED BY <2>3, <2>4, IdsDistinct DEF IInv
<1>3. f \in [Held -> Pinning]
  BY <1>1
<1>. HIDE DEF f
<1>4. f \in Injection(Held, Pinning)
  BY <1>2, <1>3 DEF Injection, IsInjective
<1>. QED BY <1>4, FS_Injection, HoldersAreDistinct

(* What a collection leaves, when count drawings are there: those of the arena
   that are not doomed and, when one is being made, that one. *)
LEMMA LeavesFew ==
    ASSUME IInv, NEW T, IsFiniteSet(T), live \subseteq T,
           NEW extra, T \subseteq live \cup {extra}
    PROVE  Small(T \ Doomed(Cardinality(T)))
<1>. DEFINE count == Cardinality(T)
            D == Doomed(count)
<1>1. count \in Nat
  BY FS_CardinalityType
<1>2. IsFiniteSet(T \ D) /\ T \ D \subseteq T
  BY FS_Difference
<1>3. CASE ~Triggers(count)
  <2>1. D = {}
    BY <1>3 DEF Doomed
  <2>2. count <= Limit
    BY <1>1, <1>3, LimitIs, CountsArePositive DEF Triggers
  <2>3. T \ D = T
    BY <2>1
  <2>. QED BY <2>2, <2>3 DEF Small
<1>4. CASE Triggers(count)
  <2>1. D = {d \in Collectable : Cardinality({e \in Collectable : e < d}) < Excess(count)}
    BY <1>4 DEF Doomed
  <2>2. Collectable \in SUBSET Nat /\ Collectable \subseteq live
    <3>1. Len(issued) \in Nat /\ live \subseteq Made
      BY DEF IInv, TypeOK
    <3>2. Made \subseteq Nat
      BY <3>1 DEF Made
    <3>3. Collectable \subseteq live
      BY DEF Collectable
    <3>. QED BY <3>1, <3>2, <3>3
  <2>3. IsFiniteSet(Collectable)
    BY <2>2, FS_Subset DEF IInv, Bounded, Small
  <2>4. Excess(count) \in Int
    BY <1>1, CountsArePositive DEF Excess
  <2>. HIDE DEF D
  <2>5. D = Collectable \/ Excess(count) <= Cardinality(D)
    BY <2>1, <2>2, <2>3, <2>4, FirstOnes
  <2>6. D \subseteq Collectable
    BY <2>1
  <2>7. CASE D = Collectable
    <3>. DEFINE Held == {d \in live : Id(d) \in PinnedIds}
    <3>1. IsFiniteSet(Held) /\ Cardinality(Held) <= Cardinality(Pinning)
      BY HeldAreFew
    <3>2. T \ D \subseteq Held \cup {extra}
      BY <2>7 DEF Collectable
    <3>. HIDE DEF Held
    <3>3. /\ IsFiniteSet(Held \cup {extra})
          /\ Cardinality(Held \cup {extra}) <= Cardinality(Held) + 1
      <4>1. Cardinality(Held) \in Nat
        BY <3>1, FS_CardinalityType
      <4>2. /\ IsFiniteSet(Held \cup {extra})
            /\ Cardinality(Held \cup {extra})
                = IF extra \in Held THEN Cardinality(Held) ELSE Cardinality(Held) + 1
        BY <3>1, FS_AddElement
      <4>. QED BY <4>1, <4>2
    <3>4. Cardinality(T \ D) <= Cardinality(Held \cup {extra})
      BY <3>2, <3>3, FS_Subset
    <3>5. /\ Cardinality(T \ D) \in Nat /\ Cardinality(Held) \in Nat
          /\ Cardinality(Held \cup {extra}) \in Nat /\ Cardinality(Pinning) \in Nat
      BY <1>2, <3>1, <3>3, HoldersAreDistinct, FS_CardinalityType
    <3>6. Cardinality(T \ D) <= Limit
      BY <3>1, <3>3, <3>4, <3>5, LimitIs
    <3>. QED BY <1>2, <3>6 DEF Small, D
  <2>8. CASE Excess(count) <= Cardinality(D)
    <3>1. IsFiniteSet(D) /\ D \subseteq T
      BY <2>2, <2>3, <2>6, FS_Subset
    <3>2. Cardinality(T \ D) = count - Cardinality(D)
      <4>1. T \cap D = D
        BY <3>1
      <4>. QED BY <4>1, FS_Difference
    <3>3. Cardinality(D) \in Nat
      BY <3>1, FS_CardinalityType
    <3>. HIDE DEF count
    <3>4. Cardinality(T \ D) <= Limit
      BY <1>1, <2>8, <3>2, <3>3, LimitIs, CountsArePositive DEF Excess
    <3>. QED BY <1>2, <3>4 DEF Small, D, count
  <2>. QED BY <2>5, <2>7, <2>8
<1>. QED BY <1>3, <1>4

-------------------------------------------------------------------------------
LEMMA InitGood == Init => IInv
<1>. SUFFICES ASSUME Init PROVE IInv
  OBVIOUS
<1>2. issued = <<>> /\ Made = {}
  <2>1. issued = <<>>
    BY DEF Init
  <2>2. Len(<<>>) = 0
    OBVIOUS
  <2>. QED BY <2>1, <2>2 DEF Made
<1>3. TypeOK /\ checkpoint.taken = FALSE
  <2>1. <<>> \in Seq(Nat)
    OBVIOUS
  <2>2. handle \in [Holders -> Made \cup {Na}]
    BY DEF Init
  <2>3. checkpoint = NoCheckpoint /\ checkpoint.taken = FALSE
    BY DEF Init, NoCheckpoint
  <2>. QED BY <1>2, <2>1, <2>2, <2>3 DEF Init, TypeOK
<1>4. Timeline /\ SavedTimeline
  BY <1>2, <1>3 DEF Timeline, SavedTimeline
<1>5. Bounded
  <2>1. IsFiniteSet({}) /\ Cardinality({}) = 0
    BY FS_EmptySet
  <2>2. Small(live)
    BY <2>1, LimitIs DEF Init, Small
  <2>. QED BY <1>3, <2>2 DEF Bounded
<1>. QED BY <1>3, <1>4, <1>5 DEF IInv

(* The arena and the variables change; the ids that were issued do not. *)
LEMMA SameIds ==
    ASSUME IInv, UNCHANGED <<issued, undone, next, checkpoint>>,
           live' \in SUBSET live, handle' \in [Holders -> Made \cup {Na}]
    PROVE  IInv'
<1>1. TypeOK' /\ Timeline' /\ SavedTimeline' /\ (checkpoint.taken \in BOOLEAN)'
  BY DEF IInv, TypeOK, Made, Checkpoint, Timeline, SavedTimeline
<1>2. Small(live)'
  <2>1. IsFiniteSet(live') /\ Cardinality(live') <= Cardinality(live)
    BY FS_Subset DEF IInv, Bounded, Small
  <2>2. Cardinality(live') \in Nat /\ Cardinality(live) \in Nat /\ Cardinality(live) <= Limit
    BY <2>1, FS_CardinalityType DEF IInv, Bounded, Small
  <2>3. Cardinality(live') <= Limit
    BY <2>1, <2>2, LimitIs
  <2>. QED BY <2>1, <2>3 DEF Small, Limit
<1>3. Bounded'
  BY <1>2 DEF IInv, Bounded, Small, Limit
<1>. QED BY <1>1, <1>3 DEF IInv

LEMMA NewGood == ASSUME IInv, NEW h \in Holders, New(h) PROVE IInv'
<1>. DEFINE new == Len(issued) + 1
            T == live \cup {new}
<1>1. /\ Len(issued) \in Nat /\ issued \in Seq(Nat) /\ next \in Nat
      /\ undone \subseteq Made /\ live \subseteq Made \ undone
  BY DEF IInv, TypeOK
<1>2. /\ issued' = Append(issued, next) /\ next' = next + 1
      /\ undone' = undone /\ checkpoint' = checkpoint
      /\ handle' = [handle EXCEPT ![h] = new]
  BY DEF New
<1>3. /\ issued' \in Seq(Nat) /\ Len(issued') = new
      /\ \A s \in 1..Len(issued) : issued'[s] = issued[s]
      /\ issued'[new] = next
  BY <1>1, <1>2
<1>4. Made' = Made \cup {new} /\ new \notin Made
  BY <1>1, <1>3 DEF Made
<1>5. live' = T \ Doomed(Cardinality(T))
  <2>1. new \notin live
    BY <1>1, <1>4
  <2>2. Cardinality(T) = Cardinality(live) + 1
    BY <2>1, FS_AddElement DEF IInv, Bounded, Small
  <2>. QED BY <2>2 DEF New
<1>6. TypeOK'
  <2>1. live' \subseteq Made' \ undone'
    BY <1>1, <1>2, <1>4, <1>5
  <2>2. handle' \in [Holders -> Made' \cup {Na}]
    <3>1. handle \in [Holders -> Made \cup {Na}]
      BY DEF IInv, TypeOK
    <3>. HIDE DEF new
    <3>. QED BY <1>2, <1>4, <3>1
  <2>3. checkpoint' \in Checkpoint' \cup {NoCheckpoint}
    <3>1. checkpoint \in Checkpoint \cup {NoCheckpoint}
      BY DEF IInv, TypeOK
    <3>2. 0..Len(issued) \subseteq 0..Len(issued')
      BY <1>1, <1>3
    <3>3. Checkpoint \subseteq Checkpoint'
      <4>1. SUFFICES ASSUME NEW c \in Checkpoint PROVE c \in Checkpoint'
        OBVIOUS
      <4>2. Made \subseteq Made'
        BY <1>4
      <4>. HIDE DEF new
      <4>. QED BY <3>2, <4>2 DEF Checkpoint
    <3>. QED BY <1>2, <3>1, <3>3
  <2>. QED BY <1>1, <1>2, <1>3, <1>4, <2>1, <2>2, <2>3 DEF TypeOK
<1>7. Timeline'
  <2>1. \A s \in Made \ undone : s # new /\ issued'[s] = issued[s] /\ issued[s] \in 1..next - 1
    BY <1>3, <1>4 DEF Made, IInv, Timeline
  <2>2. (Made \ undone)' = (Made \ undone) \cup {new}
    BY <1>1, <1>2, <1>4
  <2>3. \A s \in Made : s < new
    BY <1>1 DEF Made
  <2>4. next >= 1
    BY DEF IInv, TypeOK
  <2>5. \A s \in (Made \ undone)' : issued'[s] \in 1..next' - 1
    <3>1. next \in Int /\ next' = next + 1
      BY <1>1, <1>2
    <3>2. \A s \in Made \ undone : issued'[s] \in 1..next' - 1
      BY <2>1, <3>1
    <3>3. issued'[new] \in 1..next' - 1
      BY <1>3, <2>4, <3>1
    <3>. HIDE DEF new
    <3>. QED BY <2>2, <3>2, <3>3
  <2>6. \A s, t \in (Made \ undone)' : s < t => issued'[s] < issued'[t]
    <3>1. TAKE s, t \in (Made \ undone)'
    <3>2. HAVE s < t
    <3>3. s # new
      BY <1>1, <2>2, <2>3, <3>2 DEF Made
    <3>4. CASE t = new
      BY <1>1, <1>3, <2>1, <2>2, <3>3, <3>4
    <3>5. CASE t # new
      BY <2>1, <2>2, <3>2, <3>3, <3>5 DEF IInv, Timeline
    <3>. QED BY <3>4, <3>5
  <2>. QED BY <2>5, <2>6 DEF Timeline
<1>8. SavedTimeline'
  <2>1. SUFFICES ASSUME checkpoint.taken PROVE SavedTimeline'
    BY <1>2 DEF SavedTimeline
  <2>2. /\ checkpoint.made \in 0..Len(issued)
        /\ checkpoint.live \subseteq (1..checkpoint.made) \ undone
        /\ checkpoint.handle \in [Holders -> 0..checkpoint.made]
        /\ \A s \in (1..checkpoint.made) \ undone : issued[s] \in 1..checkpoint.next - 1
    BY <2>1 DEF IInv, SavedTimeline
  <2>3. checkpoint.made \in 0..Len(issued')
    BY <1>1, <1>3, <2>2
  <2>4. \A s \in (1..checkpoint.made) \ undone : issued'[s] = issued[s]
    BY <1>1, <1>3, <2>2
  <2>. QED BY <1>2, <2>2, <2>3, <2>4 DEF SavedTimeline
<1>9. Bounded'
  <2>1. IsFiniteSet(T)
    BY FS_AddElement DEF IInv, Bounded, Small
  <2>2. Small(live')
    BY <1>5, <2>1, LeavesFew
  <2>. QED BY <1>2, <2>2 DEF IInv, Bounded, Small, Limit
<1>. QED BY <1>2, <1>6, <1>7, <1>8, <1>9 DEF IInv

LEMMA ScriptGood ==
    ASSUME IInv, Delete \/ \E h \in Holders : CopyNothing(h) \/ Assign(h)
    PROVE  IInv'
<1>1. /\ handle \in [Holders -> Made \cup {Na}] /\ live \subseteq Made
  BY DEF IInv, TypeOK
<1>2. CASE Delete
  <2>1. live' \in SUBSET live /\ handle' = handle
    BY <1>2 DEF Delete
  <2>. QED BY <1>1, <1>2, <2>1, SameIds DEF Delete
<1>3. ASSUME NEW h \in Holders, CopyNothing(h) PROVE IInv'
  <2>1. live' \in SUBSET live /\ handle' \in [Holders -> Made \cup {Na}]
    BY <1>1, <1>3 DEF CopyNothing
  <2>. QED BY <1>3, <2>1, SameIds DEF CopyNothing
<1>4. ASSUME NEW h \in Holders, Assign(h) PROVE IInv'
  <2>1. PICK d \in {handle[g] : g \in Holders} \cup {Na} \cup live : handle' = [handle EXCEPT ![h] = d]
    BY <1>4 DEF Assign
  <2>2. d \in Made \cup {Na}
    BY <1>1, <2>1
  <2>3. live' \in SUBSET live /\ handle' \in [Holders -> Made \cup {Na}]
    BY <1>1, <1>4, <2>1, <2>2 DEF Assign
  <2>. QED BY <1>4, <2>3, SameIds DEF Assign
<1>. QED BY <1>2, <1>3, <1>4

LEMMA SnapshotGood == IInv /\ Snapshot => IInv'
<1>. SUFFICES ASSUME IInv, Snapshot PROVE IInv'
  OBVIOUS
<1>1. /\ UNCHANGED <<issued, undone, live, next, handle>>
      /\ checkpoint' = [taken |-> TRUE, live |-> live, next |-> next, handle |-> handle, made |-> Len(issued)]
  BY DEF Snapshot
<1>2. TypeOK /\ Timeline /\ Len(issued) \in Nat
  BY DEF IInv, TypeOK
<1>3. TypeOK'
  <2>1. checkpoint' \in Checkpoint
    BY <1>1, <1>2 DEF TypeOK, Checkpoint
  <2>2. Checkpoint' = Checkpoint
    BY <1>1 DEF Checkpoint, Made
  <2>. QED BY <1>1, <1>2, <2>1, <2>2 DEF TypeOK, Made
<1>4. Timeline'
  BY <1>1, <1>2 DEF Timeline, Made
<1>5. SavedTimeline'
  <2>1. 0..Len(issued) = Made \cup {Na}
    BY <1>2 DEF Made, Na
  <2>. QED BY <1>1, <1>2, <2>1 DEF SavedTimeline, TypeOK, Timeline, Made
<1>6. Bounded'
  BY <1>1 DEF IInv, Bounded, Small, Limit
<1>. QED BY <1>1, <1>3, <1>4, <1>5, <1>6 DEF IInv

LEMMA RestoreGood == IInv /\ Restore => IInv'
<1>. SUFFICES ASSUME IInv, Restore PROVE IInv'
  OBVIOUS
<1>1. /\ checkpoint.taken /\ issued' = issued /\ checkpoint' = checkpoint
      /\ undone' = undone \cup (checkpoint.made + 1)..Len(issued)
      /\ live' = checkpoint.live /\ next' = checkpoint.next
      /\ handle' = [h \in Holders |-> IF h \in Varip THEN handle[h] ELSE checkpoint.handle[h]]
  BY DEF Restore
<1>2. /\ issued \in Seq(Nat) /\ Len(issued) \in Nat /\ undone \subseteq Made
      /\ handle \in [Holders -> Made \cup {Na}]
      /\ checkpoint \in Checkpoint
  BY <1>1 DEF IInv, TypeOK, NoCheckpoint
<1>3. /\ checkpoint.made \in 0..Len(issued)
      /\ checkpoint.live \subseteq (1..checkpoint.made) \ undone
      /\ checkpoint.handle \in [Holders -> 0..checkpoint.made]
      /\ \A s \in (1..checkpoint.made) \ undone : issued[s] \in 1..checkpoint.next - 1
  BY <1>1 DEF IInv, SavedTimeline
<1>. DEFINE since == (checkpoint.made + 1)..Len(issued)
<1>4. /\ since \subseteq Made /\ since \cap (1..checkpoint.made) = {}
      /\ Made = (1..checkpoint.made) \cup since
  BY <1>2, <1>3 DEF Made
<1>5. Made' = Made
  BY <1>1 DEF Made
<1>6. (Made \ undone)' = (1..checkpoint.made) \ undone
  BY <1>1, <1>4, <1>5
<1>. HIDE DEF since
<1>7. TypeOK'
  <2>1. live' \subseteq (Made \ undone)'
    BY <1>1, <1>3, <1>6
  <2>2. undone' \subseteq Made'
    BY <1>1, <1>2, <1>4, <1>5 DEF since
  <2>3. handle' \in [Holders -> Made' \cup {Na}]
    <3>1. checkpoint.handle \in [Holders -> Made \cup {Na}]
      BY <1>2 DEF Checkpoint
    <3>. QED BY <1>1, <1>2, <1>5, <3>1
  <2>4. next' \in Nat \ {0}
    BY <1>1, <1>2 DEF Checkpoint
  <2>5. Checkpoint' = Checkpoint
    BY <1>1 DEF Checkpoint, Made
  <2>. QED BY <1>1, <1>2, <2>1, <2>2, <2>3, <2>4, <2>5 DEF TypeOK
<1>8. Timeline'
  <2>1. \A s \in (Made \ undone)' : issued[s] \in 1..checkpoint.next - 1
    BY <1>3, <1>6
  <2>2. (Made \ undone)' \subseteq Made \ undone
    BY <1>4, <1>6
  <2>3. \A s, t \in (Made \ undone)' : s < t => issued[s] < issued[t]
    BY <2>2 DEF IInv, Timeline
  <2>. QED BY <1>1, <2>1, <2>3 DEF Timeline
<1>9. SavedTimeline'
  <2>1. (1..checkpoint.made) \ undone' = (1..checkpoint.made) \ undone
    BY <1>1, <1>4 DEF since
  <2>. QED BY <1>1, <1>3, <2>1 DEF SavedTimeline
<1>10. Bounded'
  BY <1>1 DEF IInv, Bounded, Small, Limit
<1>. QED BY <1>1, <1>7, <1>8, <1>9, <1>10 DEF IInv

LEMMA PrepareRunGood == IInv /\ PrepareRun => IInv'
<1>. SUFFICES ASSUME PrepareRun PROVE IInv'
  OBVIOUS
<1>1. Init'
  BY DEF PrepareRun, Init
<1>. QED BY <1>1, InitGood, PTL

LEMMA Inductive == IInv /\ [Next]_vars => IInv'
<1>. SUFFICES ASSUME IInv, [Next]_vars PROVE IInv'
  OBVIOUS
<1>1. ASSUME NEW h \in Holders, New(h) PROVE IInv'
  BY <1>1, NewGood
<1>2. CASE Delete \/ \E h \in Holders : CopyNothing(h) \/ Assign(h)
  BY <1>2, ScriptGood
<1>3. CASE Snapshot
  BY <1>3, SnapshotGood
<1>4. CASE Restore
  BY <1>4, RestoreGood
<1>5. CASE PrepareRun
  BY <1>5, PrepareRunGood
<1>6. CASE UNCHANGED vars
  BY <1>6 DEF vars, IInv, TypeOK, Made, Checkpoint, Timeline, SavedTimeline, Bounded, Small, Limit
<1>. QED BY <1>1, <1>2, <1>3, <1>4, <1>5, <1>6 DEF Next

LEMMA InvariantHolds == Spec => []IInv
BY InitGood, Inductive, PTL DEF Spec

-------------------------------------------------------------------------------
(* Arena, variables and checkpoint keep their types; no drawing that a rollback
   has undone is ever alive. *)
THEOREM TypeCorrect == Spec => []TypeOK
<1>1. IInv => TypeOK
  BY DEF IInv
<1>. QED BY <1>1, InvariantHolds, PTL

(* The unbounded arena never holds more drawings than the declared count and
   the slack allow, or than there are pinning variables and a new one. *)
THEOREM LiveCountAlwaysBounded == Spec => []LiveCountBounded
<1>1. IInv => LiveCountBounded
  BY DEF IInv, Bounded, Small, LiveCountBounded
<1>. QED BY <1>1, InvariantHolds, PTL

(* A handle reads the drawing it was given or na, although a rollback lets
   ids be issued again. *)
THEOREM HandlesAlwaysNameTheirDrawing == Spec => []HandlesNameTheirDrawing
<1>1. IInv => HandlesNameTheirDrawing
  <2>. SUFFICES ASSUME IInv, NEW h \in Holders, handle[h] \notin undone,
                       NEW e \in live, Id(e) = Id(handle[h])
                PROVE  handle[h] \in live
    BY DEF HandlesNameTheirDrawing, Alive
  <2>1. e \in Made \ undone /\ handle[h] \in Made \cup {Na} /\ Len(issued) \in Nat
    BY DEF IInv, TypeOK
  <2>2. handle[h] # Na
    <3>1. e # Na /\ issued[e] # 0
      BY <2>1 DEF IInv, Timeline, Made, Na
    <3>. QED BY <3>1 DEF Id
  <2>3. handle[h] = e
    BY <2>1, <2>2, IdsDistinct DEF IInv
  <2>. QED BY <2>3
<1>. QED BY <1>1, InvariantHolds, PTL

(* A rollback takes the drawings it undoes away from every variable but the
   varip ones. *)
THEOREM RollbackAlwaysWhole == Spec => RollbackIsWhole
<1>1. IInv /\ Restore => \A h \in Holders \ Varip : handle'[h] \in undone' => handle'[h] \in undone
  <2>. SUFFICES ASSUME IInv, Restore, NEW h \in Holders \ Varip, handle'[h] \in undone'
                PROVE  handle'[h] \in undone
    OBVIOUS
  <2>1. /\ checkpoint.made \in 0..Len(issued)
        /\ checkpoint.handle \in [Holders -> 0..checkpoint.made]
        /\ Len(issued) \in Nat
    BY DEF IInv, TypeOK, SavedTimeline, Restore
  <2>2. handle'[h] = checkpoint.handle[h]
    BY DEF Restore
  <2>3. handle'[h] \in 0..checkpoint.made
    BY <2>1, <2>2
  <2>4. handle'[h] \notin (checkpoint.made + 1)..Len(issued)
    BY <2>1, <2>3
  <2>. QED BY <2>4 DEF Restore
<1>2. IInv /\ [Next]_vars
        => [Restore => \A h \in Holders \ Varip : handle'[h] \in undone' => handle'[h] \in undone]_vars
  BY <1>1
<1>. QED BY <1>2, InvariantHolds, PTL DEF Spec, RollbackIsWhole

(* A collection never takes what a pinning variable holds, nor a drawing
   before an older one that could go. *)
THEOREM AlwaysCollectsOldestUnheld == Spec => CollectsOldestUnheld
<1>. DEFINE Spares ==
        \A d \in live \ live' :
            \A h \in Pinning :
                /\ handle[h] # d
                /\ \A e \in live' : e < d => \E g \in Pinning : Id(handle[g]) = Id(e)
<1>1. ASSUME IInv, \E h \in Holders : New(h) \/ CopyNothing(h) PROVE Spares
  <2>. SUFFICES ASSUME NEW d \in live \ live', NEW h \in Pinning
                PROVE  /\ handle[h] # d
                       /\ \A e \in live' : e < d => \E g \in Pinning : Id(handle[g]) = Id(e)
    OBVIOUS
  <2>1. live \subseteq Made /\ Len(issued) \in Nat
    BY <1>1 DEF IInv, TypeOK
  <2>2. PICK count \in {Cardinality(live), Cardinality(live) + 1} :
            \/ live' = (live \cup {Len(issued) + 1}) \ Doomed(count)
            \/ live' = live \ Doomed(count)
    BY <1>1 DEF New, CopyNothing
  <2>3. d \in Doomed(count)
    BY <2>2
  <2>4. /\ d \in Collectable /\ Cardinality({x \in Collectable : x < d}) < Excess(count)
        /\ Doomed(count) = {c \in Collectable : Cardinality({x \in Collectable : x < c}) < Excess(count)}
    BY <2>3 DEF Doomed
  <2>5. handle[h] # d
    BY <2>4 DEF Collectable, PinnedIds
  <2>6. ASSUME NEW e \in live', e < d PROVE \E g \in Pinning : Id(handle[g]) = Id(e)
    <3>1. d \in 1..Len(issued)
      BY <2>1 DEF Made
    <3>2. e \in live
      BY <2>1, <2>2, <2>6, <3>1
    <3>3. e \notin Doomed(count)
      BY <2>2, <2>6
    <3>4. e \in Nat /\ d \in Nat /\ Collectable \subseteq Nat
      <4>1. Made \subseteq Nat
        BY <2>1 DEF Made
      <4>2. Collectable \subseteq live
        BY DEF Collectable
      <4>. QED BY <2>1, <3>2, <4>1, <4>2
    <3>5. SUFFICES ASSUME e \in Collectable PROVE FALSE
      BY <3>2 DEF Collectable, PinnedIds
    <3>. DEFINE BelowE == {x \in Collectable : x < e}
                BelowD == {x \in Collectable : x < d}
    <3>6. BelowE \subseteq BelowD
      <4>1. ASSUME NEW x \in Collectable, x < e PROVE x < d
        <5>1. x \in Nat
          BY <3>4
        <5>. QED BY <2>6, <3>4, <4>1, <5>1
      <4>. QED BY <4>1
    <3>7. IsFiniteSet(BelowD)
      <4>1. BelowD \subseteq live
        BY DEF Collectable
      <4>. QED BY <1>1, <4>1, FS_Subset DEF IInv, Bounded, Small
    <3>8. IsFiniteSet(BelowE) /\ Cardinality(BelowE) <= Cardinality(BelowD)
      BY <3>6, <3>7, FS_Subset
    <3>9. Cardinality(BelowD) < Excess(count) /\ ~(Cardinality(BelowE) < Excess(count))
      BY <2>4, <3>3, <3>5
    <3>10. Cardinality(BelowE) \in Nat /\ Cardinality(BelowD) \in Nat /\ Excess(count) \in Int
      <4>1. Cardinality(live) \in Nat
        BY <1>1, FS_CardinalityType DEF IInv, Bounded, Small
      <4>2. count \in Nat
        BY <2>2, <4>1
      <4>. QED BY <3>7, <3>8, <4>2, FS_CardinalityType, CountsArePositive DEF Excess
    <3>. HIDE DEF BelowE, BelowD
    <3>. QED BY <3>8, <3>9, <3>10
  <2>. QED BY <2>5, <2>6
<1>2. IInv /\ [Next]_vars => [(\E h \in Holders : New(h) \/ CopyNothing(h)) => Spares]_vars
  BY <1>1
<1>. QED BY <1>2, InvariantHolds, PTL DEF Spec, CollectsOldestUnheld
===============================================================================
