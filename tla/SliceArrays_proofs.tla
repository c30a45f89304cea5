-------------------------- MODULE SliceArrays_proofs --------------------------
(***************************************************************************)
(* Proofs about SliceArrays for any arrays, storages, values and bounds: a *)
(* window never reaches past the end of the storage it shares; arrays are  *)
(* sequences of shared elements (SharedElements); and a varip array whose  *)
(* storage no checkpoint refers to is left alone by every rollback.        *)
(***************************************************************************)
EXTENDS SliceArrays, SequenceEdits_proofs, FiniteSetTheorems

(* What the invariants say of bindings b, contents st, checkpoint c and flag t. *)
CheckpointOK(st, c, t) ==
    /\ c.taken \in BOOLEAN
    /\ c.taken =>
        /\ c.binding \in [Rolled -> Bindings]
        /\ c.contents \in [{c.binding[a].owner : a \in Rolled} -> Arrangements]
        /\ \A a \in Rolled : Inside(c.binding[a], Len(c.contents[c.binding[a].owner]))
        /\ ~t => \A s \in {c.binding[a].owner : a \in Rolled} : Len(st[s]) = Len(c.contents[s])

(* The varip arrays, which a restore does not rebind, fit the storages as a
   restore will leave them. *)
KeptWillFit(b, st, c) ==
    /\ c.taken
    /\ \A a \in Kept :
        LET s == b[a].owner IN
        Inside(b[a], Len(IF \E x \in Rolled : c.binding[x].owner = s THEN c.contents[s] ELSE st[s]))

Good(b, st, c, t) ==
    /\ st \in [Storages -> Seq(Val)]
    /\ \A s \in Held(b, c) : Len(st[s]) <= MaxLen
    /\ b \in [Arrays -> Bindings]
    /\ t \in BOOLEAN
    /\ ~t => \A a \in Arrays : Inside(b[a], Len(st[b[a].owner]))
    /\ CheckpointOK(st, c, t)
    /\ t => KeptWillFit(b, st, c)

IInv ==
    /\ TypeOK /\ WindowsInBounds /\ HeldStoragesKeepLength
    /\ torn => KeptWillFit(binding, storage, checkpoint)

LEMMA InvariantIsGood == IInv => Good(binding, storage, checkpoint, torn)
<1> SUFFICES ASSUME IInv PROVE Good(binding, storage, checkpoint, torn)
  OBVIOUS
<1>1. Held(binding, checkpoint) \subseteq Storages
  BY DEF IInv, TypeOK, Held, Bindings
<1>2. CheckpointOK(storage, checkpoint, torn)
  BY DEF IInv, TypeOK, HeldStoragesKeepLength, CheckpointOK
<1>. QED BY <1>1, <1>2 DEF IInv, TypeOK, WindowsInBounds, Good, Arrangements, Owner

(* Storages that nothing refers to are dropped, which no invariant notices. *)
LEMMA BecomesGood ==
    ASSUME NEW b, NEW st, NEW c, Good(b, st, c, torn'), Becomes(b, st, c)
    PROVE  IInv'
<1>1. /\ binding' = b /\ checkpoint' = c
      /\ storage' = [s \in Storages |-> IF s \in Held(b, c) THEN st[s] ELSE <<>>]
  BY DEF Becomes
<1>2. storage' \in [Storages -> Arrangements]
  <2> SUFFICES ASSUME NEW s \in Storages PROVE storage'[s] \in Arrangements
    BY <1>1
  <2>1. CASE s \in Held(b, c)
    BY <1>1, <2>1 DEF Good, Arrangements
  <2>2. CASE s \notin Held(b, c)
    <3>1. <<>> \in Seq(Val) /\ Len(<<>>) = 0
      OBVIOUS
    <3>. QED BY <1>1, <2>2, <3>1, BoundsAreNat DEF Arrangements
  <2>. QED BY <2>1, <2>2
<1>3. TypeOK'
  BY <1>1, <1>2 DEF TypeOK, Good, CheckpointOK
<1>4. WindowsInBounds'
  <2> SUFFICES ASSUME ~torn', NEW a \in Arrays
               PROVE  Inside(b[a], Len(storage'[b[a].owner]))
    BY <1>1 DEF WindowsInBounds, Owner
  <2>1. b[a].owner \in Held(b, c) /\ b[a].owner \in Storages
    BY DEF Held, Good, Bindings
  <2>. QED BY <1>1, <2>1 DEF Good
<1>5. HeldStoragesKeepLength'
  <2> SUFFICES ASSUME c.taken
               PROVE  /\ \A a \in Rolled : Inside(c.binding[a], Len(c.contents[c.binding[a].owner]))
                      /\ ~torn' => \A s \in DOMAIN c.contents : Len(storage'[s]) = Len(c.contents[s])
    BY <1>1 DEF HeldStoragesKeepLength
  <2>1. ASSUME ~torn', NEW s \in DOMAIN c.contents PROVE Len(storage'[s]) = Len(c.contents[s])
    <3>1. s \in {c.binding[a].owner : a \in Rolled}
      BY <2>1 DEF Good, CheckpointOK
    <3>2. s \in Held(b, c) /\ s \in Storages
      BY <3>1 DEF Held, Good, CheckpointOK, Bindings
    <3>. QED BY <1>1, <2>1, <3>1, <3>2 DEF Good, CheckpointOK
  <2>. QED BY <2>1 DEF Good, CheckpointOK
<1>6. torn' => KeptWillFit(binding, storage, checkpoint)'
  <2> SUFFICES ASSUME torn', NEW a \in Kept, ~\E x \in Rolled : c.binding[x].owner = b[a].owner
               PROVE  Inside(b[a], Len(storage'[b[a].owner]))
    BY <1>1 DEF Good, KeptWillFit
  <2>1. b[a].owner \in Held(b, c) /\ b[a].owner \in Storages
    BY KeptAreArrays DEF Held, Good, Bindings
  <2>. QED BY <1>1, <2>1 DEF Good, KeptWillFit
<1>. QED BY <1>3, <1>4, <1>5, <1>6 DEF IInv

-------------------------------------------------------------------------------
(* The contents of an array, and what the operations make of them.           *)

LEMMA ContentsOfArray ==
    ASSUME IInv, ~torn, NEW a \in Arrays
    PROVE  /\ Owner(a) \in Storages
           /\ Size(a) \in Nat
           /\ binding[a].offset \in Nat
           /\ binding[a].offset + Size(a) <= Len(storage[Owner(a)])
           /\ Len(storage[Owner(a)]) \in 0..MaxLen
           /\ Contents(a) \in Seq(Val)
           /\ Len(Contents(a)) = Size(a)
<1>1. /\ binding[a] \in Bindings
      /\ storage[Owner(a)] \in Seq(Val) /\ Len(storage[Owner(a)]) <= MaxLen
      /\ Inside(binding[a], Len(storage[Owner(a)]))
  BY DEF IInv, TypeOK, WindowsInBounds, Owner, Bindings, Arrangements
<1>2. Len(storage[Owner(a)]) \in Nat
  BY <1>1
<1>3. binding[a].offset \in Nat /\ binding[a].length \in Nat /\ Owner(a) \in Storages
  BY <1>1, BoundsAreNat DEF Bindings, Owner
<1>4. Size(a) \in Nat /\ binding[a].offset + Size(a) <= Len(storage[Owner(a)])
  BY <1>1, <1>2, <1>3 DEF Inside, Size
<1>. DEFINE s == storage[Owner(a)]  m == binding[a].offset + 1  n == binding[a].offset + Size(a)
<1>5. SubSeq(s, m, n) \in Seq(Val) /\ Len(SubSeq(s, m, n)) = Size(a)
  <2>1. m \in 1..Len(s) + 1 /\ n \in m - 1..Len(s) /\ s \in Seq(Val)
    BY <1>1, <1>2, <1>3, <1>4
  <2>2. Len(SubSeq(s, m, n)) = n - m + 1
    <3> HIDE DEF s, m, n
    <3>. QED BY <2>1, SubSeqProperties
  <2>3. SubSeq(s, m, n) \in Seq(Val)
    <3> HIDE DEF s, m, n
    <3>. QED BY <2>1, SubSeqProperties
  <2>4. n - m + 1 = Size(a)
    BY <1>3, <1>4
  <2>. QED BY <2>2, <2>3, <2>4
<1>. QED BY <1>1, <1>2, <1>3, <1>4, <1>5, BoundsAreNat DEF Contents

(* Fresh: what the array is bound to held nothing before. *)
LEMMA FreshGood ==
    ASSUME IInv, ~torn, torn' = torn, NEW a \in Arrays, NEW s \in Seq(Val), Fresh(a, s)
    PROVE  IInv'
<1>1. PICK n \in Free :
        Becomes([binding EXCEPT ![a] = Whole(n)], [storage EXCEPT ![n] = s], checkpoint)
  BY DEF Fresh
<1>. DEFINE b == [binding EXCEPT ![a] = Whole(n)]  st == [storage EXCEPT ![n] = s]
<1>2. Good(binding, storage, checkpoint, torn)
  BY InvariantIsGood
<1>3. n \in Storages /\ n \notin Held(binding, checkpoint)
  BY DEF Free
<1>4. st \in [Storages -> Seq(Val)]
  BY <1>2, <1>3 DEF Good
<1>5. b \in [Arrays -> Bindings]
  <2>1. Whole(n) \in Bindings
    BY <1>3, BoundsAreNat DEF Whole, Bindings
  <2>. QED BY <2>1, <1>2 DEF Good
<1>6. ASSUME NEW x \in Arrays PROVE Inside(b[x], Len(st[b[x].owner]))
  <2>1. CASE x = a
    BY <1>2, <2>1 DEF Inside, Whole, Good
  <2>2. CASE x # a
    <3>1. b[x] = binding[x] /\ binding[x].owner # n
      BY <1>2, <1>3, <2>2 DEF Held, Good
    <3>. QED BY <1>2, <1>3, <3>1 DEF Good, Bindings
  <2>. QED BY <2>1, <2>2
<1>7. CheckpointOK(st, checkpoint, torn)
  <2>1. checkpoint.taken => \A x \in Rolled : checkpoint.binding[x].owner # n
    BY <1>3 DEF Held
  <2>. QED BY <1>2, <1>3, <2>1 DEF Good, CheckpointOK, Bindings
<1>8. \A x \in Held(b, checkpoint) : Len(st[x]) <= MaxLen
  <2> SUFFICES ASSUME NEW x \in Held(b, checkpoint) PROVE Len(st[x]) <= MaxLen
    OBVIOUS
  <2>1. x \in Storages
    BY <1>2, <1>5 DEF Held, Bindings, Good, CheckpointOK
  <2>2. storage'[x] = st[x]
    BY <1>1, <2>1 DEF Becomes
  <2>. QED BY <2>1, <2>2 DEF Fresh, WithinBounds
<1>9. Good(b, st, checkpoint, torn')
  BY <1>2, <1>4, <1>5, <1>6, <1>7, <1>8 DEF Good
<1>. QED BY <1>1, <1>9, BecomesGood

(* A storage that nothing else refers to may change its length. *)
LEMMA InPlaceGood ==
    ASSUME IInv, ~torn, torn' = torn, NEW a \in Arrays, NEW s \in Seq(Val), Unique(a), InPlace(a, s)
    PROVE  IInv'
<1>. DEFINE o == Owner(a)  b == [binding EXCEPT ![a] = Whole(Owner(a))]  st == [storage EXCEPT ![Owner(a)] = s]
<1>1. Becomes(b, st, checkpoint)
  BY DEF InPlace
<1>2. Good(binding, storage, checkpoint, torn)
  BY InvariantIsGood
<1>3. o \in Storages
  BY <1>2 DEF Good, Bindings, Owner
<1>4. st \in [Storages -> Seq(Val)]
  BY <1>2, <1>3 DEF Good
<1>5. b \in [Arrays -> Bindings]
  <2>1. Whole(o) \in Bindings
    BY <1>3, BoundsAreNat DEF Whole, Bindings
  <2>. QED BY <2>1, <1>2 DEF Good
<1>6. ASSUME NEW x \in Arrays PROVE Inside(b[x], Len(st[b[x].owner]))
  <2>1. CASE x = a
    BY <1>2, <2>1 DEF Inside, Whole, Good
  <2>2. CASE x # a
    <3>1. b[x] = binding[x] /\ binding[x].owner # o
      BY <1>2, <2>2 DEF Unique, Owner, Good
    <3>. QED BY <1>2, <1>3, <3>1 DEF Good, Bindings
  <2>. QED BY <2>1, <2>2
<1>7. CheckpointOK(st, checkpoint, torn)
  BY <1>2, <1>3 DEF Good, CheckpointOK, Unique, Bindings
<1>8. \A x \in Held(b, checkpoint) : Len(st[x]) <= MaxLen
  <2> SUFFICES ASSUME NEW x \in Held(b, checkpoint) PROVE Len(st[x]) <= MaxLen
    OBVIOUS
  <2>1. x \in Storages
    BY <1>2, <1>5 DEF Held, Bindings, Good, CheckpointOK
  <2>2. storage'[x] = st[x]
    BY <1>1, <2>1 DEF Becomes
  <2>. QED BY <2>1, <2>2 DEF InPlace, WithinBounds
<1>9. Good(b, st, checkpoint, torn')
  BY <1>2, <1>4, <1>5, <1>6, <1>7, <1>8 DEF Good
<1>. QED BY <1>1, <1>9, BecomesGood

LEMMA StructuralGood ==
    ASSUME IInv, ~torn, torn' = torn, NEW a \in Arrays, NEW s \in Seq(Val), Structural(a, s)
    PROVE  IInv'
BY FreshGood, InPlaceGood DEF Structural

(* Writes change no length. *)
LEMMA WriteAllGood ==
    ASSUME IInv, ~torn, torn' = torn, NEW a \in Arrays, NEW s \in Seq(Val), WriteAll(a, s)
    PROVE  IInv'
<1>. DEFINE o == Owner(a)
            from == binding[a].offset
            new == [i \in DOMAIN storage[o] |-> IF i \in from + 1..from + Len(s) THEN s[i - from] ELSE storage[o][i]]
            st == [storage EXCEPT ![o] = new]
<1>1. Becomes(binding, st, checkpoint)
  BY DEF WriteAll
<1>2. Good(binding, storage, checkpoint, torn)
  BY InvariantIsGood
<1>3. o \in Storages /\ from \in Nat /\ storage[o] \in Seq(Val)
  BY <1>2, ContentsOfArray DEF Good
<1>4. new \in Seq(Val) /\ Len(new) = Len(storage[o])
  <2>1. \A i \in 1..Len(storage[o]) : new[i] \in Val
    <3> SUFFICES ASSUME NEW i \in 1..Len(storage[o]) PROVE new[i] \in Val
      OBVIOUS
    <3>1. CASE i \in from + 1..from + Len(s)
      <4>1. i - from \in 1..Len(s)
        BY <1>3, <3>1
      <4>2. s[i - from] \in Val
        BY <4>1
      <4>. QED BY <3>1, <4>2, <1>3
    <3>2. CASE i \notin from + 1..from + Len(s)
      BY <1>3, <3>2
    <3>. QED BY <3>1, <3>2
  <2>2. new = [i \in 1..Len(storage[o]) |-> new[i]] /\ Len(storage[o]) \in Nat
    BY <1>3
  <2> HIDE DEF new
  <2>. QED BY <2>1, <2>2, IsASeq
<1> HIDE DEF new
<1>5. st \in [Storages -> Seq(Val)] /\ \A x \in Storages : Len(st[x]) = Len(storage[x])
  BY <1>2, <1>3, <1>4 DEF Good
<1>6. Held(binding, checkpoint) \subseteq Storages
  BY <1>2 DEF Held, Bindings, Good, CheckpointOK
<1>7. Good(binding, st, checkpoint, torn')
  BY <1>2, <1>5, <1>6 DEF Good, CheckpointOK, Bindings
<1>. QED BY <1>1, <1>7, BecomesGood

(* A window bound within its storage may go to any array. *)
LEMMA BindGood ==
    ASSUME IInv, ~torn, torn' = torn, NEW b \in Arrays, NEW a \in Arrays, NEW w \in Bindings,
           Bind(b, w), w.owner = Owner(a), Inside(w, Len(storage[Owner(a)]))
    PROVE  IInv'
<1>. DEFINE bs == [binding EXCEPT ![b] = w]
<1>1. Good(binding, storage, checkpoint, torn)
  BY InvariantIsGood
<1>2. bs \in [Arrays -> Bindings]
  BY <1>1 DEF Good
<1>3. \A x \in Arrays : Inside(bs[x], Len(storage[bs[x].owner]))
  BY <1>1 DEF Good
<1>4. \A s \in Held(bs, checkpoint) : Len(storage[s]) <= MaxLen
  <2>1. Held(bs, checkpoint) \subseteq Held(binding, checkpoint) \cup {w.owner}
    BY <1>1 DEF Held, Good
  <2>2. w.owner \in Held(binding, checkpoint)
    BY DEF Held, Owner
  <2>. QED BY <1>1, <2>1, <2>2 DEF Good
<1>5. Good(bs, storage, checkpoint, torn')
  BY <1>1, <1>2, <1>3, <1>4 DEF Good
<1>. QED BY <1>5, BecomesGood DEF Bind

LEMMA SliceGood ==
    ASSUME IInv, ~torn, torn' = torn, NEW a \in Arrays, NEW b \in Arrays,
           NEW to \in 0..Size(a), NEW from \in 0..to, Slice(b, a, from, to)
    PROVE  IInv'
<1>. DEFINE w == [owner |-> Owner(a), offset |-> binding[a].offset + from, length |-> to - from, window |-> TRUE]
<1>1. /\ Owner(a) \in Storages /\ Size(a) \in Nat /\ binding[a].offset \in Nat
      /\ binding[a].offset + Size(a) <= Len(storage[Owner(a)])
      /\ Len(storage[Owner(a)]) \in 0..MaxLen
  BY ContentsOfArray
<1>2. w.offset \in Nat /\ w.length \in Nat /\ w.offset + w.length <= Len(storage[Owner(a)])
  BY <1>1
<1>3. w.offset \in 0..MaxLen /\ w.length \in 0..MaxLen
  BY <1>1, <1>2, BoundsAreNat
<1>4. w \in Bindings /\ Inside(w, Len(storage[Owner(a)]))
  BY <1>1, <1>2, <1>3 DEF Bindings, Inside
<1>. QED BY <1>4, BindGood DEF Slice

LEMMA AssignGood ==
    ASSUME IInv, ~torn, torn' = torn, NEW a \in Arrays, NEW b \in Arrays, Assign(b, a)
    PROVE  IInv'
<1>1. binding[a] \in Bindings /\ Inside(binding[a], Len(storage[Owner(a)]))
  BY DEF IInv, TypeOK, WindowsInBounds
<1>2. CASE binding[a].window
  BY <1>1, <1>2, BindGood DEF Assign, Owner
<1>3. CASE ~binding[a].window
  BY <1>3, FreshGood, ContentsOfArray DEF Assign
<1>. QED BY <1>2, <1>3
-------------------------------------------------------------------------------
(* Contents the operations make: sequences of values again.                  *)

LEMMA EditsAreSequences ==
    ASSUME NEW s \in Seq(Val)
    PROVE  /\ \A v \in Val : Append(s, v) \in Seq(Val)
           /\ \A i \in 1..Len(s) + 1, v \in Val : InsertAt(s, i, v) \in Seq(Val)
           /\ \A i \in 1..Len(s) : RemoveAt(s, i) \in Seq(Val)
           /\ \A i \in 1..Len(s), v \in Val : [s EXCEPT ![i] = v] \in Seq(Val)
           /\ \A n \in 0..Len(s) : SubSeq(s, 1, n) \in Seq(Val)
<1>1. ASSUME NEW i \in 1..Len(s) + 1, NEW v \in Val PROVE InsertAt(s, i, v) \in Seq(Val)
  <2>1. SubSeq(s, 1, i - 1) \in Seq(Val) /\ SubSeq(s, i, Len(s)) \in Seq(Val)
    BY SubSeqProperties
  <2>. QED BY <2>1, ConcatProperties DEF InsertAt
<1>2. ASSUME NEW i \in 1..Len(s) PROVE RemoveAt(s, i) \in Seq(Val)
  <2>1. SubSeq(s, 1, i - 1) \in Seq(Val) /\ SubSeq(s, i + 1, Len(s)) \in Seq(Val)
    BY SubSeqProperties
  <2>. QED BY <2>1, ConcatProperties DEF RemoveAt
<1>3. \A i \in 1..Len(s), v \in Val : [s EXCEPT ![i] = v] \in Seq(Val)
  BY ExceptSeq
<1>4. \A n \in 0..Len(s) : SubSeq(s, 1, n) \in Seq(Val)
  BY SubSeqProperties
<1>. QED BY <1>1, <1>2, <1>3, <1>4

LEMMA ScriptGood == IInv /\ Script => IInv'
<1> SUFFICES ASSUME IInv, Script PROVE IInv'
  OBVIOUS
<1>1. ~torn /\ torn' = torn
  BY DEF Script
<1>2. PICK a \in Arrays :
        \/ New(a) \/ ReverseElements(a) \/ Sort(a) \/ Clear(a) \/ StructuralThrows(a)
        \/ \E b \in Arrays : Assign(b, a) \/ Copy(b, a) \/ Concat(a, b)
        \/ \E b \in Arrays : \E to \in 0..Size(a) : \E from \in 0..to : Slice(b, a, from, to)
        \/ \E v \in Val :
            \/ Push(a, v)
            \/ \E i \in 1..Size(a) : Set(a, i, v)
            \/ \E i \in 1..Size(a) + 1 : Insert(a, i, v)
            \/ \E to \in 1..Size(a) : \E from \in 0..to - 1 : Fill(a, from, to, v)
        \/ \E i \in 1..Size(a) : RemoveElement(a, i)
  BY DEF Script
<1>3. Contents(a) \in Seq(Val) /\ Len(Contents(a)) = Size(a) /\ Size(a) \in Nat
  BY <1>1, ContentsOfArray
<1>4. ASSUME UNCHANGED <<storage, binding, checkpoint>> PROVE IInv'
  BY <1>1, <1>4 DEF IInv, TypeOK, WindowsInBounds, HeldStoragesKeepLength, Owner
<1>5. CASE New(a)
  <2>1. <<>> \in Seq(Val)
    OBVIOUS
  <2>. QED BY <1>1, <1>5, <2>1, FreshGood DEF New
<1>6. CASE ReverseElements(a)
  <2>1. Reverse(Contents(a)) \in Seq(Val)
    <3>1. \A i \in 1..Size(a) : Contents(a)[(Size(a) - i) + 1] \in Val
      BY <1>3
    <3>. QED BY <1>3, <3>1, IsASeq DEF Reverse
  <2>. QED BY <1>1, <1>6, <2>1, WriteAllGood DEF ReverseElements
<1>7. CASE Sort(a)
  <2>1. PICK p \in [1..Size(a) -> 1..Size(a)] :
            WriteAll(a, [i \in 1..Size(a) |-> Contents(a)[p[i]]])
    BY <1>7 DEF Sort
  <2>2. \A i \in 1..Size(a) : Contents(a)[p[i]] \in Val
    BY <1>3
  <2>3. [i \in 1..Size(a) |-> Contents(a)[p[i]]] \in Seq(Val)
    BY <1>3, <2>2, IsASeq
  <2>. QED BY <1>1, <2>1, <2>3, WriteAllGood
<1>8. CASE Clear(a)
  <2>1. <<>> \in Seq(Val)
    OBVIOUS
  <2>. QED BY <1>1, <1>4, <1>8, <2>1, StructuralGood DEF Clear
<1>9. CASE StructuralThrows(a)
  BY <1>1, <1>3, <1>9, StructuralGood DEF StructuralThrows
<1>10. ASSUME NEW b \in Arrays, Assign(b, a) PROVE IInv'
  BY <1>1, <1>10, AssignGood
<1>11. ASSUME NEW b \in Arrays, Copy(b, a) PROVE IInv'
  BY <1>1, <1>3, <1>11, FreshGood DEF Copy
<1>12. ASSUME NEW b \in Arrays, Concat(a, b) PROVE IInv'
  <2>1. Contents(b) \in Seq(Val)
    BY <1>1, ContentsOfArray
  <2>2. Contents(a) \o Contents(b) \in Seq(Val)
    BY <1>3, <2>1, ConcatProperties
  <2>. QED BY <1>1, <1>4, <1>12, <2>2, StructuralGood DEF Concat
<1>13. ASSUME NEW b \in Arrays, NEW to \in 0..Size(a), NEW from \in 0..to, Slice(b, a, from, to) PROVE IInv'
  BY <1>1, <1>13, SliceGood
<1>14. ASSUME NEW v \in Val, Push(a, v) PROVE IInv'
  BY <1>1, <1>3, <1>14, StructuralGood, EditsAreSequences DEF Push
<1>15. ASSUME NEW v \in Val, NEW i \in 1..Size(a), Set(a, i, v) PROVE IInv'
  BY <1>1, <1>3, <1>15, WriteAllGood, EditsAreSequences DEF Set
<1>16. ASSUME NEW v \in Val, NEW i \in 1..Size(a) + 1, Insert(a, i, v) PROVE IInv'
  BY <1>1, <1>3, <1>16, StructuralGood, EditsAreSequences DEF Insert
<1>17. ASSUME NEW v \in Val, NEW to \in 1..Size(a), NEW from \in 0..to - 1, Fill(a, from, to, v) PROVE IInv'
  <2>1. \A i \in 1..Size(a) : (IF i \in from + 1..to THEN v ELSE Contents(a)[i]) \in Val
    BY <1>3
  <2>2. [i \in 1..Size(a) |-> IF i \in from + 1..to THEN v ELSE Contents(a)[i]] \in Seq(Val)
    BY <1>3, <2>1, IsASeq
  <2>. QED BY <1>1, <1>17, <2>2, WriteAllGood DEF Fill
<1>18. ASSUME NEW i \in 1..Size(a), RemoveElement(a, i) PROVE IInv'
  BY <1>1, <1>3, <1>18, StructuralGood, EditsAreSequences DEF RemoveElement
<1>. QED BY <1>2, <1>5, <1>6, <1>7, <1>8, <1>9, <1>10, <1>11, <1>12, <1>13, <1>14, <1>15, <1>16, <1>17, <1>18

-------------------------------------------------------------------------------
(* The hooks.                                                                *)

LEMMA SnapshotGood == IInv /\ Snapshot => IInv'
<1> SUFFICES ASSUME IInv, Snapshot PROVE IInv'
  OBVIOUS
<1>. DEFINE c == [taken |-> TRUE,
                  binding |-> [a \in Rolled |-> binding[a]],
                  contents |-> [s \in {Owner(a) : a \in Rolled} |-> storage[s]]]
<1>1. ~torn /\ torn' = torn /\ Becomes(binding, storage, c)
  BY DEF Snapshot
<1>2. Good(binding, storage, checkpoint, torn)
  BY InvariantIsGood
<1>3. Rolled \subseteq Arrays
  BY DEF Rolled
<1>4. {c.binding[a].owner : a \in Rolled} = {Owner(a) : a \in Rolled}
  BY DEF Owner
<1>5. \A s \in {Owner(a) : a \in Rolled} : s \in Storages /\ storage[s] \in Arrangements
  BY <1>3 DEF Owner, IInv, TypeOK, Bindings
<1>6. CheckpointOK(storage, c, torn)
  <2>1. c.binding \in [Rolled -> Bindings]
    BY <1>2, <1>3 DEF Good
  <2>2. c.contents \in [{c.binding[a].owner : a \in Rolled} -> Arrangements]
    BY <1>4, <1>5
  <2>3. \A a \in Rolled : Inside(c.binding[a], Len(c.contents[c.binding[a].owner]))
    BY <1>1, <1>2, <1>3 DEF Good, Owner
  <2>4. \A s \in {c.binding[a].owner : a \in Rolled} : Len(storage[s]) = Len(c.contents[s])
    BY <1>4
  <2>. QED BY <2>1, <2>2, <2>3, <2>4 DEF CheckpointOK
<1>7. \A s \in Held(binding, c) : Len(storage[s]) <= MaxLen
  <2>1. Held(binding, c) \subseteq Held(binding, checkpoint)
    BY <1>3 DEF Held
  <2>. QED BY <1>2, <2>1 DEF Good
<1>8. Good(binding, storage, c, torn')
  BY <1>1, <1>2, <1>6, <1>7 DEF Good
<1>. QED BY <1>1, <1>8, BecomesGood

LEMMA RestoreGood == IInv /\ Restore => IInv'
<1> SUFFICES ASSUME IInv, Restore PROVE IInv'
  OBVIOUS
<1>. DEFINE b == Rebound(Rolled)  st == Refilled(Rolled)  c == checkpoint
<1>1. c.taken /\ ~torn' /\ Becomes(b, st, c)
  BY DEF Restore
<1>2. Good(binding, storage, c, torn)
  BY InvariantIsGood
<1>3. \A s \in Storages : (\E a \in Rolled : c.binding[a].owner = s) => c.contents[s] \in Arrangements
  BY <1>1, <1>2 DEF Good, CheckpointOK
<1>4. st \in [Storages -> Seq(Val)]
  BY <1>2, <1>3 DEF Refilled, Good, Arrangements
<1>5. b \in [Arrays -> Bindings]
  BY <1>1, <1>2 DEF Rebound, Good, CheckpointOK
<1>6. ASSUME NEW a \in Arrays PROVE Inside(b[a], Len(st[b[a].owner]))
  <2>1. CASE a \in Rolled
    <3>1. b[a] = c.binding[a] /\ c.binding[a].owner \in Storages
      BY <1>1, <1>2, <2>1 DEF Rebound, Good, CheckpointOK, Bindings
    <3>2. st[c.binding[a].owner] = c.contents[c.binding[a].owner]
      BY <2>1, <3>1 DEF Refilled
    <3>. QED BY <1>1, <1>2, <2>1, <3>1, <3>2 DEF Good, CheckpointOK
  <2>2. CASE a \notin Rolled
    <3>1. b[a] = binding[a] /\ binding[a].owner \in Storages /\ a \in Kept
      BY <1>2, <2>2 DEF Rebound, Good, Bindings, Rolled
    <3>2. CASE \E x \in Rolled : c.binding[x].owner = binding[a].owner
      <4>1. st[binding[a].owner] = c.contents[binding[a].owner]
        BY <3>1, <3>2 DEF Refilled
      <4>2. CASE torn
        BY <1>2, <3>1, <3>2, <4>1, <4>2 DEF Good, KeptWillFit
      <4>3. CASE ~torn
        <5>1. Len(c.contents[binding[a].owner]) = Len(storage[binding[a].owner])
          BY <1>1, <1>2, <3>2, <4>3 DEF Good, CheckpointOK
        <5>. QED BY <1>2, <3>1, <4>1, <4>3, <5>1 DEF Good
      <4>. QED BY <4>2, <4>3, <1>2 DEF Good
    <3>3. CASE ~\E x \in Rolled : c.binding[x].owner = binding[a].owner
      <4>1. st[binding[a].owner] = storage[binding[a].owner]
        BY <3>1, <3>3 DEF Refilled
      <4>. QED BY <1>2, <3>1, <3>3, <4>1 DEF Good, KeptWillFit
    <3>. QED BY <3>2, <3>3
  <2>. QED BY <2>1, <2>2
<1>7. CheckpointOK(st, c, FALSE)
  <2>1. \A s \in {c.binding[a].owner : a \in Rolled} : st[s] = c.contents[s]
    BY <1>1, <1>2 DEF Refilled, Good, CheckpointOK, Bindings
  <2>. QED BY <1>2, <2>1 DEF Good, CheckpointOK
<1>8. \A s \in Held(b, c) : Len(st[s]) <= MaxLen
  <2> SUFFICES ASSUME NEW s \in Held(b, c) PROVE Len(st[s]) <= MaxLen
    OBVIOUS
  <2>1. s \in Storages
    BY <1>1, <1>2, <1>5 DEF Held, Good, CheckpointOK, Bindings
  <2>2. CASE \E x \in Rolled : c.binding[x].owner = s
    BY <1>3, <2>1, <2>2 DEF Refilled, Arrangements
  <2>3. CASE ~\E x \in Rolled : c.binding[x].owner = s
    <3>1. st[s] = storage[s] /\ s \in Held(binding, c)
      BY <2>1, <2>3 DEF Refilled, Held, Rebound
    <3>. QED BY <1>2, <3>1 DEF Good
  <2>. QED BY <2>2, <2>3
<1>9. CheckpointOK(st, c, torn')
  BY <1>1, <1>7 DEF CheckpointOK
<1>10. Good(b, st, c, torn')
  <2>1. \A a \in Arrays : Inside(b[a], Len(st[b[a].owner]))
    BY <1>6
  <2>2. torn' \in BOOLEAN /\ (torn' => KeptWillFit(b, st, c))
    BY <1>1, <1>2 DEF Restore
  <2>. HIDE DEF b, st, c
  <2>. QED BY <1>4, <1>5, <1>8, <1>9, <2>1, <2>2 DEF Good
<1>. QED BY <1>1, <1>10, BecomesGood

(* A restore that throws leaves part of the arrays rebound and one of them part
   filled; what it did not rebind will fit once a restore goes through. *)
LEMMA RestoreThrowsGood == IInv /\ RestoreThrows => IInv'
<1> SUFFICES ASSUME IInv, RestoreThrows PROVE IInv'
  OBVIOUS
<1>. DEFINE c == checkpoint
<1>1. c.taken /\ torn' = TRUE
  BY DEF RestoreThrows
<1>2. Good(binding, storage, c, torn)
  BY InvariantIsGood
<1>3. PICK done \in SUBSET Rolled :
        \E x \in Rolled \ done : \E n \in 0..Len(c.contents[c.binding[x].owner]) :
            Becomes(Rebound(done \cup {x}),
                    [Refilled(done) EXCEPT ![c.binding[x].owner] =
                        SubSeq(c.contents[c.binding[x].owner], 1, n)],
                    c)
  BY DEF RestoreThrows
<1>4. PICK x \in Rolled \ done :
        \E n \in 0..Len(c.contents[c.binding[x].owner]) :
            Becomes(Rebound(done \cup {x}),
                    [Refilled(done) EXCEPT ![c.binding[x].owner] =
                        SubSeq(c.contents[c.binding[x].owner], 1, n)],
                    c)
  BY <1>3
<1>5. PICK n \in 0..Len(c.contents[c.binding[x].owner]) :
            Becomes(Rebound(done \cup {x}),
                    [Refilled(done) EXCEPT ![c.binding[x].owner] =
                        SubSeq(c.contents[c.binding[x].owner], 1, n)],
                    c)
  BY <1>4
<1>. DEFINE o == c.binding[x].owner
            part == SubSeq(c.contents[o], 1, n)
            b == Rebound(done \cup {x})
            st == [Refilled(done) EXCEPT ![o] = part]
<1>6. \A a \in Rolled : c.binding[a] \in Bindings /\ c.binding[a].owner \in Storages
                        /\ c.contents[c.binding[a].owner] \in Arrangements
  BY <1>1, <1>2 DEF Good, CheckpointOK, Bindings
<1>7. part \in Seq(Val) /\ Len(part) <= MaxLen
  <2>1. c.contents[o] \in Seq(Val) /\ Len(c.contents[o]) <= MaxLen
    BY <1>6 DEF Arrangements
  <2>2. part \in Seq(Val) /\ Len(part) = n
    BY <2>1, SubSeqProperties
  <2>3. Len(c.contents[o]) \in Nat
    BY <2>1, LenProperties
  <2>. QED BY <2>1, <2>2, <2>3, BoundsAreNat
<1>8. Refilled(done) \in [Storages -> Seq(Val)]
  BY <1>2, <1>6 DEF Refilled, Good, Arrangements
<1>9. st \in [Storages -> Seq(Val)]
  BY <1>7, <1>8
<1>10. b \in [Arrays -> Bindings]
  BY <1>2, <1>6 DEF Rebound, Good
<1>11. \A s \in Storages : (~\E a \in Rolled : c.binding[a].owner = s) => st[s] = storage[s]
  BY <1>8 DEF Refilled
<1>12. \A s \in Held(b, c) : Len(st[s]) <= MaxLen
  <2> SUFFICES ASSUME NEW s \in Held(b, c) PROVE Len(st[s]) <= MaxLen
    OBVIOUS
  <2>1. s \in Storages
    BY <1>6, <1>10 DEF Held, Bindings
  <2>2. CASE s = o
    BY <1>7, <1>8, <2>1, <2>2
  <2>3. CASE s # o /\ \E a \in done : c.binding[a].owner = s
    BY <1>6, <1>8, <2>1, <2>3 DEF Refilled, Arrangements
  <2>4. CASE s # o /\ ~\E a \in done : c.binding[a].owner = s
    <3>1. st[s] = storage[s]
      BY <1>8, <2>1, <2>4 DEF Refilled
    <3>2. s \in Held(binding, c)
      BY <1>1, <2>4 DEF Held, Rebound
    <3>. QED BY <1>2, <3>1, <3>2 DEF Good
  <2>. QED BY <2>2, <2>3, <2>4
<1>13. CheckpointOK(st, c, torn')
  BY <1>1, <1>2 DEF Good, CheckpointOK
<1>14. KeptWillFit(b, st, c)
  <2> SUFFICES ASSUME NEW k \in Kept
               PROVE  LET s == b[k].owner IN
                      Inside(b[k], Len(IF \E a \in Rolled : c.binding[a].owner = s THEN c.contents[s] ELSE st[s]))
    BY <1>1 DEF KeptWillFit
  <2>1. b[k] = binding[k] /\ k \in Arrays /\ binding[k].owner \in Storages
    BY <1>2, KeptAreArrays DEF Rebound, Rolled, Good, Bindings
  <2>2. CASE torn
    BY <1>2, <1>11, <2>1, <2>2 DEF Good, KeptWillFit
  <2>3. CASE ~torn
    <3>1. Inside(binding[k], Len(storage[binding[k].owner]))
      BY <1>2, <2>1, <2>3 DEF Good
    <3>2. CASE \E a \in Rolled : c.binding[a].owner = binding[k].owner
      <4>1. Len(c.contents[binding[k].owner]) = Len(storage[binding[k].owner])
        BY <1>1, <1>2, <2>3, <3>2 DEF Good, CheckpointOK
      <4>. QED BY <2>1, <3>1, <3>2, <4>1
    <3>3. CASE ~\E a \in Rolled : c.binding[a].owner = binding[k].owner
      BY <1>11, <2>1, <3>1, <3>3
    <3>. QED BY <3>2, <3>3
  <2>. QED BY <1>2, <2>2, <2>3 DEF Good
<1>15. Good(b, st, c, torn')
  <2>. HIDE DEF b, st, c
  <2>. QED BY <1>1, <1>9, <1>10, <1>12, <1>13, <1>14 DEF Good
<1>. QED BY <1>5, <1>15, BecomesGood

(* A new run, and construction: an empty storage of its own for every array. *)
LEMMA PrepareRunGood == IInv /\ PrepareRun => IInv'
<1> SUFFICES ASSUME PrepareRun PROVE IInv'
  OBVIOUS
<1>. DEFINE st == [s \in Storages |-> <<>>]
<1>1. PICK b \in [Arrays -> {Whole(s) : s \in Storages}] : torn' = FALSE /\ Becomes(b, st, NoCheckpoint)
  BY DEF PrepareRun
<1>2. \A s \in Storages : Whole(s) \in Bindings /\ ~Whole(s).window /\ Whole(s).offset = 0
  BY BoundsAreNat DEF Whole, Bindings
<1>3. <<>> \in Seq(Val) /\ Len(<<>>) = 0
  OBVIOUS
<1>4. b \in [Arrays -> Bindings] /\ \A a \in Arrays : ~b[a].window /\ b[a].offset = 0 /\ b[a].owner \in Storages
  BY <1>2 DEF Bindings
<1>5. Good(b, st, NoCheckpoint, torn')
  <2>1. st \in [Storages -> Seq(Val)] /\ \A s \in Storages : Len(st[s]) = 0
    BY <1>3
  <2>2. CheckpointOK(st, NoCheckpoint, torn')
    BY DEF CheckpointOK, NoCheckpoint
  <2>3. Held(b, NoCheckpoint) \subseteq Storages
    BY <1>4 DEF Held, NoCheckpoint
  <2>4. \A a \in Arrays : Inside(b[a], Len(st[b[a].owner]))
    BY <1>4 DEF Inside
  <2>5. \A s \in Held(b, NoCheckpoint) : Len(st[s]) <= MaxLen
    BY <2>1, <2>3, BoundsAreNat
  <2>6. torn' = FALSE
    BY <1>1
  <2>. HIDE DEF st
  <2>. QED BY <1>4, <2>1, <2>2, <2>4, <2>5, <2>6 DEF Good
<1>. QED BY <1>1, <1>5, BecomesGood

LEMMA InitGood == Init => IInv
<1> SUFFICES ASSUME Init PROVE IInv
  OBVIOUS
<1>1. \A s \in Storages : Whole(s) \in Bindings /\ ~Whole(s).window /\ Whole(s).offset = 0
  BY BoundsAreNat DEF Whole, Bindings
<1>2. <<>> \in Arrangements /\ Len(<<>>) = 0
  BY BoundsAreNat DEF Arrangements
<1>3. binding \in [Arrays -> Bindings] /\ \A a \in Arrays : ~binding[a].window /\ binding[a].offset = 0
  BY <1>1 DEF Init
<1>4. TypeOK
  BY <1>2, <1>3 DEF Init, TypeOK, NoCheckpoint
<1>. QED BY <1>3, <1>4 DEF Init, IInv, WindowsInBounds, HeldStoragesKeepLength, NoCheckpoint, Inside

LEMMA Inductive == IInv /\ [Next]_vars => IInv'
<1> SUFFICES ASSUME IInv, [Next]_vars PROVE IInv'
  OBVIOUS
<1>1. CASE UNCHANGED vars
  BY <1>1 DEF vars, IInv, TypeOK, WindowsInBounds, HeldStoragesKeepLength, KeptWillFit, Owner
<1>. QED BY <1>1, ScriptGood, SnapshotGood, RestoreGood, RestoreThrowsGood, PrepareRunGood DEF Next

LEMMA InvariantHolds == Spec => []IInv
BY InitGood, Inductive, PTL DEF Spec

-------------------------------------------------------------------------------
(* Every array and every storage keeps its type: offsets and lengths are the
   model's, and the checkpoint holds a copy for each storage it refers to. *)
THEOREM TypeCorrect == Spec => []TypeOK
<1>1. IInv => TypeOK
  BY DEF IInv
<1>. QED BY <1>1, InvariantHolds, PTL

(* No sequence of slices, structural edits, checkpoints, rollbacks and rollbacks
   that throw part-way leaves a window reaching past the end of its storage. *)
THEOREM WindowsStayInBounds == Spec => []WindowsInBounds
<1>1. IInv => WindowsInBounds
  BY DEF IInv
<1>. QED BY <1>1, InvariantHolds, PTL

(* A storage the checkpoint refers to never changes length until a restore. *)
THEOREM HeldStoragesAlwaysKeepLength == Spec => []HeldStoragesKeepLength
<1>1. IInv => HeldStoragesKeepLength
  BY DEF IInv
<1>. QED BY <1>1, InvariantHolds, PTL
-------------------------------------------------------------------------------
(* The arrays as sequences of shared elements: the refinement.               *)

Length(x, st) == IF x.window THEN x.length ELSE Len(st[x.owner])

(* Binding x lies within the storage it refers to. *)
Fits(x, st) ==
    /\ x \in Bindings
    /\ x.owner \in DOMAIN st
    /\ st[x.owner] \in Arrangements
    /\ Inside(x, Len(st[x.owner]))

(* Where the storage of binding x holds its element i. *)
Position(x, i) == x.offset + i

(* The elements of binding x. *)
View(x, st) == ViewOf(x, Len(st[x.owner]))

LEMMA ArraysFit ==
    IInv /\ ~torn => \A a \in Arrays : Fits(binding[a], storage) /\ Owner(a) \in Storages
BY DEF IInv, TypeOK, WindowsInBounds, Fits, Owner, Bindings

LEMMA ArraysStillFit ==
    IInv' /\ ~torn' => \A a \in Arrays : Fits(binding'[a], storage') /\ binding'[a].owner \in Storages
BY DEF IInv, TypeOK, WindowsInBounds, Fits, Owner, Bindings

LEMMA SavedFit ==
    IInv /\ checkpoint.taken =>
        \A a \in Rolled : /\ Fits(checkpoint.binding[a], checkpoint.contents)
                          /\ checkpoint.binding[a].owner \in Storages
BY DEF IInv, TypeOK, HeldStoragesKeepLength, Fits, Bindings

LEMMA ValueAt ==
    ASSUME NEW st, NEW s \in DOMAIN st, NEW i \in 1..MaxLen
    PROVE  /\ <<s, i>> \in DOMAIN ValuesIn(st) <=> i <= Len(st[s])
           /\ i <= Len(st[s]) => ValuesIn(st)[<<s, i>>] = st[s][i]
BY DEF ValuesIn, ElementsIn

(* The elements of a binding that fits are positions of its storage that exist. *)
LEMMA ViewOfFitting ==
    ASSUME NEW x, NEW st, Fits(x, st)
    PROVE  /\ Length(x, st) \in Nat
           /\ DOMAIN View(x, st) = 1..Length(x, st)
           /\ \A i \in 1..Length(x, st) :
                /\ View(x, st)[i] = <<x.owner, Position(x, i)>>
                /\ Position(x, i) \in 1..MaxLen
                /\ Position(x, i) \in 1..Len(st[x.owner])
                /\ <<x.owner, Position(x, i)>> \in DOMAIN ValuesIn(st)
                /\ ValuesIn(st)[<<x.owner, Position(x, i)>>] = st[x.owner][Position(x, i)]
<1>1. /\ x.offset \in Nat /\ x.length \in Nat /\ x.window \in BOOLEAN
      /\ st[x.owner] \in Seq(Val) /\ Len(st[x.owner]) \in Nat /\ Len(st[x.owner]) <= MaxLen
  BY BoundsAreNat DEF Fits, Bindings, Arrangements
<1>2. Length(x, st) \in Nat /\ x.offset + Length(x, st) <= Len(st[x.owner])
  BY <1>1 DEF Length, Inside, Fits
<1>3. View(x, st) = [i \in 1..Length(x, st) |-> <<x.owner, Position(x, i)>>]
  BY DEF View, ViewOf, Length, ElementAt, Position
<1>4. ASSUME NEW i \in 1..Length(x, st)
      PROVE  /\ Position(x, i) \in 1..MaxLen
             /\ Position(x, i) \in 1..Len(st[x.owner])
  BY <1>1, <1>2, BoundsAreNat DEF Position
<1>5. ASSUME NEW i \in 1..Length(x, st)
      PROVE  /\ <<x.owner, Position(x, i)>> \in DOMAIN ValuesIn(st)
             /\ ValuesIn(st)[<<x.owner, Position(x, i)>>] = st[x.owner][Position(x, i)]
  BY <1>4, ValueAt DEF Fits
<1>. QED BY <1>2, <1>3, <1>4, <1>5

(* The parts of it that are needed most. *)
LEMMA ViewShape ==
    ASSUME NEW x, NEW st, Fits(x, st)
    PROVE  /\ DOMAIN View(x, st) = 1..Length(x, st)
           /\ \A i \in 1..Length(x, st) : View(x, st)[i] = <<x.owner, Position(x, i)>>
BY ViewOfFitting

LEMMA ViewValues ==
    ASSUME NEW x, NEW st, Fits(x, st), NEW i \in 1..Length(x, st)
    PROVE  ValuesIn(st)[View(x, st)[i]] = st[x.owner][Position(x, i)]
<1>1. View(x, st)[i] = <<x.owner, Position(x, i)>>
  BY ViewShape
<1>2. ValuesIn(st)[<<x.owner, Position(x, i)>>] = st[x.owner][Position(x, i)]
  BY ViewOfFitting
<1>. QED BY <1>1, <1>2

(* What the elements of an array hold is its contents. *)
LEMMA SeenContents ==
    ASSUME IInv, ~torn, NEW a \in Arrays
    PROVE  Elements!Contents(a) = Contents(a)
<1>. DEFINE x == binding[a]  v == View(x, storage)
<1>1. Fits(x, storage)
  BY ArraysFit
<1>2. Elements!Contents(a) = [i \in DOMAIN v |-> ValuesIn(storage)[v[i]]]
  BY DEF Elements!Contents, View
<1>3. Length(x, storage) = Size(a)
  BY DEF Length, Size, Owner
<1>4. DOMAIN v = 1..Size(a) /\ \A i \in 1..Size(a) : ValuesIn(storage)[v[i]] = storage[x.owner][Position(x, i)]
  BY <1>1, <1>3, ViewShape, ViewValues
<1>5. Elements!Contents(a) = [i \in 1..Size(a) |-> storage[x.owner][Position(x, i)]]
  <2>. HIDE DEF v
  <2>. QED BY <1>2, <1>4
<1>6. /\ storage[x.owner] \in Seq(Val) /\ Len(storage[x.owner]) \in Nat
      /\ Size(a) \in Nat /\ x.offset \in Nat
      /\ x.offset + Size(a) <= Len(storage[x.owner])
  BY <1>1, ContentsOfArray DEF Fits, Arrangements, Owner
<1>7. Contents(a) \in Seq(Val) /\ Len(Contents(a)) = Size(a)
  BY ContentsOfArray
<1>8. \A i \in 1..Size(a) : Contents(a)[i] = storage[x.owner][Position(x, i)]
  <2>. DEFINE s == storage[x.owner]  m == x.offset + 1  n == x.offset + Size(a)
  <2>1. m \in 1..Len(s) + 1 /\ n \in m - 1..Len(s) /\ s \in Seq(Val)
    BY <1>6
  <2>4. n - m + 1 = Size(a)
    BY <1>6
  <2>2. \A i \in 1..n - m + 1 : SubSeq(s, m, n)[i] = s[m + i - 1]
    <3>. HIDE DEF s, m, n
    <3>. QED BY <2>1, SubSeqProperties
  <2>3. \A i \in 1..Size(a) : m + i - 1 = Position(x, i)
    BY <1>6 DEF Position
  <2>. QED BY <2>2, <2>3, <2>4 DEF Contents, Owner
<1>. QED BY <1>5, <1>7, <1>8

(* The elements that arrays are made of, and those of the checkpoint. *)
LEMMA ElementsOfArrays ==
    ASSUME IInv, ~torn, NEW S \in SUBSET Arrays
    PROVE  \A e \in Elements!ElementsOf(S) : \E x \in S : \E i \in 1..Size(x) :
              e = <<Owner(x), Position(binding[x], i)>>
<1>. SUFFICES ASSUME NEW e \in Elements!ElementsOf(S)
              PROVE  \E x \in S : \E i \in 1..Size(x) : e = <<Owner(x), Position(binding[x], i)>>
  OBVIOUS
<1>1. PICK x \in S : \E i \in DOMAIN View(binding[x], storage) :
                        e = View(binding[x], storage)[i]
  BY DEF Elements!ElementsOf, Elements!Range, View
<1>2. Fits(binding[x], storage) /\ Length(binding[x], storage) = Size(x)
  BY ArraysFit DEF Length, Size, Owner
<1>. DEFINE v == View(binding[x], storage)
<1>3. DOMAIN v = 1..Size(x) /\ \A i \in 1..Size(x) : v[i] = <<Owner(x), Position(binding[x], i)>>
  BY <1>2, ViewShape DEF Owner
<1>4. \E i \in 1..Size(x) : e = <<Owner(x), Position(binding[x], i)>>
  <2>. HIDE DEF v
  <2>. QED BY <1>1, <1>3 DEF v
<1>. QED BY <1>4

LEMMA ElementsOfCheckpoint ==
    ASSUME IInv, checkpoint.taken
    PROVE  \A e \in Elements!SavedElements : \E x \in Rolled :
              \E i \in 1..Length(checkpoint.binding[x], checkpoint.contents) :
                e = <<checkpoint.binding[x].owner, Position(checkpoint.binding[x], i)>>
<1>. DEFINE c == checkpoint
<1>. SUFFICES ASSUME NEW e \in Elements!SavedElements
              PROVE  \E x \in Rolled : \E i \in 1..Length(c.binding[x], c.contents) :
                        e = <<c.binding[x].owner, Position(c.binding[x], i)>>
  OBVIOUS
<1>1. SavedElements.view = [x \in Rolled |-> View(c.binding[x], c.contents)]
  BY DEF SavedElements, View
<1>2. PICK x \in Rolled : \E i \in DOMAIN View(c.binding[x], c.contents) : e = View(c.binding[x], c.contents)[i]
  <2>. QED BY <1>1 DEF Elements!SavedElements, Elements!Range
<1>3. Fits(c.binding[x], c.contents)
  BY SavedFit
<1>4. /\ DOMAIN View(c.binding[x], c.contents) = 1..Length(c.binding[x], c.contents)
      /\ \A i \in 1..Length(c.binding[x], c.contents) :
            View(c.binding[x], c.contents)[i] = <<c.binding[x].owner, Position(c.binding[x], i)>>
  BY <1>3, ViewShape
<1>5. \E i \in 1..Length(c.binding[x], c.contents) : e = <<c.binding[x].owner, Position(c.binding[x], i)>>
  <2>. QED BY <1>2, <1>4
<1>. QED BY <1>5

(* Giving an array a storage that nothing else refers to is giving it elements
   of its own. *)
LEMMA OwnStorageRefines ==
    ASSUME IInv, IInv', ~torn, ~torn',
           NEW a \in Arrays, NEW s \in Seq(Val), NEW n \in Storages,
           s \in Elements!Renewals(a),
           \A x \in Arrays \ {a} : Owner(x) # n,
           checkpoint.taken => \A x \in Rolled : checkpoint.binding[x].owner # n,
           Becomes([binding EXCEPT ![a] = Whole(n)], [storage EXCEPT ![n] = s], checkpoint)
    PROVE  Elements!Renew(a)
<1>. DEFINE others == Arrays \ {a}
<1>1. /\ binding \in [Arrays -> Bindings] /\ storage \in [Storages -> Arrangements]
      /\ checkpoint' = checkpoint
  BY DEF IInv, TypeOK, Becomes
<1>2. /\ binding'[a] = Whole(n)
      /\ storage'[n] = s
      /\ \A x \in others : binding'[x] = binding[x] /\ storage'[Owner(x)] = storage[Owner(x)]
  <2>1. binding' = [binding EXCEPT ![a] = Whole(n)]
    BY DEF Becomes
  <2>2. binding'[a] = Whole(n) /\ \A x \in others : binding'[x] = binding[x]
    BY <1>1, <2>1
  <2>3. \A x \in Arrays : binding'[x].owner \in Held(binding', checkpoint)
    BY DEF Held
  <2>4. \A t \in Held(binding', checkpoint) : t \in Storages => storage'[t] = [storage EXCEPT ![n] = s][t]
    BY <2>1 DEF Becomes
  <2>5. storage'[n] = s
    BY <1>1, <2>2, <2>3, <2>4 DEF Whole
  <2>6. ASSUME NEW x \in others PROVE storage'[Owner(x)] = storage[Owner(x)]
    BY <1>1, <2>2, <2>3, <2>4, ArraysFit DEF Owner
  <2>. QED BY <2>2, <2>5, <2>6
<1>3. Fits(Whole(n), storage')
  BY <1>2, ArraysStillFit
<1>4. Length(Whole(n), storage') = Len(s) /\ Whole(n).owner = n /\ Whole(n).offset = 0 /\ Len(s) \in Nat
  BY <1>2 DEF Length, Whole
<1>5. /\ DOMAIN View(Whole(n), storage') = 1..Len(s)
      /\ \A i \in 1..Len(s) : /\ View(Whole(n), storage')[i] = <<n, i>>
                              /\ ValuesIn(storage')[View(Whole(n), storage')[i]] = s[i]
  <2>1. /\ DOMAIN View(Whole(n), storage') = 1..Len(s)
        /\ \A i \in 1..Len(s) :
              /\ View(Whole(n), storage')[i] = <<n, Position(Whole(n), i)>>
              /\ ValuesIn(storage')[<<n, Position(Whole(n), i)>>] = storage'[n][Position(Whole(n), i)]
    BY <1>3, <1>4, ViewOfFitting
  <2>2. \A i \in 1..Len(s) : Position(Whole(n), i) = i
    BY <1>4 DEF Position
  <2>. QED BY <1>2, <2>1, <2>2
<1>6. \A x \in others : View(binding'[x], storage') = View(binding[x], storage)
  BY <1>2 DEF Owner, View
<1>7. \A x \in others : [y \in Arrays |-> View(binding[y], storage)]'[x] = [y \in Arrays |-> View(binding[y], storage)][x]
  BY <1>6
<1>8. Elements!Range(View(Whole(n), storage')) \subseteq {<<n, i>> : i \in 1..Len(s)}
  BY <1>5 DEF Elements!Range
<1>9. {<<n, i>> : i \in 1..Len(s)} \cap Elements!ElementsOf(others) = {}
  BY ElementsOfArrays
<1>10. SavedElements.taken => {<<n, i>> : i \in 1..Len(s)} \cap Elements!SavedElements = {}
  <2>1. SavedElements.taken <=> checkpoint.taken
    BY DEF IInv, TypeOK, SavedElements, NoCheckpoint
  <2>. QED BY <2>1, ElementsOfCheckpoint
<1>11. Elements!IsInjective(View(Whole(n), storage'))
  BY <1>5 DEF Elements!IsInjective
<1>12. Elements!Keeps(Elements!ElementsOf(others))
  <2>. SUFFICES ASSUME NEW e \in Elements!ElementsOf(others)
                PROVE  ValuesIn(storage')[e] = ValuesIn(storage)[e]
    BY DEF Elements!Keeps
  <2>1. PICK x \in others : \E i \in 1..Size(x) : e = <<Owner(x), Position(binding[x], i)>>
    BY ElementsOfArrays
  <2>2. PICK i \in 1..Size(x) : e = <<Owner(x), Position(binding[x], i)>>
    BY <2>1
  <2>3. Fits(binding[x], storage) /\ Fits(binding[x], storage')
    BY <1>2, ArraysFit, ArraysStillFit
  <2>4. Length(binding[x], storage) = Size(x) /\ Length(binding[x], storage') = Size(x)
    BY <1>2 DEF Length, Size, Owner
  <2>5. ValuesIn(storage)[e] = storage[Owner(x)][Position(binding[x], i)]
    BY <2>2, <2>3, <2>4, ViewOfFitting DEF Owner
  <2>6. ValuesIn(storage')[e] = storage'[Owner(x)][Position(binding[x], i)]
    BY <2>2, <2>3, <2>4, ViewOfFitting DEF Owner
  <2>. QED BY <1>2, <2>5, <2>6
<1>13. (Elements!Contents(a))' = s
  <2>1. (Elements!Contents(a))' =
          [i \in DOMAIN View(Whole(n), storage') |-> ValuesIn(storage')[View(Whole(n), storage')[i]]]
    BY <1>2 DEF Elements!Contents, View
  <2>. QED BY <1>4, <1>5, <2>1
<1>14. [y \in Arrays |-> View(binding[y], storage)]'[a] = View(Whole(n), storage')
  BY <1>2
<1>. HIDE DEF others
<1>. QED BY <1>7, <1>8, <1>9, <1>10, <1>11, <1>12, <1>13, <1>14 DEF Elements!Renew, others, View

(* What the operations give an array is what the abstract one may come to hold. *)
LEMMA RenewedContents ==
    ASSUME IInv, ~torn, NEW a \in Arrays
    PROVE  LET old == Contents(a) IN
           /\ <<>> \in Elements!Renewals(a)
           /\ \A b \in Arrays : Contents(b) \in Elements!Renewals(a)
           /\ \A b \in Arrays : old \o Contents(b) \in Elements!Renewals(a)
           /\ \A v \in Val : Append(old, v) \in Elements!Renewals(a)
           /\ \A i \in 1..Size(a) + 1, v \in Val : InsertAt(old, i, v) \in Elements!Renewals(a)
           /\ \A i \in 1..Size(a) : RemoveAt(old, i) \in Elements!Renewals(a)
<1>. DEFINE old == Contents(a)
<1>1. \A b \in Arrays : Elements!Contents(b) = Contents(b)
  BY SeenContents
<1>2. old \in Seq(Val) /\ Len(old) = Size(a) /\ Size(a) \in Nat /\ DOMAIN old = 1..Size(a)
  <2>1. old \in Seq(Val) /\ Len(old) = Size(a) /\ Size(a) \in Nat
    BY ContentsOfArray
  <2>. HIDE DEF old
  <2>. QED BY <2>1
<1>3. \A i, v : Elements!InsertAt(old, i, v) = InsertAt(old, i, v)
  BY DEF InsertAt, Elements!InsertAt
<1>4. \A i : Elements!RemoveAt(old, i) = RemoveAt(old, i)
  BY DEF RemoveAt, Elements!RemoveAt
<1>5. Elements!Renewals(a) =
        {<<>>} \cup {Elements!Contents(b) : b \in Arrays}
               \cup {old \o Elements!Contents(b) : b \in Arrays}
               \cup {Elements!InsertAt(old, i, v) : i \in 1..Len(old) + 1, v \in Val}
               \cup {Elements!RemoveAt(old, i) : i \in DOMAIN old}
  <2>1. Elements!Contents(a) = old
    BY <1>1
  <2>. HIDE DEF old
  <2>. QED BY <2>1 DEF Elements!Renewals
<1>6. \A v \in Val : Append(old, v) = InsertAt(old, Len(old) + 1, v)
  <2>. HIDE DEF old
  <2>. QED BY <1>2, AppendIsInsert
<1>. HIDE DEF old
<1>7. \A v \in Val : Append(old, v) \in Elements!Renewals(a)
  <2>. SUFFICES ASSUME NEW v \in Val PROVE Elements!InsertAt(old, Len(old) + 1, v) \in Elements!Renewals(a)
    BY <1>3, <1>6
  <2>1. Len(old) + 1 \in 1..Len(old) + 1
    BY <1>2
  <2>. QED BY <1>5, <2>1
<1>8. \A i \in 1..Size(a) + 1, v \in Val : InsertAt(old, i, v) \in Elements!Renewals(a)
  BY <1>2, <1>3, <1>5
<1>9. \A i \in 1..Size(a) : RemoveAt(old, i) \in Elements!Renewals(a)
  BY <1>2, <1>4, <1>5
<1>10. /\ <<>> \in Elements!Renewals(a)
       /\ \A b \in Arrays : Contents(b) \in Elements!Renewals(a)
       /\ \A b \in Arrays : old \o Contents(b) \in Elements!Renewals(a)
  BY <1>1, <1>5
<1>. QED BY <1>7, <1>8, <1>9, <1>10 DEF old

LEMMA FreshRefines ==
    ASSUME IInv, IInv', ~torn, ~torn', NEW a \in Arrays, NEW s \in Seq(Val),
           s \in Elements!Renewals(a), Fresh(a, s)
    PROVE  Elements!Renew(a)
<1>1. PICK n \in Free :
        Becomes([binding EXCEPT ![a] = Whole(n)], [storage EXCEPT ![n] = s], checkpoint)
  BY DEF Fresh
<1>2. n \in Storages /\ n \notin Held(binding, checkpoint)
  BY DEF Free
<1>3. \A x \in Arrays \ {a} : Owner(x) # n
  BY <1>2 DEF Held, Owner
<1>4. checkpoint.taken => \A x \in Rolled : checkpoint.binding[x].owner # n
  BY <1>2 DEF Held
<1>. QED BY <1>1, <1>2, <1>3, <1>4, OwnStorageRefines

(* structural_write() leaves alone whatever shares the storage. *)
LEMMA StructuralRefines ==
    ASSUME IInv, IInv', ~torn, ~torn', NEW a \in Arrays, NEW s \in Seq(Val),
           s \in Elements!Renewals(a), Structural(a, s)
    PROVE  Elements!Renew(a)
<1>1. CASE Fresh(a, s)
  BY <1>1, FreshRefines
<1>2. CASE Unique(a) /\ InPlace(a, s)
  <2>1. Owner(a) \in Storages
    BY ArraysFit
  <2>2. Becomes([binding EXCEPT ![a] = Whole(Owner(a))], [storage EXCEPT ![Owner(a)] = s], checkpoint)
    BY <1>2 DEF InPlace
  <2>3. \A x \in Arrays \ {a} : Owner(x) # Owner(a)
    BY <1>2 DEF Unique
  <2>4. checkpoint.taken => \A x \in Rolled : checkpoint.binding[x].owner # Owner(a)
    BY <1>2 DEF Unique
  <2>. QED BY <2>1, <2>2, <2>3, <2>4, OwnStorageRefines
<1>. QED BY <1>1, <1>2 DEF Structural

(* Elements of a storage that is left alone keep their values. *)
LEMMA StorageLeftAlone ==
    ASSUME NEW x, NEW st, NEW new, Fits(x, st), Fits(x, new), new[x.owner] = st[x.owner]
    PROVE  /\ View(x, new) = View(x, st)
           /\ \A e \in Elements!Range(View(x, st)) : ValuesIn(new)[e] = ValuesIn(st)[e]
<1>1. View(x, new) = View(x, st) /\ Length(x, new) = Length(x, st)
  BY DEF View, Length
<1>2. ASSUME NEW i \in 1..Length(x, st)
      PROVE  ValuesIn(new)[View(x, st)[i]] = ValuesIn(st)[View(x, st)[i]]
  BY <1>1, ViewValues
<1>. QED BY <1>1, <1>2, ViewShape DEF Elements!Range

LEMMA ViewIsSequence ==
    ASSUME NEW x, NEW st, Fits(x, st), x.owner \in Storages
    PROVE  /\ View(x, st) \in Seq(Storages \X Nat)
           /\ Len(View(x, st)) = Length(x, st)
<1>. DEFINE v == View(x, st)  n == Length(x, st)
<1>1. n \in Nat
  BY ViewOfFitting
<1>2. DOMAIN v = 1..n /\ \A i \in 1..n : v[i] = <<x.owner, Position(x, i)>>
  BY ViewShape
<1>3. \A i \in 1..n : Position(x, i) \in Nat
  <2>1. \A i \in 1..n : Position(x, i) \in 1..MaxLen
    BY ViewOfFitting
  <2>. HIDE DEF n
  <2>. QED BY <2>1, BoundsAreNat
<1>4. v = [i \in 1..n |-> v[i]]
  BY <1>2 DEF View, ViewOf
<1>. HIDE DEF v, n
<1>5. ASSUME NEW i \in 1..n PROVE v[i] \in Storages \X Nat
  <2>1. Position(x, i) \in Nat /\ v[i] = <<x.owner, Position(x, i)>>
    BY <1>2, <1>3
  <2>2. <<x.owner, Position(x, i)>> \in Storages \X Nat
    BY <2>1
  <2>. QED BY <2>1, <2>2
<1>6. [i \in 1..n |-> v[i]] \in Seq(Storages \X Nat)
  BY <1>1, <1>5, IsASeq
<1>7. v \in Seq(Storages \X Nat) /\ DOMAIN v = 1..n
  BY <1>2, <1>4, <1>6
<1>8. Len(v) = n
  BY <1>1, <1>7, LenProperties
<1>. QED BY <1>7, <1>8 DEF v, n

(* A window is a part of the elements of its source. *)
LEMMA WindowRefines ==
    ASSUME IInv, IInv', ~torn, ~torn', NEW a \in Arrays, NEW b \in Arrays,
           NEW to \in 0..Size(a), NEW from \in 0..to,
           Bind(b, [owner |-> Owner(a), offset |-> binding[a].offset + from,
                    length |-> to - from, window |-> TRUE])
    PROVE  Elements!Slice(b, a, from, to)
<1>. DEFINE w == [owner |-> Owner(a), offset |-> binding[a].offset + from,
                  length |-> to - from, window |-> TRUE]
            old == View(binding[a], storage)
<1>1. binding \in [Arrays -> Bindings] /\ storage \in [Storages -> Arrangements]
  BY DEF IInv, TypeOK
<1>2. binding' = [binding EXCEPT ![b] = w] /\ binding'[b] = w
  BY <1>1 DEF Bind, Becomes
<1>3. \A x \in Arrays : binding'[x].owner \in Storages /\ storage'[binding'[x].owner] = storage[binding'[x].owner]
  <2>1. \A x \in Arrays : binding'[x].owner \in Held(binding', checkpoint) /\ binding'[x].owner \in Storages
    BY ArraysStillFit DEF Held
  <2>. QED BY <1>2, <2>1 DEF Bind, Becomes
<1>4. \A x \in Arrays : Fits(binding'[x], storage') /\ Fits(binding'[x], storage)
  BY <1>1, <1>3, ArraysStillFit DEF Fits
<1>5. \A x \in Arrays : /\ View(binding'[x], storage') = View(binding'[x], storage)
                        /\ \A e \in Elements!Range(View(binding'[x], storage)) :
                              ValuesIn(storage')[e] = ValuesIn(storage)[e]
  BY <1>3, <1>4, StorageLeftAlone
<1>6. /\ Fits(binding[a], storage) /\ Owner(a) \in Storages
      /\ Length(binding[a], storage) = Size(a) /\ Size(a) \in Nat /\ binding[a].offset \in Nat
  BY ArraysFit, ContentsOfArray DEF Length, Size, Owner
<1>7. old \in Seq(Storages \X Nat) /\ Len(old) = Size(a)
  BY <1>6, ViewIsSequence DEF Owner
<1>8. SubSeq(old, from + 1, to) = View(w, storage)
  <2>1. Fits(w, storage) /\ w.owner \in Storages /\ Length(w, storage) = to - from
    BY <1>2, <1>4, <1>6 DEF Length
  <2>2. View(w, storage) \in Seq(Storages \X Nat) /\ Len(View(w, storage)) = to - from
    BY <2>1, ViewIsSequence
  <2>3. from + 1 \in 1..Len(old) + 1 /\ to \in (from + 1) - 1..Len(old)
    BY <1>6, <1>7
  <2>. DEFINE m == from + 1
  <2>4. /\ SubSeq(old, m, to) \in Seq(Storages \X Nat)
        /\ Len(SubSeq(old, m, to)) = to - m + 1
        /\ \A i \in 1..to - m + 1 : SubSeq(old, m, to)[i] = old[m + i - 1]
    <3>. HIDE DEF old, m
    <3>. QED BY <1>7, <2>3, SubSeqProperties DEF m
  <2>5. to - m + 1 = to - from /\ to - from \in Nat
    OBVIOUS
  <2>6. ASSUME NEW i \in 1..to - from PROVE SubSeq(old, m, to)[i] = View(w, storage)[i]
    <3>1. m + i - 1 = from + i /\ from + i \in 1..Size(a)
      BY <1>6
    <3>2. old[from + i] = <<Owner(a), Position(binding[a], from + i)>>
      BY <1>6, <3>1, ViewShape DEF Owner
    <3>3. View(w, storage)[i] = <<w.owner, Position(w, i)>>
      <4>. HIDE DEF w
      <4>. QED BY <2>1, ViewShape
    <3>4. Position(binding[a], from + i) = Position(w, i)
      BY <1>6 DEF Position
    <3>. HIDE DEF old, m
    <3>. QED BY <2>4, <2>5, <3>1, <3>2, <3>3, <3>4
  <2>. HIDE DEF old, m, w
  <2>. QED BY <2>2, <2>4, <2>5, <2>6 DEF m
<1>9. [x \in Arrays |-> View(binding[x], storage)]' =
        [[x \in Arrays |-> View(binding[x], storage)] EXCEPT ![b] = SubSeq(old, from + 1, to)]
  <2>1. [x \in Arrays |-> View(binding[x], storage)]' = [x \in Arrays |-> View(binding'[x], storage)]
    BY <1>5
  <2>2. \A x \in Arrays : binding'[x] = IF x = b THEN w ELSE binding[x]
    BY <1>1, <1>2
  <2>. HIDE DEF w, old
  <2>. QED BY <1>8, <2>1, <2>2
<1>10. Elements!Keeps(UNION {Elements!Range(View(binding[x], storage)') : x \in Arrays})
  <2>. SUFFICES ASSUME NEW x \in Arrays, NEW e \in Elements!Range(View(binding'[x], storage'))
                PROVE  ValuesIn(storage')[e] = ValuesIn(storage)[e]
    BY DEF Elements!Keeps
  <2>. QED BY <1>5
<1>11. [x \in Arrays |-> View(binding[x], storage)]'[a] = View(binding'[a], storage')
  OBVIOUS
<1>. QED BY <1>9, <1>10 DEF Elements!Slice, View

(* Where a write goes: to the stretch of the storage that the array is. *)
LEMMA WriteRefines ==
    ASSUME IInv, IInv', ~torn, ~torn', NEW a \in Arrays, NEW s \in Seq(Val), Len(s) = Size(a),
           s \in Elements!Rewritings(a), WriteAll(a, s)
    PROVE  Elements!Write(a)
<1>. DEFINE o == Owner(a)
            from == binding[a].offset
            old == storage[o]
            new == [i \in DOMAIN old |-> IF i \in from + 1..from + Len(s) THEN s[i - from] ELSE old[i]]
<1>1. binding' = binding /\ checkpoint' = checkpoint
  BY DEF WriteAll, Becomes
<1>2. /\ o \in Storages /\ from \in Nat /\ Size(a) \in Nat
      /\ old \in Seq(Val) /\ Len(old) \in Nat /\ DOMAIN old = 1..Len(old)
      /\ from + Size(a) <= Len(old)
  BY ContentsOfArray DEF IInv, TypeOK, Arrangements
<1>3. storage \in [Storages -> Arrangements]
  BY DEF IInv, TypeOK
<1>4. \A x \in Arrays : /\ Owner(x) \in Storages
                        /\ storage'[Owner(x)] = IF Owner(x) = o THEN new ELSE storage[Owner(x)]
  <2>1. \A x \in Arrays : Owner(x) \in Held(binding, checkpoint) /\ Owner(x) \in Storages
    BY ArraysFit DEF Held, Owner
  <2>2. \A t \in Held(binding, checkpoint) : t \in Storages => storage'[t] = [storage EXCEPT ![o] = new][t]
    BY DEF WriteAll, Becomes
  <2>. HIDE DEF new
  <2>. QED BY <1>2, <1>3, <2>1, <2>2
<1>5. Len(new) = Len(old)
  <2>1. storage'[o] = new /\ storage'[o] \in Seq(Val)
    BY <1>2, <1>4 DEF IInv, TypeOK, Arrangements
  <2>2. DOMAIN new = 1..Len(old)
    BY <1>2
  <2>3. Len(new) \in Nat /\ DOMAIN new = 1..Len(new)
    <3>. HIDE DEF new, o
    <3>. QED BY <2>1, LenProperties
  <2>. HIDE DEF new, old
  <2>. QED BY <1>2, <2>2, <2>3
<1>6. ASSUME NEW x \in Arrays
      PROVE  /\ Fits(binding[x], storage) /\ Fits(binding[x], storage')
             /\ Length(binding[x], storage') = Length(binding[x], storage)
             /\ View(binding[x], storage') = View(binding[x], storage)
  <2>1. Fits(binding[x], storage) /\ Fits(binding[x], storage')
    BY <1>1, ArraysFit, ArraysStillFit
  <2>2. Len(storage'[binding[x].owner]) = Len(storage[binding[x].owner])
    <3>. HIDE DEF new
    <3>. QED BY <1>4, <1>5 DEF Owner
  <2>. QED BY <2>1, <2>2 DEF Length, View
<1>7. [x \in Arrays |-> View(binding[x], storage)]' = [x \in Arrays |-> View(binding[x], storage)]
  BY <1>1, <1>6
<1>8. Length(binding[a], storage) = Size(a)
  BY DEF Length, Size, Owner
<1>9. ASSUME NEW i \in 1..Size(a)
      PROVE  new[Position(binding[a], i)] = s[i]
  <2>1. from + i \in 1..Len(old) /\ from + i \in from + 1..from + Size(a) /\ (from + i) - from = i
    BY <1>2
  <2>2. new[from + i] = s[(from + i) - from]
    <3>. HIDE DEF old
    <3>. QED BY <1>2, <2>1
  <2>. HIDE DEF new
  <2>. QED BY <2>1, <2>2 DEF Position
<1>10. Elements!Keeps(Elements!ElementsOf(Arrays) \ Elements!Range(View(binding[a], storage)))
  <2>. SUFFICES ASSUME NEW e \in Elements!ElementsOf(Arrays), e \notin Elements!Range(View(binding[a], storage))
                PROVE  ValuesIn(storage')[e] = ValuesIn(storage)[e]
    BY DEF Elements!Keeps
  <2>1. PICK x \in Arrays : \E i \in 1..Size(x) : e = <<Owner(x), Position(binding[x], i)>>
    BY ElementsOfArrays
  <2>2. PICK i \in 1..Size(x) : e = <<Owner(x), Position(binding[x], i)>>
    BY <2>1
  <2>. DEFINE p == Position(binding[x], i)
  <2>3. i \in 1..Length(binding[x], storage) /\ i \in 1..Length(binding[x], storage')
    BY <1>6 DEF Length, Size, Owner
  <2>4. /\ p \in 1..Len(storage[Owner(x)])
        /\ ValuesIn(storage)[<<Owner(x), p>>] = storage[Owner(x)][p]
        /\ ValuesIn(storage')[<<Owner(x), p>>] = storage'[Owner(x)][p]
    BY <1>6, <2>3, ViewOfFitting DEF Owner
  <2>. HIDE DEF p
  <2>5. CASE Owner(x) # o
    <3>. HIDE DEF new
    <3>. QED BY <1>4, <2>2, <2>4, <2>5 DEF p
  <2>6. CASE Owner(x) = o
    <3>1. p \notin from + 1..from + Size(a)
      <4>. SUFFICES ASSUME p \in from + 1..from + Size(a) PROVE FALSE
        OBVIOUS
      <4>. DEFINE j == p - from
      <4>1. j \in 1..Size(a) /\ from + j = p
        BY <1>2
      <4>2. View(binding[a], storage)[j] = <<o, Position(binding[a], j)>>
        BY <1>6, <1>8, <4>1, ViewShape DEF Owner
      <4>3. Position(binding[a], j) = p
        BY <4>1 DEF Position
      <4>4. j \in DOMAIN View(binding[a], storage)
        BY <1>6, <1>8, <4>1, ViewShape
      <4>. HIDE DEF j
      <4>. QED BY <2>2, <2>6, <4>2, <4>3, <4>4 DEF Elements!Range, p
    <3>2. p \in DOMAIN old
      BY <1>2, <2>4, <2>6
    <3>3. new[p] = old[p]
      <4>. HIDE DEF old
      <4>. QED BY <3>1, <3>2
    <3>. HIDE DEF new
    <3>. QED BY <1>4, <2>2, <2>4, <2>6, <3>3 DEF p
  <2>. QED BY <2>5, <2>6
<1>11. (Elements!Contents(a))' = s
  <2>. DEFINE v == View(binding[a], storage)
  <2>1. (Elements!Contents(a))' = [i \in DOMAIN v |-> ValuesIn(storage')[v[i]]]
    <3>1. (Elements!Contents(a))' =
            [i \in DOMAIN View(binding'[a], storage') |-> ValuesIn(storage')[View(binding'[a], storage')[i]]]
      BY DEF Elements!Contents, View
    <3>. QED BY <1>1, <1>6, <3>1
  <2>2. DOMAIN v = 1..Size(a)
    BY <1>6, <1>8, ViewShape
  <2>3. ASSUME NEW i \in 1..Size(a) PROVE ValuesIn(storage')[v[i]] = s[i]
    <3>1. i \in 1..Length(binding[a], storage')
      BY <1>6, <1>8
    <3>2. ValuesIn(storage')[View(binding[a], storage')[i]] = storage'[Owner(a)][Position(binding[a], i)]
      BY <1>6, <3>1, ViewValues DEF Owner
    <3>. HIDE DEF new
    <3>. QED BY <1>4, <1>6, <1>9, <3>2
  <2>. HIDE DEF v
  <2>4. (Elements!Contents(a))' = [i \in 1..Size(a) |-> s[i]]
    BY <2>1, <2>2, <2>3
  <2>. QED BY <1>2, <2>4
<1>. QED BY <1>7, <1>10, <1>11 DEF Elements!Write, View

(* A write puts something else in place of the elements, or permutes them. *)
LEMMA RewrittenContents ==
    ASSUME IInv, ~torn, NEW a \in Arrays
    PROVE  LET old == Contents(a)  n == Size(a) IN
           /\ \A i \in 1..n, v \in Val : [old EXCEPT ![i] = v] \in Elements!Rewritings(a)
           /\ \A to \in 1..n : \A from \in 0..to - 1 : \A v \in Val :
                [i \in 1..n |-> IF i \in from + 1..to THEN v ELSE old[i]] \in Elements!Rewritings(a)
           /\ \A p \in [1..n -> 1..n] :
                IsInjective(p) => [i \in 1..n |-> old[p[i]]] \in Elements!Rewritings(a)
<1>. DEFINE old == Contents(a)  n == Size(a)
<1>1. DOMAIN old = 1..n /\ n \in Nat
  <2>1. old \in Seq(Val) /\ Len(old) = n /\ n \in Nat
    BY ContentsOfArray
  <2>. HIDE DEF old, n
  <2>. QED BY <2>1
<1>. DEFINE set(i, v) == [old EXCEPT ![i] = v]
            fill(from, to, v) == [i \in DOMAIN old |-> IF i \in from..to THEN v ELSE old[i]]
            moved(p) == [i \in DOMAIN old |-> old[p[i]]]
<1>2. Elements!Rewritings(a) =
        {set(i, v) : i \in DOMAIN old, v \in Val}
          \cup {fill(from, to, v) : from \in DOMAIN old, to \in DOMAIN old, v \in Val}
          \cup {moved(p) : p \in Elements!Bijection(DOMAIN old, DOMAIN old)}
  <2>1. Elements!Contents(a) = old
    BY SeenContents
  <2>. HIDE DEF old
  <2>. QED BY <2>1 DEF Elements!Rewritings
<1>. HIDE DEF set, fill, moved, old, n
<1>3. \A i \in 1..n, v \in Val : set(i, v) \in Elements!Rewritings(a)
  BY <1>1, <1>2
<1>4. ASSUME NEW to \in 1..n, NEW from \in 0..to - 1, NEW v \in Val
      PROVE  [i \in 1..n |-> IF i \in from + 1..to THEN v ELSE old[i]] \in Elements!Rewritings(a)
  <2>1. from + 1 \in 1..n
    BY <1>1
  <2>2. fill(from + 1, to, v) \in Elements!Rewritings(a)
    BY <1>1, <1>2, <2>1
  <2>. QED BY <1>1, <2>2 DEF fill
<1>5. ASSUME NEW p \in [1..n -> 1..n], IsInjective(p)
      PROVE  [i \in 1..n |-> old[p[i]]] \in Elements!Rewritings(a)
  <2>1. p \in Injection(1..n, 1..n)
    BY <1>5 DEF Injection
  <2>2. IsFiniteSet(1..n)
    BY <1>1, FS_Interval
  <2>3. p \in Surjection(1..n, 1..n)
    BY <2>1, <2>2, FS_Injection
  <2>4. p \in Elements!Bijection(1..n, 1..n)
    BY <2>1, <2>3 DEF Injection, Surjection, IsInjective, Elements!Bijection, Elements!Injection,
       Elements!Surjection, Elements!IsInjective
  <2>5. moved(p) \in Elements!Rewritings(a)
    BY <1>1, <1>2, <2>4
  <2>. QED BY <1>1, <2>5 DEF moved
<1>. QED BY <1>3, <1>4, <1>5 DEF old, n, set

(* Script code never touches the checkpoint. *)
LEMMA ScriptFrame == Script => checkpoint' = checkpoint /\ SavedElements' = SavedElements
<1>1. Script => checkpoint' = checkpoint
  <2>1. \A a, s : Fresh(a, s) \/ InPlace(a, s) \/ Structural(a, s) \/ WriteAll(a, s) \/ Bind(a, s)
            => checkpoint' = checkpoint
    BY DEF Structural, Fresh, InPlace, Bind, WriteAll, Becomes
  <2>2. \A a : Sort(a) => checkpoint' = checkpoint
    BY <2>1 DEF Sort
  <2>. QED
    BY <2>1, <2>2
       DEF Script, New, ReverseElements, Clear, StructuralThrows, Assign, Copy, Concat, Slice,
           Push, Set, Insert, Fill, RemoveElement
<1>2. checkpoint' = checkpoint => SavedElements' = SavedElements
  BY DEF SavedElements
<1>. QED BY <1>1, <1>2

(* Every operation of the script is a write, a renewal or a slice. *)
LEMMA ScriptRefines ==
    ASSUME IInv, IInv', Script
    PROVE  Elements!Run \/ UNCHANGED <<storage, binding, checkpoint, torn>>
<1>. DEFINE Runs(a) ==
        \/ Elements!Write(a)
        \/ Elements!Renew(a)
        \/ \E b \in Arrays : \E to \in 0..Size(a) : \E from \in 0..to : Elements!Slice(b, a, from, to)
            Stays == UNCHANGED <<storage, binding, checkpoint>>
<1>1. ~torn /\ torn' = torn /\ ~torn'
  BY DEF Script
<1>2. PICK a \in Arrays :
        \/ New(a) \/ ReverseElements(a) \/ Sort(a) \/ Clear(a) \/ StructuralThrows(a)
        \/ \E b \in Arrays : Assign(b, a) \/ Copy(b, a) \/ Concat(a, b)
        \/ \E b \in Arrays : \E to \in 0..Size(a) : \E from \in 0..to : Slice(b, a, from, to)
        \/ \E v \in Val :
            \/ Push(a, v)
            \/ \E i \in 1..Size(a) : Set(a, i, v)
            \/ \E i \in 1..Size(a) + 1 : Insert(a, i, v)
            \/ \E to \in 1..Size(a) : \E from \in 0..to - 1 : Fill(a, from, to, v)
        \/ \E i \in 1..Size(a) : RemoveElement(a, i)
  BY DEF Script
<1>. DEFINE old == Contents(a)  n == Size(a)
<1>3. old \in Seq(Val) /\ Len(old) = n /\ n \in Nat
  BY <1>1, ContentsOfArray
<1>4. /\ <<>> \in Elements!Renewals(a) /\ <<>> \in Seq(Val)
      /\ old \in Elements!Renewals(a)
      /\ \A b \in Arrays : old \o Contents(b) \in Elements!Renewals(a)
      /\ \A v \in Val : Append(old, v) \in Elements!Renewals(a)
      /\ \A i \in 1..n + 1, v \in Val : InsertAt(old, i, v) \in Elements!Renewals(a)
      /\ \A i \in 1..n : RemoveAt(old, i) \in Elements!Renewals(a)
  BY <1>1, RenewedContents
<1>5. ASSUME New(a) PROVE Elements!Renew(a)
  BY <1>1, <1>4, <1>5, FreshRefines DEF New
<1>6. ASSUME ReverseElements(a) PROVE Elements!Write(a)
  <2>. DEFINE p == [i \in 1..n |-> (n - i) + 1]
  <2>1. p \in [1..n -> 1..n] /\ IsInjective(p)
    <3>1. \A i \in 1..n : (n - i) + 1 \in 1..n
      BY <1>3
    <3>2. p \in [1..n -> 1..n]
      BY <3>1
    <3>3. \A i, j \in 1..n : p[i] = p[j] => i = j
      BY <1>3
    <3>. HIDE DEF n
    <3>. QED BY <3>2, <3>3 DEF IsInjective
  <2>2. Reverse(old) = [i \in 1..n |-> old[p[i]]]
    BY <1>3 DEF Reverse
  <2>3. \A i \in 1..n : old[p[i]] \in Val
    <3>. HIDE DEF old, n, p
    <3>. QED BY <1>3, <2>1
  <2>4. [i \in 1..n |-> old[p[i]]] \in Seq(Val)
    <3>. HIDE DEF old, n, p
    <3>. QED BY <1>3, <2>3, IsASeq
  <2>5. [i \in 1..n |-> old[p[i]]] \in Elements!Rewritings(a)
    <3>. HIDE DEF p
    <3>. QED BY <1>1, <2>1, RewrittenContents
  <2>6. Reverse(old) \in Seq(Val) /\ Reverse(old) \in Elements!Rewritings(a)
    <3>. HIDE DEF p, old, n
    <3>. QED BY <2>2, <2>4, <2>5
  <2>7. Len(Reverse(old)) = n
    <3>. HIDE DEF p, old, n
    <3>. QED BY <1>3, <2>2, <2>4
  <2>. QED BY <1>1, <1>6, <2>6, <2>7, WriteRefines DEF ReverseElements
<1>7. ASSUME Sort(a) PROVE Elements!Write(a)
  <2>1. PICK p \in [1..n -> 1..n] : IsInjective(p) /\ WriteAll(a, [i \in 1..n |-> old[p[i]]])
    BY <1>7 DEF Sort
  <2>. DEFINE s == [i \in 1..n |-> old[p[i]]]
  <2>2. s \in Seq(Val) /\ Len(s) = n
    <3>1. \A i \in 1..n : old[p[i]] \in Val
      BY <1>3
    <3>2. s \in Seq(Val)
      <4>. HIDE DEF old, n
      <4>. QED BY <1>3, <3>1, IsASeq
    <3>. QED BY <1>3, <3>2
  <2>3. s \in Elements!Rewritings(a)
    BY <1>1, <2>1, RewrittenContents
  <2>. QED BY <1>1, <2>1, <2>2, <2>3, WriteRefines
<1>8. ASSUME Clear(a) PROVE Elements!Renew(a) \/ Stays
  BY <1>1, <1>4, <1>8, StructuralRefines DEF Clear
<1>9. ASSUME StructuralThrows(a) PROVE Elements!Renew(a)
  BY <1>1, <1>3, <1>4, <1>9, StructuralRefines DEF StructuralThrows
<1>10. ASSUME NEW b \in Arrays, Assign(b, a) PROVE Elements!Renew(b) \/ Runs(a)
  <2>1. CASE binding[a].window
    <3>1. /\ binding[a] \in Bindings /\ Bind(b, binding[a]) /\ binding[a].window = TRUE
          /\ n = binding[a].length /\ binding[a].offset \in Nat /\ binding[a].owner = Owner(a)
      BY <1>1, <1>10, <2>1, ArraysFit, ContentsOfArray DEF Assign, Fits, Size, Bindings, Owner
    <3>2. binding[a].offset + 0 = binding[a].offset /\ n - 0 = binding[a].length
      BY <1>3, <3>1
    <3>3. binding[a] = [owner |-> Owner(a), offset |-> binding[a].offset + 0,
                        length |-> n - 0, window |-> TRUE]
      <4>. HIDE DEF n
      <4>. QED BY <3>1, <3>2 DEF Bindings
    <3>4. n \in 0..Size(a) /\ 0 \in 0..n
      BY <1>3
    <3>5. Bind(b, [owner |-> Owner(a), offset |-> binding[a].offset + 0,
                   length |-> n - 0, window |-> TRUE])
      <4>. HIDE DEF n
      <4>. QED BY <3>1, <3>3
    <3>6. Elements!Slice(b, a, 0, n)
      <4>. HIDE DEF n
      <4>. QED BY <1>1, <1>10, <3>4, <3>5, WindowRefines
    <3>. QED BY <1>10, <3>4, <3>6
  <2>2. CASE ~binding[a].window
    <3>1. Fresh(b, old) /\ old \in Elements!Renewals(b)
      BY <1>1, <1>10, <2>2, RenewedContents DEF Assign
    <3>. QED BY <1>1, <1>3, <1>10, <3>1, FreshRefines
  <2>. QED BY <2>1, <2>2
<1>11. ASSUME NEW b \in Arrays, Copy(b, a) PROVE Elements!Renew(b)
  <2>1. Fresh(b, old) /\ old \in Elements!Renewals(b)
    BY <1>1, <1>11, RenewedContents DEF Copy
  <2>. QED BY <1>1, <1>3, <1>11, <2>1, FreshRefines
<1>12. ASSUME NEW b \in Arrays, Concat(a, b) PROVE Runs(a) \/ Stays
  <2>1. Contents(b) \in Seq(Val)
    BY <1>1, ContentsOfArray
  <2>2. old \o Contents(b) \in Seq(Val)
    BY <1>3, <2>1, ConcatProperties
  <2>. QED BY <1>1, <1>4, <1>12, <2>2, StructuralRefines DEF Concat
<1>13. ASSUME NEW b \in Arrays, NEW to \in 0..Size(a), NEW from \in 0..to, Slice(b, a, from, to)
       PROVE  Elements!Slice(b, a, from, to)
  BY <1>1, <1>13, WindowRefines DEF Slice
<1>14. ASSUME NEW v \in Val, Push(a, v) PROVE Elements!Renew(a)
  BY <1>1, <1>3, <1>4, <1>14, StructuralRefines, EditsAreSequences DEF Push
<1>15. ASSUME NEW v \in Val, NEW i \in 1..n, Set(a, i, v) PROVE Elements!Write(a)
  <2>1. [old EXCEPT ![i] = v] \in Seq(Val) /\ Len([old EXCEPT ![i] = v]) = n
    <3>. HIDE DEF old, n
    <3>. QED BY <1>3, ExceptSeq
  <2>2. [old EXCEPT ![i] = v] \in Elements!Rewritings(a)
    BY <1>1, RewrittenContents
  <2>. QED BY <1>1, <1>15, <2>1, <2>2, WriteRefines DEF Set
<1>16. ASSUME NEW v \in Val, NEW i \in 1..n + 1, Insert(a, i, v) PROVE Elements!Renew(a)
  BY <1>1, <1>3, <1>4, <1>16, StructuralRefines, EditsAreSequences DEF Insert
<1>17. ASSUME NEW v \in Val, NEW to \in 1..n, NEW from \in 0..to - 1, Fill(a, from, to, v)
       PROVE  Elements!Write(a)
  <2>. DEFINE s == [i \in 1..n |-> IF i \in from + 1..to THEN v ELSE old[i]]
  <2>1. \A i \in 1..n : (IF i \in from + 1..to THEN v ELSE old[i]) \in Val
    BY <1>3
  <2>2. s \in Seq(Val)
    <3>. HIDE DEF old, n
    <3>. QED BY <1>3, <2>1, IsASeq
  <2>3. Len(s) = n
    <3>. HIDE DEF old, n
    <3>. QED BY <1>3, <2>2
  <2>4. s \in Elements!Rewritings(a)
    BY <1>1, RewrittenContents
  <2>. QED BY <1>1, <1>17, <2>2, <2>3, <2>4, WriteRefines DEF Fill
<1>18. ASSUME NEW i \in 1..n, RemoveElement(a, i) PROVE Elements!Renew(a)
  BY <1>1, <1>3, <1>4, <1>18, StructuralRefines, EditsAreSequences DEF RemoveElement
<1>19. Runs(a) \/ (\E b \in Arrays : Elements!Renew(b)) \/ Stays
  <2>. HIDE DEF old, n, Stays
  <2>1. CASE New(a) \/ ReverseElements(a) \/ Sort(a) \/ Clear(a) \/ StructuralThrows(a)
    BY <2>1, <1>5, <1>6, <1>7, <1>8, <1>9
  <2>2. CASE \E b \in Arrays : Assign(b, a) \/ Copy(b, a) \/ Concat(a, b)
    <3>. HIDE DEF Runs
    <3>. QED BY <2>2, <1>10, <1>11, <1>12
  <2>3. CASE \E b \in Arrays : \E to \in 0..n : \E from \in 0..to : Slice(b, a, from, to)
    BY <2>3, <1>13 DEF n
  <2>4. CASE \E v \in Val : \/ Push(a, v)
                            \/ \E i \in 1..n : Set(a, i, v)
                            \/ \E i \in 1..n + 1 : Insert(a, i, v)
                            \/ \E to \in 1..n : \E from \in 0..to - 1 : Fill(a, from, to, v)
    BY <2>4, <1>14, <1>15, <1>16, <1>17
  <2>5. CASE \E i \in 1..n : RemoveElement(a, i)
    BY <2>5, <1>18
  <2>. HIDE DEF Runs
  <2>. QED BY <1>2, <2>1, <2>2, <2>3, <2>4, <2>5 DEF n
<1>20. (\E x \in Arrays : Runs(x)) => Elements!Run
  <2>1. \A x \in Arrays : Len([y \in Arrays |-> View(binding[y], storage)][x]) = Size(x)
    <3>1. \A x \in Arrays : /\ Fits(binding[x], storage) /\ binding[x].owner \in Storages
                            /\ Length(binding[x], storage) = Size(x)
      BY <1>1, ArraysFit DEF Length, Size, Owner
    <3>. QED BY <3>1, ViewIsSequence
  <2>2. SavedElements' = SavedElements
    BY ScriptFrame
  <2>. QED BY <1>1, <2>1, <2>2 DEF Elements!Run, View
<1>. QED BY <1>1, <1>19, <1>20

(* The checkpoint holds elements and their values. *)
LEMMA SavedIsTaken ==
    ASSUME IInv
    PROVE  /\ SavedElements.taken <=> checkpoint.taken
           /\ checkpoint.taken =>
                /\ SavedElements.view = [x \in Rolled |-> View(checkpoint.binding[x], checkpoint.contents)]
                /\ SavedElements.value = ValuesIn(checkpoint.contents)
BY DEF IInv, TypeOK, SavedElements, NoCheckpoint, View

LEMMA SnapshotRefines ==
    ASSUME IInv, IInv', Snapshot
    PROVE  Elements!Take
<1>. DEFINE c == [taken |-> TRUE,
                  binding |-> [a \in Rolled |-> binding[a]],
                  contents |-> [s \in {Owner(a) : a \in Rolled} |-> storage[s]]]
<1>1. ~torn /\ torn' = torn /\ ~torn' /\ binding' = binding /\ checkpoint' = c
  BY DEF Snapshot, Becomes
<1>2. \A x \in Arrays : Fits(binding[x], storage) /\ Fits(binding[x], storage')
  BY <1>1, ArraysFit, ArraysStillFit
<1>3. \A x \in Arrays : storage'[binding[x].owner] = storage[binding[x].owner]
  <2>1. \A x \in Arrays : binding[x].owner \in Held(binding, c) /\ binding[x].owner \in Storages
    BY <1>1, ArraysFit DEF Held, Owner
  <2>. QED BY <2>1 DEF Snapshot, Becomes
<1>4. \A x \in Arrays : /\ View(binding[x], storage') = View(binding[x], storage)
                        /\ \A e \in Elements!Range(View(binding[x], storage)) :
                              ValuesIn(storage')[e] = ValuesIn(storage)[e]
  BY <1>2, <1>3, StorageLeftAlone
<1>5. Rolled \subseteq Arrays /\ Elements!Rolled = Rolled
  BY DEF Rolled, Elements!Rolled
<1>6. ASSUME NEW x \in Rolled
      PROVE  /\ View(binding[x], c.contents) = View(binding[x], storage)
             /\ \A e \in Elements!Range(View(binding[x], storage)) :
                   ValuesIn(c.contents)[e] = ValuesIn(storage)[e]
  <2>1. /\ binding[x].owner \in DOMAIN c.contents
        /\ c.contents[binding[x].owner] = storage[binding[x].owner]
    BY DEF Owner
  <2>2. Fits(binding[x], storage) /\ Fits(binding[x], c.contents)
    <3>. HIDE DEF c
    <3>. QED BY <1>2, <1>5, <2>1 DEF Fits
  <2>. HIDE DEF c
  <2>. QED BY <2>1, <2>2, StorageLeftAlone
<1>7. /\ SavedElements'.taken
      /\ SavedElements'.view = [x \in Rolled |-> View(c.binding[x], c.contents)]
      /\ SavedElements'.value = ValuesIn(c.contents)
  BY <1>1 DEF SavedElements, View
<1>8. SavedElements'.view = [x \in Rolled |-> View(binding[x], storage)]
  <2>1. \A x \in Rolled : c.binding[x] = binding[x]
    OBVIOUS
  <2>. HIDE DEF c
  <2>. QED BY <1>6, <1>7, <2>1
<1>9. [x \in Arrays |-> View(binding[x], storage)]' = [x \in Arrays |-> View(binding[x], storage)]
  BY <1>1, <1>4
<1>10. ASSUME NEW e \in Elements!ElementsOf(Rolled)
       PROVE  SavedElements'.value[e] = ValuesIn(storage)[e]
  <2>1. PICK x \in Rolled : e \in Elements!Range([y \in Arrays |-> View(binding[y], storage)][x])
    BY DEF Elements!ElementsOf, View
  <2>2. [y \in Arrays |-> View(binding[y], storage)][x] = View(binding[x], storage)
    BY <1>5
  <2>3. e \in Elements!Range(View(binding[x], storage))
    BY <2>1, <2>2
  <2>4. ValuesIn(c.contents)[e] = ValuesIn(storage)[e]
    BY <1>6, <2>3
  <2>. HIDE DEF c
  <2>. QED BY <1>7, <2>4
<1>11. Elements!Keeps(Elements!ElementsOf(Arrays))
  BY <1>4 DEF Elements!Keeps, Elements!ElementsOf, View
<1>12. [a \in Elements!Rolled |-> [x \in Arrays |-> View(binding[x], storage)][a]]
         = [x \in Rolled |-> View(binding[x], storage)]
  BY <1>5
<1>. HIDE DEF c
<1>. QED BY <1>1, <1>5, <1>7, <1>8, <1>9, <1>10, <1>11, <1>12 DEF Elements!Take, View

(* A restore gives the rolled-back arrays their elements, and the elements
   their values; what the checkpoint does not hold is left alone. *)
LEMMA RestoreRefines ==
    ASSUME IInv, IInv', Restore
    PROVE  Elements!Restore
<1>. DEFINE c == checkpoint
            held(s) == \E a \in Rolled : c.binding[a].owner = s
<1>1. /\ c.taken /\ torn' = FALSE /\ ~torn' /\ checkpoint' = checkpoint
      /\ binding' = Rebound(Rolled)
  BY DEF Restore, Becomes
<1>2. Rolled \subseteq Arrays /\ Elements!Rolled = Rolled /\ Kept \cap Rolled = {}
  BY DEF Rolled, Elements!Rolled
<1>3. \A x \in Rolled : binding'[x] = c.binding[x]
  BY <1>1, <1>2 DEF Rebound
<1>4. \A x \in Kept : x \in Arrays /\ binding'[x] = binding[x]
  BY <1>1, <1>2, KeptAreArrays DEF Rebound
<1>5. \A s \in Held(binding', c) : s \in Storages => storage'[s] = IF held(s) THEN c.contents[s] ELSE storage[s]
  BY <1>1 DEF Restore, Becomes, Refilled
<1>6. \A x \in Arrays : /\ binding'[x].owner \in Held(binding', c)
                        /\ binding'[x].owner \in Storages
                        /\ Fits(binding'[x], storage')
  BY <1>1, ArraysStillFit DEF Held
<1>7. ASSUME NEW x \in Rolled
      PROVE  /\ View(binding'[x], storage') = View(c.binding[x], c.contents)
             /\ \A e \in Elements!Range(View(c.binding[x], c.contents)) :
                   ValuesIn(storage')[e] = ValuesIn(c.contents)[e]
  <2>1. Fits(c.binding[x], c.contents) /\ Fits(c.binding[x], storage')
    BY <1>1, <1>2, <1>3, <1>6, SavedFit
  <2>2. storage'[c.binding[x].owner] = c.contents[c.binding[x].owner]
    BY <1>2, <1>3, <1>5, <1>6
  <2>. QED BY <1>3, <2>1, <2>2, StorageLeftAlone
<1>8. /\ SavedElements.taken
      /\ SavedElements.view = [x \in Rolled |-> View(c.binding[x], c.contents)]
      /\ SavedElements.value = ValuesIn(c.contents)
  BY <1>1, SavedIsTaken
<1>9. SavedElements' = SavedElements
  BY <1>1 DEF SavedElements
<1>10. \A a \in Elements!Rolled : [x \in Arrays |-> View(binding[x], storage)]'[a] = SavedElements.view[a]
  BY <1>2, <1>7, <1>8
<1>11. \A e \in Elements!SavedElements : ValuesIn(storage')[e] = SavedElements.value[e]
  <2>. SUFFICES ASSUME NEW x \in DOMAIN SavedElements.view, NEW e \in Elements!Range(SavedElements.view[x])
                PROVE  ValuesIn(storage')[e] = SavedElements.value[e]
    BY DEF Elements!SavedElements
  <2>. QED BY <1>7, <1>8
<1>12. ASSUME ~torn, NEW x \in Kept
       PROVE  /\ View(binding'[x], storage') = View(binding[x], storage)
              /\ \A e \in Elements!Range(View(binding[x], storage)) \ DOMAIN ValuesIn(c.contents) :
                    ValuesIn(storage')[e] = ValuesIn(storage)[e]
  <2>. DEFINE o == binding[x].owner
  <2>1. Fits(binding[x], storage) /\ Fits(binding[x], storage') /\ o \in Storages
    BY <1>4, <1>6, <1>12, ArraysFit
  <2>2. CASE ~held(o)
    <3>1. storage'[o] = storage[o]
      BY <1>4, <1>5, <1>6, <2>2
    <3>. QED BY <1>4, <2>1, <3>1, StorageLeftAlone
  <2>3. CASE held(o)
    <3>1. storage'[o] = c.contents[o] /\ o \in DOMAIN c.contents
      BY <1>1, <1>2, <1>4, <1>5, <1>6, <2>3, SavedFit DEF Fits
    <3>2. Len(storage[o]) = Len(c.contents[o])
      BY <1>1, <1>12, <3>1 DEF IInv, HeldStoragesKeepLength
    <3>3. View(binding[x], storage') = View(binding[x], storage)
      BY <3>1, <3>2 DEF View
    <3>4. ASSUME NEW i \in 1..Length(binding[x], storage)
          PROVE  View(binding[x], storage)[i] \in DOMAIN ValuesIn(c.contents)
      <4>1. View(binding[x], storage)[i] = <<o, Position(binding[x], i)>>
        BY <2>1, ViewShape
      <4>2. Position(binding[x], i) \in 1..MaxLen /\ Position(binding[x], i) \in 1..Len(storage[o])
        BY <2>1, ViewOfFitting
      <4>3. Position(binding[x], i) <= Len(c.contents[o])
        BY <3>2, <4>2
      <4>4. <<o, Position(binding[x], i)>> \in DOMAIN ValuesIn(c.contents)
        BY <3>1, <4>2, <4>3, ValueAt
      <4>. QED BY <4>1, <4>4
    <3>5. Elements!Range(View(binding[x], storage)) \subseteq DOMAIN ValuesIn(c.contents)
      BY <2>1, <3>4, ViewShape DEF Elements!Range
    <3>. QED BY <1>4, <3>3, <3>5
  <2>. QED BY <2>2, <2>3
<1>13. ~torn => \A a \in Kept : [x \in Arrays |-> View(binding[x], storage)]'[a]
                                  = [x \in Arrays |-> View(binding[x], storage)][a]
  BY <1>4, <1>12
<1>14. ~torn => Elements!Keeps(Elements!ElementsOf(Kept) \ DOMAIN SavedElements.value)
  <2>. SUFFICES ASSUME ~torn, NEW x \in Kept, NEW e \in Elements!Range(View(binding[x], storage)),
                       e \notin DOMAIN ValuesIn(c.contents)
                PROVE  ValuesIn(storage')[e] = ValuesIn(storage)[e]
    <3>1. SUFFICES ASSUME ~torn, NEW e \in Elements!ElementsOf(Kept), e \notin DOMAIN ValuesIn(c.contents)
                   PROVE  ValuesIn(storage')[e] = ValuesIn(storage)[e]
      <4>. HIDE DEF c, held
      <4>. QED BY <1>8 DEF Elements!Keeps
    <3>2. PICK x \in Kept : e \in Elements!Range(View(binding[x], storage))
      BY <1>4 DEF Elements!ElementsOf, View
    <3>. QED BY <3>1, <3>2
  <2>. QED BY <1>12
<1>. HIDE DEF c, held
<1>. QED BY <1>1, <1>8, <1>9, <1>10, <1>11, <1>13, <1>14 DEF Elements!Restore, View

(* When a restore throws, a varip array that shares nothing with the checkpoint
   is left alone: it is either of another storage, or of no element. *)
LEMMA RestoreThrowsRefines ==
    ASSUME IInv, IInv', RestoreThrows
    PROVE  Elements!RestoreThrows
<1>. DEFINE c == checkpoint
            held(s) == \E a \in Rolled : c.binding[a].owner = s
<1>1. PICK done \in SUBSET Rolled : \E a \in Rolled \ done :
        LET owner == c.binding[a].owner  full == c.contents[owner] IN
        \E n \in 0..Len(full) :
            Becomes(Rebound(done \cup {a}), [Refilled(done) EXCEPT ![owner] = SubSeq(full, 1, n)], c)
  BY DEF RestoreThrows
<1>2. PICK a \in Rolled \ done :
        \E n \in 0..Len(c.contents[c.binding[a].owner]) :
            Becomes(Rebound(done \cup {a}),
                    [Refilled(done) EXCEPT ![c.binding[a].owner] = SubSeq(c.contents[c.binding[a].owner], 1, n)],
                    c)
  BY <1>1
<1>3. PICK n \in 0..Len(c.contents[c.binding[a].owner]) :
        Becomes(Rebound(done \cup {a}),
                [Refilled(done) EXCEPT ![c.binding[a].owner] = SubSeq(c.contents[c.binding[a].owner], 1, n)],
                c)
  BY <1>2
<1>4. /\ c.taken /\ torn' = TRUE /\ checkpoint' = checkpoint
      /\ SavedElements' = SavedElements
      /\ SavedElements.taken /\ SavedElements.value = ValuesIn(c.contents)
  BY <1>3, SavedIsTaken DEF RestoreThrows, Becomes, SavedElements
<1>. DEFINE w == c.binding[a].owner
            part == SubSeq(c.contents[w], 1, n)
<1>5. \A x \in Kept : x \in Arrays /\ binding'[x] = binding[x]
  BY <1>3, KeptAreArrays DEF Becomes, Rebound, Rolled
<1>6. /\ storage' \in [Storages -> Arrangements]
      /\ \A s \in Held(binding', c) : s \in Storages =>
            storage'[s] = IF s = w THEN part
                          ELSE IF \E x \in done : c.binding[x].owner = s THEN c.contents[s]
                          ELSE storage[s]
  <2>1. storage' \in [Storages -> Arrangements]
    BY DEF IInv, TypeOK
  <2>. HIDE DEF part, w
  <2>. QED BY <1>3, <2>1 DEF Becomes, Refilled, part, w
<1>7. SUFFICES ASSUME ~torn, NEW x \in Kept,
                      Elements!Range(View(binding[x], storage)) \cap DOMAIN ValuesIn(c.contents) = {}
               PROVE  /\ View(binding'[x], storage') = View(binding[x], storage)
                      /\ \A e \in Elements!Range(View(binding[x], storage)) :
                            ValuesIn(storage')[e] = ValuesIn(storage)[e]
  <2>1. \A x \in Kept : [y \in Arrays |-> View(binding[y], storage)]'[x] = View(binding'[x], storage')
    BY <1>5
  <2>2. \A x \in Kept : [y \in Arrays |-> View(binding[y], storage)][x] = View(binding[x], storage)
    BY <1>5
  <2>. HIDE DEF c
  <2>. QED BY <1>4, <2>1, <2>2 DEF Elements!RestoreThrows, Elements!Keeps, View
<1>. DEFINE o == binding[x].owner
<1>8. /\ Fits(binding[x], storage) /\ o \in Storages /\ o \in Held(binding', c)
      /\ Length(binding[x], storage) \in Nat
  BY <1>5, <1>7, ArraysFit, ViewOfFitting DEF Held, Owner
<1>9. CASE ~held(o)
  <2>1. storage'[o] = storage[o]
    <3>. HIDE DEF part
    <3>. QED BY <1>6, <1>8, <1>9
  <2>2. Fits(binding[x], storage')
    BY <1>6, <1>8, <2>1 DEF Fits
  <2>. QED BY <1>5, <1>8, <2>1, <2>2, StorageLeftAlone
<1>10. CASE held(o)
  <2>1. o \in DOMAIN c.contents /\ c.contents[o] \in Seq(Val)
    BY <1>4, <1>10, SavedFit DEF Fits, Arrangements
  <2>2. Len(storage[o]) = Len(c.contents[o])
    BY <1>4, <1>7, <2>1 DEF IInv, HeldStoragesKeepLength
  <2>3. Length(binding[x], storage) = 0
    <3>. SUFFICES ASSUME Length(binding[x], storage) # 0 PROVE FALSE
      OBVIOUS
    <3>1. 1 \in 1..Length(binding[x], storage)
      BY <1>8
    <3>. DEFINE p == Position(binding[x], 1)
    <3>2. View(binding[x], storage)[1] = <<o, p>> /\ 1 \in DOMAIN View(binding[x], storage)
      BY <1>8, <3>1, ViewShape
    <3>3. p \in 1..MaxLen /\ p \in 1..Len(storage[o])
      BY <1>8, <3>1, ViewOfFitting
    <3>. HIDE DEF p
    <3>4. p <= Len(c.contents[o])
      BY <2>2, <3>3
    <3>5. <<o, p>> \in DOMAIN ValuesIn(c.contents)
      BY <2>1, <3>3, <3>4, ValueAt
    <3>6. <<o, p>> \in Elements!Range(View(binding[x], storage))
      BY <3>2 DEF Elements!Range
    <3>. QED BY <1>7, <3>5, <3>6
  <2>4. Length(binding[x], storage') = 0
    <3>1. CASE binding[x].window
      BY <2>3, <3>1 DEF Length
    <3>2. CASE ~binding[x].window
      <4>1. Len(storage[o]) = 0 /\ Len(c.contents[o]) = 0
        BY <2>2, <2>3, <3>2 DEF Length
      <4>2. o = w => Len(part) = 0
        <5>. SUFFICES ASSUME o = w PROVE Len(part) = 0
          OBVIOUS
        <5>1. n = 0
          BY <1>3, <4>1
        <5>. QED BY <2>1, <5>1, <4>1
      <4>3. Len(storage'[o]) = 0
        <5>. HIDE DEF part
        <5>. QED BY <1>6, <1>8, <4>1, <4>2
      <4>. QED BY <3>2, <4>3 DEF Length
    <3>. QED BY <3>1, <3>2
  <2>5. \A st : Length(binding[x], st) = 0 => View(binding[x], st) = [i \in {} |-> <<>>]
    <3>1. \A st : View(binding[x], st) = [i \in 1..Length(binding[x], st) |-> <<o, binding[x].offset + i>>]
      BY DEF View, ViewOf, Length, ElementAt
    <3>2. 1..0 = {}
      OBVIOUS
    <3>3. [i \in {} |-> <<o, binding[x].offset + i>>] = [i \in {} |-> <<>>]
      OBVIOUS
    <3>. QED BY <3>1, <3>2, <3>3
  <2>6. View(binding[x], storage) = [i \in {} |-> <<>>] /\ View(binding[x], storage') = [i \in {} |-> <<>>]
    BY <2>3, <2>4, <2>5
  <2>7. Elements!Range(View(binding[x], storage)) = {}
    BY <2>6 DEF Elements!Range
  <2>. QED BY <1>5, <2>6, <2>7
<1>. QED BY <1>9, <1>10

(* A new run, like construction, leaves every array without elements. *)
LEMMA NoElements ==
    ASSUME NEW b \in [Arrays -> {Whole(s) : s \in Storages}]
    PROVE  [a \in Arrays |-> View(b[a], [s \in Storages |-> <<>>])] = [a \in Arrays |-> <<>>]
<1>. SUFFICES ASSUME NEW a \in Arrays
              PROVE  View(b[a], [s \in Storages |-> <<>>]) = <<>>
  OBVIOUS
<1>1. /\ b[a].owner \in Storages /\ b[a].window = FALSE
  BY DEF Whole
<1>2. [s \in Storages |-> <<>>][b[a].owner] = <<>>
  BY <1>1
<1>3. Len(<<>>) = 0 /\ 1..0 = {}
  OBVIOUS
<1>4. DOMAIN View(b[a], [s \in Storages |-> <<>>]) = {}
  BY <1>1, <1>2, <1>3 DEF View, ViewOf
<1>5. View(b[a], [s \in Storages |-> <<>>])
        = [i \in DOMAIN View(b[a], [s \in Storages |-> <<>>]) |-> <<b[a].owner, b[a].offset + i>>]
  BY DEF View, ViewOf, ElementAt
<1>6. \A f : f = [i \in {} |-> <<b[a].owner, b[a].offset + i>>] => f = <<>>
  OBVIOUS
<1>. QED BY <1>4, <1>5, <1>6

LEMMA InitRefines == Init => Elements!Init
<1>. SUFFICES ASSUME Init PROVE Elements!Init
  OBVIOUS
<1>1. [a \in Arrays |-> View(binding[a], storage)] = [a \in Arrays |-> <<>>]
  BY NoElements DEF Init
<1>2. SavedElements = Elements!NoCheckpoint
  BY DEF Init, SavedElements, NoCheckpoint, Elements!NoCheckpoint
<1>. QED BY <1>1, <1>2 DEF Init, Elements!Init, View

LEMMA PrepareRunRefines == PrepareRun => Elements!PrepareRun
<1>. SUFFICES ASSUME PrepareRun PROVE Elements!PrepareRun
  OBVIOUS
<1>1. PICK b \in [Arrays -> {Whole(s) : s \in Storages}] :
        Becomes(b, [s \in Storages |-> <<>>], NoCheckpoint)
  BY DEF PrepareRun
<1>2. binding' = b /\ storage' = [s \in Storages |-> <<>>] /\ checkpoint' = NoCheckpoint
  BY <1>1 DEF Becomes
<1>3. [a \in Arrays |-> View(binding[a], storage)]' = [a \in Arrays |-> <<>>]
  BY <1>2, NoElements
<1>4. SavedElements' = Elements!NoCheckpoint
  BY <1>2 DEF SavedElements, NoCheckpoint, Elements!NoCheckpoint
<1>. QED BY <1>3, <1>4 DEF PrepareRun, Elements!PrepareRun, View

(* Each operation is one of the sequences of shared elements, or changes nothing
   that a script can see. *)
LEMMA StepRefines ==
    ASSUME IInv, IInv', [Next]_vars
    PROVE  [Elements!Next]_(Elements!vars)
<1>1. UNCHANGED <<storage, binding, checkpoint, torn>> => UNCHANGED Elements!vars
  BY DEF Elements!vars, SavedElements
<1>2. CASE Script
  BY <1>1, <1>2, ScriptRefines DEF Elements!Next
<1>3. CASE Snapshot
  BY <1>3, SnapshotRefines DEF Elements!Next
<1>4. CASE Restore
  BY <1>4, RestoreRefines DEF Elements!Next
<1>5. CASE RestoreThrows
  BY <1>5, RestoreThrowsRefines DEF Elements!Next
<1>6. CASE PrepareRun
  BY <1>6, PrepareRunRefines DEF Elements!Next
<1>7. CASE UNCHANGED vars
  BY <1>1, <1>7 DEF vars
<1>. QED BY <1>2, <1>3, <1>4, <1>5, <1>6, <1>7 DEF Next

(* Storages, offsets, copies on write and the checkpoint of array_slice.py cannot
   be seen: whatever the script and the hooks do, the arrays are sequences of
   elements, shared by a slice and its source and by nobody else, and a rollback
   gives back those of the rolled-back arrays with their values. *)
THEOREM SlicesImplementElements == Spec => ImplementsElements
<1>1. IInv /\ IInv' /\ [Next]_vars => [Elements!Next]_(Elements!vars)
  BY StepRefines
<1>. QED BY <1>1, InitRefines, InvariantHolds, PTL DEF Spec, ImplementsElements, Elements!Spec

(* Becomes keeps what is still referred to; in particular an array that is neither
   rebound nor of a storage that is written. *)
LEMMA UntouchedKeepsContents ==
    ASSUME NEW a \in Arrays, NEW b, NEW st, NEW c, Becomes(b, st, c),
           b[a] = binding[a], binding[a].owner \in Storages, st[binding[a].owner] = storage[binding[a].owner]
    PROVE  Contents(a)' = Contents(a)
<1>1. /\ binding' = b
      /\ storage' = [s \in Storages |-> IF s \in Held(b, c) THEN st[s] ELSE <<>>]
  BY DEF Becomes
<1>2. binding[a].owner \in Held(b, c)
  BY DEF Held
<1>3. binding'[a] = binding[a] /\ storage'[binding[a].owner] = storage[binding[a].owner]
  BY <1>1, <1>2
<1>. QED BY <1>3 DEF Contents, Size, Owner

(* A rollback of the script state (checkpoint_traits of array_slice.py) leaves a
   varip array alone unless the checkpoint refers to its storage. *)
THEOREM UnsharedVaripAlwaysSurvives == Spec => UnsharedVaripSurvives
<1>. DEFINE Unshared(a) == \A x \in Rolled : checkpoint.binding[x].owner # Owner(a)
            Survives == Restore \/ RestoreThrows =>
                            \A a \in Kept : Unshared(a) => Contents(a)' = Contents(a)
<1>1. IInv /\ [Next]_vars => Survives
  <2>. SUFFICES ASSUME IInv, Restore \/ RestoreThrows, NEW a \in Kept, Unshared(a)
                PROVE  Contents(a)' = Contents(a)
    OBVIOUS
  <2>1. a \in Arrays /\ a \notin Rolled /\ binding[a].owner \in Storages
    BY KeptAreArrays DEF IInv, TypeOK, Bindings, Rolled
  <2>2. \A done \in SUBSET Rolled : /\ Rebound(done)[a] = binding[a]
                                    /\ Refilled(done)[binding[a].owner] = storage[binding[a].owner]
    BY <2>1 DEF Rebound, Refilled, Owner
  <2>3. CASE Restore
    BY <2>1, <2>2, <2>3, UntouchedKeepsContents DEF Restore
  <2>4. CASE RestoreThrows
    <3>1. PICK done \in SUBSET Rolled : \E x \in Rolled \ done :
            LET owner == checkpoint.binding[x].owner  full == checkpoint.contents[owner] IN
            \E n \in 0..Len(full) :
                Becomes(Rebound(done \cup {x}), [Refilled(done) EXCEPT ![owner] = SubSeq(full, 1, n)], checkpoint)
      BY <2>4 DEF RestoreThrows
    <3>2. PICK x \in Rolled \ done :
            LET owner == checkpoint.binding[x].owner  full == checkpoint.contents[owner] IN
            \E n \in 0..Len(full) :
                Becomes(Rebound(done \cup {x}), [Refilled(done) EXCEPT ![owner] = SubSeq(full, 1, n)], checkpoint)
      BY <3>1
    <3>. DEFINE owner == checkpoint.binding[x].owner
    <3>3. PICK part : Becomes(Rebound(done \cup {x}), [Refilled(done) EXCEPT ![owner] = part], checkpoint)
      BY <3>2
    <3>4. owner # binding[a].owner
      BY DEF Owner
    <3>5. Rebound(done \cup {x})[a] = binding[a]
      <4>1. done \cup {x} \in SUBSET Rolled
        OBVIOUS
      <4>. QED BY <2>2, <4>1
    <3>6. [Refilled(done) EXCEPT ![owner] = part][binding[a].owner] = storage[binding[a].owner]
      <4>1. DOMAIN Refilled(done) = Storages
        BY DEF Refilled
      <4>2. [Refilled(done) EXCEPT ![owner] = part][binding[a].owner] = Refilled(done)[binding[a].owner]
        BY <2>1, <3>4, <4>1
      <4>. QED BY <2>2, <4>2
    <3>. HIDE DEF owner
    <3>. QED BY <2>1, <3>3, <3>5, <3>6, UntouchedKeepsContents
  <2>. QED BY <2>3, <2>4
<1>. QED BY <1>1, InvariantHolds, PTL DEF Spec, UnsharedVaripSurvives
===============================================================================
