-------------------------- MODULE ScriptState_proofs --------------------------
(***************************************************************************)
(* Proofs about ScriptState for every set of members, every array length,  *)
(* every number of undo records and every generation limit. Where nothing  *)
(* is said of InsertMayTear, they hold for both kinds of vector::insert.   *)
(***************************************************************************)
EXTENDS ScriptState, SequenceEdits_proofs, WellFoundedInduction

(* A restore runs only over a checkpoint, and assigns the copied members only
   when no undo record is left. *)
HooksInOrder ==
    /\ hook # "none" => checkpoint.taken
    /\ hook = "assign" => entries = <<>>

(* A closure that writes an element back holds one. *)
HoldsElement(u) == u.kind \in {"set", "reinsert"} => u.old # <<>>

(* How many elements the closure u makes of n. *)
LengthAfter(u, n) ==
    IF u.kind = "swap" THEN Len(u.old)
    ELSE IF u.kind = "resize" THEN u.at
    ELSE IF u.kind = "reinsert" THEN n + 1
    ELSE IF u.kind = "erase" THEN n - 1
    ELSE n

(* Record e can be undone in the roots s, and leaves no root shorter than in t. *)
LeadsBack(e, s, t) ==
    \A r \in Roots :
        IF e.committed /\ e.owner = r
        THEN /\ InRange(e.undo, Len(s[r])) /\ HoldsElement(e.undo)
             /\ LengthAfter(e.undo, Len(s[r])) >= Len(t[r])
        ELSE Len(s[r]) >= Len(t[r])

(* What is left of RecordsLinkContents when an insertion may tear: a replay may
   then find the roots longer than the records expect, but never shorter. *)
RecordsFit ==
    /\ Len(trail) = Len(entries)
    /\ \A i \in 1..Len(entries) : LeadsBack(entries[i], Before(i + 1), Before(i))

IInv ==
    /\ TypeOK
    /\ TokensMatchJournal
    /\ JournalFollowsHooks
    /\ HooksInOrder
    /\ RecordsFit

(* A step keeps the invariant, and the records exact if they are. *)
KeepsInv == IInv' /\ (RecordsLinkContents => RecordsLinkContents')

(* Closure u makes t of s, and touches no position that s does not have. *)
TakesBack(u, s, t) == Apply(u, s) = t /\ InRange(u, Len(s)) /\ HoldsElement(u)

-------------------------------------------------------------------------------
(* Each undo closure of the journal inverts the mutation it is recorded for, *)
(* for every content, position and element value.                            *)

(* save_set: writing the old element back undoes the assignment. *)
LEMMA SetIsUndone ==
    ASSUME NEW s \in Seq(Val), NEW i \in 1..Len(s), NEW v \in Val
    PROVE  /\ ReplaceAt(s, i, v) \in Seq(Val)
           /\ SetBack(i, s[i]) \in Undo
           /\ TakesBack(SetBack(i, s[i]), ReplaceAt(s, i, v), s)
<1>1. ReplaceAt(s, i, v) \in Seq(Val) /\ Len(ReplaceAt(s, i, v)) = Len(s)
  BY ExceptSeq DEF ReplaceAt
<1>2. SetBack(i, s[i]) \in Undo
  BY DEF SetBack, Undo
<1>3. Apply(SetBack(i, s[i]), ReplaceAt(s, i, v)) = [[s EXCEPT ![i] = v] EXCEPT ![i] = s[i]]
  BY DEF Apply, SetBack, ReplaceAt
<1>4. InRange(SetBack(i, s[i]), Len(s)) /\ HoldsElement(SetBack(i, s[i]))
  BY DEF InRange, HoldsElement, SetBack
<1>. QED BY <1>1, <1>2, <1>3, <1>4 DEF TakesBack

(* save_remove: reinserting the removed element undoes the erase. *)
LEMMA RemoveIsUndone ==
    ASSUME NEW s \in Seq(Val), NEW i \in 1..Len(s)
    PROVE  /\ RemoveAt(s, i) \in Seq(Val)
           /\ Reinsert(i, s[i]) \in Undo
           /\ TakesBack(Reinsert(i, s[i]), RemoveAt(s, i), s)
<1>1. Reinsert(i, s[i]) \in Undo
  BY DEF Reinsert, Undo
<1>2. Apply(Reinsert(i, s[i]), RemoveAt(s, i)) = InsertAt(RemoveAt(s, i), i, s[i])
  BY DEF Apply, Reinsert
<1>3. InRange(Reinsert(i, s[i]), Len(RemoveAt(s, i))) /\ HoldsElement(Reinsert(i, s[i]))
  <2>1. Len(RemoveAt(s, i)) = Len(s) - 1
    BY RemovedAt
  <2>. QED BY <2>1 DEF InRange, HoldsElement, Reinsert
<1>. QED BY <1>1, <1>2, <1>3, RemoveThenInsert DEF TakesBack

(* insert: erasing the inserted element undoes the insertion. *)
LEMMA InsertIsUndone ==
    ASSUME NEW s \in Seq(Val), NEW i \in 1..Len(s) + 1, NEW v \in Val
    PROVE  /\ InsertAt(s, i, v) \in Seq(Val)
           /\ Erase(i) \in Undo
           /\ TakesBack(Erase(i), InsertAt(s, i, v), s)
<1>1. Erase(i) \in Undo
  BY DEF Erase, Undo
<1>2. Apply(Erase(i), InsertAt(s, i, v)) = RemoveAt(InsertAt(s, i, v), i)
  BY DEF Apply, Erase
<1>3. InRange(Erase(i), Len(InsertAt(s, i, v))) /\ HoldsElement(Erase(i))
  <2>1. Len(InsertAt(s, i, v)) = Len(s) + 1
    BY InsertedAt
  <2>. QED BY <2>1 DEF InRange, HoldsElement, Erase
<1>. QED BY <1>1, <1>2, <1>3, InsertThenRemove DEF TakesBack

(* push: shrinking to the old size undoes push_back. *)
LEMMA PushIsUndone ==
    ASSUME NEW s \in Seq(Val), NEW v \in Val
    PROVE  /\ Append(s, v) \in Seq(Val)
           /\ ShrinkTo(Len(s)) \in Undo
           /\ TakesBack(ShrinkTo(Len(s)), Append(s, v), s)
<1> DEFINE t == Append(s, v)
<1>1. t \in Seq(Val) /\ Len(t) = Len(s) + 1 /\ \A j \in 1..Len(s) : t[j] = s[j]
  OBVIOUS
<1>2. ShrinkTo(Len(s)) \in Undo
  BY DEF ShrinkTo, Undo
<1> HIDE DEF t
<1>3. Apply(ShrinkTo(Len(s)), t) = [j \in 1..Len(s) |-> s[j]]
  BY <1>1 DEF Apply, ShrinkTo, Resize
<1>4. [j \in 1..Len(s) |-> s[j]] = s
  BY SeqEqual, IsASeq
<1>5. InRange(ShrinkTo(Len(s)), Len(t)) /\ HoldsElement(ShrinkTo(Len(s)))
  BY <1>1 DEF InRange, HoldsElement, ShrinkTo
<1>. QED BY <1>1, <1>2, <1>3, <1>4, <1>5 DEF t, TakesBack

(* save_full: swapping the whole contents back undoes any edit. *)
LEMMA SwapIsUndone ==
    ASSUME NEW s \in Seq(Val), NEW t
    PROVE  /\ SwapBack(s) \in Undo
           /\ TakesBack(SwapBack(s), t, s)
BY DEF SwapBack, Undo, TakesBack, Apply, InRange, HoldsElement

(* A closure within its range makes an array of an array. *)
LEMMA ApplyInRange ==
    ASSUME NEW s \in Seq(Val), NEW u \in Undo, InRange(u, Len(s)), HoldsElement(u)
    PROVE  Apply(u, s) \in Seq(Val) /\ Len(Apply(u, s)) = LengthAfter(u, Len(s))
<1>1. /\ u.kind \in {"set", "reinsert", "swap", "resize", "erase"}
      /\ u.at \in Nat /\ u.old \in Seq(Val) /\ Len(s) \in Nat
  BY DEF Undo
<1>2. CASE u.kind = "set"
  <2>1. u.old[1] \in Val /\ u.at \in 1..Len(s)
    BY <1>1, <1>2 DEF HoldsElement, InRange
  <2>. QED BY <1>2, <2>1, ExceptSeq DEF Apply, LengthAfter, ReplaceAt
<1>3. CASE u.kind = "reinsert"
  <2>1. u.old[1] \in Val /\ u.at \in 1..Len(s) + 1
    BY <1>1, <1>3 DEF HoldsElement, InRange
  <2>. QED BY <1>3, <2>1, InsertedAt DEF Apply, LengthAfter
<1>4. CASE u.kind = "swap"
  BY <1>1, <1>4 DEF Apply, LengthAfter
<1>5. CASE u.kind = "resize"
  <2>. DEFINE t == Resize(s, u.at)
  <2>1. u.at \in 0..Len(s)
    BY <1>5 DEF InRange
  <2>2. \A i \in 1..u.at : (IF i <= Len(s) THEN s[i] ELSE Default) \in Val
    BY <1>1, <2>1
  <2>3. t \in Seq(Val) /\ DOMAIN t = 1..u.at
    BY <1>1, <2>2, IsASeq DEF Resize
  <2>4. Len(t) = u.at
    <3>. HIDE DEF t
    <3>. QED BY <1>1, <2>3, LenProperties
  <2>. QED BY <1>5, <2>3, <2>4 DEF Apply, LengthAfter
<1>6. CASE u.kind = "erase"
  <2>1. u.at \in 1..Len(s)
    BY <1>6 DEF InRange
  <2>. QED BY <1>6, <2>1, RemovedAt DEF Apply, LengthAfter
<1>. QED BY <1>1, <1>2, <1>3, <1>4, <1>5, <1>6

(* What a record can be undone in, it can be undone in when that is longer. *)
LEMMA LongerLeadsBack ==
    ASSUME NEW e \in Entry, NEW s \in Arrays, NEW longer \in Arrays, NEW t \in Arrays,
           LeadsBack(e, s, t), \A r \in Roots : Len(longer[r]) >= Len(s[r])
    PROVE  LeadsBack(e, longer, t)
<1>. SUFFICES ASSUME NEW r \in Roots
              PROVE  IF e.committed /\ e.owner = r
                     THEN /\ InRange(e.undo, Len(longer[r])) /\ HoldsElement(e.undo)
                          /\ LengthAfter(e.undo, Len(longer[r])) >= Len(t[r])
                     ELSE Len(longer[r]) >= Len(t[r])
  BY DEF LeadsBack
<1>1. /\ e.undo.at \in Nat /\ e.undo.old \in Seq(Val)
      /\ e.undo.kind \in {"set", "reinsert", "swap", "resize", "erase"}
      /\ Len(s[r]) \in Nat /\ Len(longer[r]) \in Nat /\ Len(t[r]) \in Nat
      /\ Len(longer[r]) >= Len(s[r])
  BY DEF Entry, Undo, Arrays
<1>2. CASE e.committed /\ e.owner = r
  <2>1. /\ InRange(e.undo, Len(s[r])) /\ HoldsElement(e.undo)
        /\ LengthAfter(e.undo, Len(s[r])) >= Len(t[r])
    BY <1>2 DEF LeadsBack
  <2>2. InRange(e.undo, Len(longer[r]))
    BY <1>1, <2>1 DEF InRange
  <2>3. LengthAfter(e.undo, Len(longer[r])) >= Len(t[r])
    BY <1>1, <2>1 DEF LengthAfter
  <2>. QED BY <1>2, <2>1, <2>2, <2>3
<1>3. CASE ~(e.committed /\ e.owner = r)
  BY <1>1, <1>3 DEF LeadsBack
<1>. QED BY <1>2, <1>3

(* Undoing a record that leads back gives arrays, no shorter than it says. *)
LEMMA UndoneIsNoShorter ==
    ASSUME NEW e \in Entry, NEW s \in Arrays, NEW t \in Arrays, LeadsBack(e, s, t)
    PROVE  Undone(e, s) \in Arrays /\ \A r \in Roots : Len(Undone(e, s)[r]) >= Len(t[r])
<1>1. e.owner \in Roots /\ e.undo \in Undo /\ \A r \in Roots : s[r] \in Seq(Val)
  BY DEF Entry, Arrays
<1>2. CASE e.committed
  <2>. DEFINE o == e.owner
  <2>1. InRange(e.undo, Len(s[o])) /\ HoldsElement(e.undo) /\ LengthAfter(e.undo, Len(s[o])) >= Len(t[o])
    BY <1>1, <1>2 DEF LeadsBack
  <2>2. Apply(e.undo, s[o]) \in Seq(Val) /\ Len(Apply(e.undo, s[o])) >= Len(t[o])
    BY <1>1, <2>1, ApplyInRange
  <2>3. Undone(e, s) = [s EXCEPT ![o] = Apply(e.undo, s[o])]
    BY <1>2 DEF Undone
  <2>4. \A r \in Roots : r # o => Len(s[r]) >= Len(t[r])
    BY DEF LeadsBack
  <2>. QED BY <1>1, <2>2, <2>3, <2>4 DEF Arrays
<1>3. CASE ~e.committed
  BY <1>3 DEF Undone, LeadsBack
<1>. QED BY <1>2, <1>3

-------------------------------------------------------------------------------
(* A mutation whose record undoes it keeps the invariant: the step every     *)
(* mutation of a root is an instance of.                                     *)

(* A mutation of one root whose record, if one is made, undoes it keeps the
   invariant. *)
LEMMA MutationKeepsLinks ==
    ASSUME IInv, hook = "none",
           NEW r \in Roots, NEW u \in Undo, NEW c \in BOOLEAN, NEW s \in Seq(Val),
           Record(r, u, c), Becomes(r, s),
           IF c THEN TakesBack(u, s, array[r]) ELSE s = array[r]
    PROVE  KeepsInv
<1> USE DEF IInv
<1> DEFINE e == [owner |-> r, generation |-> generation, committed |-> c, undo |-> u]
<1>1. ~replaying /\ (Recording <=> active)
  BY DEF JournalFollowsHooks, Recording
<1>2. array' \in Arrays /\ array' = [array EXCEPT ![r] = s]
  BY DEF Becomes, TypeOK, Arrays
<1>3. UNCHANGED <<scalar, generation, active, replaying, base, checkpoint, hook, outcome>>
  BY DEF Becomes, control
<1>4. CASE ~active
  <2>1. UNCHANGED <<entries, trail>> /\ entries = <<>>
    BY <1>1, <1>4 DEF Record, JournalFollowsHooks
  <2>2. TypeOK'
    BY <1>2, <1>3, <2>1 DEF TypeOK
  <2>3. RecordsFit' /\ (RecordsLinkContents => RecordsLinkContents')
    BY <1>3, <1>4, <2>1 DEF RecordsFit, RecordsLinkContents
  <2>4. TokensMatchJournal'
    BY <1>3, <2>1 DEF TokensMatchJournal, Valid, Token
  <2>. QED BY <2>1, <2>2, <2>3, <2>4, <1>3 DEF JournalFollowsHooks, HooksInOrder, KeepsInv
<1>5. CASE active
  <2>1. entries' = Append(entries, e) /\ trail' = Append(trail, array)
    BY <1>1, <1>5 DEF Record
  <2>2. e \in Entry /\ entries \in Seq(Entry) /\ trail \in Seq(Arrays) /\ array \in Arrays
    BY DEF Entry, TypeOK
  <2>3. /\ entries' \in Seq(Entry) /\ Len(entries') = Len(entries) + 1
        /\ \A i \in 1..Len(entries) : entries'[i] = entries[i]
        /\ entries'[Len(entries) + 1] = e
    BY <2>1, <2>2, AppendFacts
  <2>4. /\ trail' \in Seq(Arrays) /\ Len(trail') = Len(entries) + 1
        /\ \A i \in 1..Len(entries) : trail'[i] = trail[i]
        /\ trail'[Len(entries) + 1] = array
    BY <2>1, <2>2, AppendFacts DEF RecordsFit
  <2>5. TypeOK'
    BY <1>2, <1>3, <2>3, <2>4 DEF TypeOK
  <2>6. TokensMatchJournal'
    <3>1. \A i \in DOMAIN entries' : entries'[i].generation = generation'
      <4> SUFFICES ASSUME NEW i \in 1..Len(entries) + 1
                   PROVE entries'[i].generation = generation
        BY <1>3, <2>3
      <4>1. CASE i \in 1..Len(entries)
        BY <4>1, <2>2, <2>3 DEF TokensMatchJournal
      <4>2. CASE i = Len(entries) + 1
        BY <4>2, <2>3
      <4>. QED BY <4>1, <4>2, <2>2
    <3>. QED BY <3>1, <1>3 DEF TokensMatchJournal, Valid, Token
  <2>7. PICK n \in Nat : Len(entries) = n /\ Len(trail) = n
    BY <2>2 DEF RecordsFit
  <2>8. Len(trail') = Len(entries') /\ Len(entries') = n + 1
    BY <2>3, <2>4, <2>7
  <2>9. \A i \in 1..n + 1 : Before(i)' = Before(i)
    <3> SUFFICES ASSUME NEW i \in 1..n + 1 PROVE Before(i)' = Before(i)
      OBVIOUS
    <3>1. Before(i)' = trail'[i]
      BY <2>3, <2>7 DEF Before
    <3>. QED BY <3>1, <2>4, <2>7 DEF Before
  <2>10. Before(n + 2)' = array' /\ Before(n + 1)' = array
    BY <2>3, <2>7, <2>9 DEF Before
  <2>11. \A i \in 1..n : entries'[i] = entries[i] /\ Before(i + 1)' = Before(i + 1) /\ Before(i)' = Before(i)
    BY <2>3, <2>7, <2>9
  <2>12. entries'[n + 1] = e /\ (n + 1) + 1 = n + 2
    BY <2>3, <2>7
  <2>13. RecordsFit'
    <3>1. LeadsBack(e, array', array)
      <4>1. \A x \in Roots : array[x] \in Seq(Val) /\ array'[x] = IF x = r THEN s ELSE array[x]
        BY <1>2, <2>2 DEF Arrays
      <4>2. CASE c
        <5>1. /\ Apply(u, s) = array[r] /\ InRange(u, Len(s)) /\ HoldsElement(u)
              /\ LengthAfter(u, Len(s)) = Len(array[r])
          BY <4>2, ApplyInRange DEF TakesBack
        <5>. QED BY <4>1, <4>2, <5>1 DEF LeadsBack
      <4>3. CASE ~c
        BY <4>1, <4>3 DEF LeadsBack
      <4>. QED BY <4>2, <4>3
    <3>2. \A i \in 1..n : LeadsBack(entries'[i], Before(i + 1)', Before(i)')
      BY <2>7, <2>11 DEF RecordsFit
    <3>3. \A i \in 1..n + 1 : LeadsBack(entries'[i], Before(i + 1)', Before(i)')
      <4> HIDE DEF e
      <4>. QED BY <2>10, <2>12, <3>1, <3>2
    <3>. QED BY <2>8, <3>3 DEF RecordsFit
  <2>14. ASSUME RecordsLinkContents PROVE RecordsLinkContents'
    <3>1. RecordsLinkContents
      BY <2>14
    <3>2. Undone(e, array') = array
      BY <1>2, <2>2 DEF Undone, Arrays, TakesBack
    <3>3. ASSUME NEW i \in 1..n + 1
          PROVE  Undone(entries'[i], Before(i + 1)') = Before(i)'
      <4>1. CASE i \in 1..n
        BY <4>1, <2>7, <2>11, <3>1 DEF RecordsLinkContents
      <4>2. CASE i = n + 1
        <5> HIDE DEF e
        <5>. QED BY <4>2, <2>10, <2>12, <3>2
      <4>. QED BY <4>1, <4>2, <2>7
    <3>4. active' => Before(1)' = base'
      BY <1>3, <2>7, <2>9, <3>1 DEF RecordsLinkContents
    <3>. QED BY <3>3, <3>4, <2>8 DEF RecordsLinkContents
  <2>. QED BY <1>1, <1>3, <1>5, <2>5, <2>6, <2>13, <2>14
       DEF JournalFollowsHooks, HooksInOrder, KeepsInv
<1>. QED BY <1>4, <1>5 DEF TypeOK

(* A method that saves the whole contents first may do anything to them. *)
LEMMA FullEditKeepsInv ==
    ASSUME IInv, hook = "none", NEW r \in Roots, NEW s \in Seq(Val), FullEdit(r, s)
    PROVE  KeepsInv
<1>1. array[r] \in Seq(Val)
  BY DEF IInv, TypeOK, Arrays
<1>2. SwapBack(array[r]) \in Undo /\ TakesBack(SwapBack(array[r]), s, array[r])
  BY <1>1, SwapIsUndone
<1>. QED BY <1>2, MutationKeepsLinks DEF FullEdit

(* insert: of a string root through its saved contents, else through an erase. *)
LEMMA InsertKeepsInv ==
    ASSUME IInv, hook = "none", NEW r \in Roots,
           NEW i \in 1..Len(array[r]) + 1, NEW v \in Val, Insert(r, i, v)
    PROVE  KeepsInv
<1>1. array[r] \in Seq(Val)
  BY DEF IInv, TypeOK, Arrays
<1>2. /\ InsertAt(array[r], i, v) \in Seq(Val)
      /\ Erase(i) \in Undo
      /\ TakesBack(Erase(i), InsertAt(array[r], i, v), array[r])
  BY <1>1, InsertIsUndone
<1>3. /\ SwapBack(array[r]) \in Undo
      /\ TakesBack(SwapBack(array[r]), InsertAt(array[r], i, v), array[r])
  BY <1>1, SwapIsUndone
<1>4. CASE r \in StringRoots
  <2>1. Record(r, SwapBack(array[r]), TRUE) /\ Becomes(r, InsertAt(array[r], i, v))
    BY <1>4 DEF Insert
  <2>. QED BY <2>1, <1>2, <1>3, MutationKeepsLinks
<1>5. CASE r \notin StringRoots
  <2>1. Record(r, Erase(i), TRUE) /\ Becomes(r, InsertAt(array[r], i, v))
    BY <1>5 DEF Insert
  <2>. QED BY <2>1, <1>2, MutationKeepsLinks
<1>. QED BY <1>4, <1>5

(* A reversed array is an array. *)
LEMMA ReverseIsASeq ==
    ASSUME NEW s \in Seq(Val)
    PROVE  Reverse(s) \in Seq(Val)
<1>1. \A i \in 1..Len(s) : s[(Len(s) - i) + 1] \in Val
  OBVIOUS
<1>. QED BY <1>1 DEF Reverse

(* Every mutation of a root, whether it returns or throws. *)
LEMMA MutateRootKeepsInv ==
    ASSUME IInv, hook = "none", MutateRoot
    PROVE  KeepsInv
<1>1. PICK r \in Roots :
      \/ \E i \in DOMAIN array[r] :
           SetThrows(r, i) \/ RemoveElement(r, i) \/ \E v \in Val : Set(r, i, v)
      \/ PushThrows(r)
      \/ \E v \in Val : Push(r, v)
      \/ \E i \in 1..Len(array[r]) + 1 :
           InsertThrows(r, i) \/ \E v \in Val : Insert(r, i, v)
      \/ Clear(r) \/ Sort(r) \/ ReverseElements(r)
      \/ \E i, j \in DOMAIN array[r], v \in Val : Fill(r, i, j, v)
      \/ \E other \in Roots : Concat(r, other)
      \/ \E s \in BoundedSeq(Val, MaxLen) : ReplaceArray(r, s) \/ FullEditThrows(r, s)
  BY DEF MutateRoot
<1>2. array \in [Roots -> Seq(Val)] /\ array[r] \in Seq(Val)
      /\ DOMAIN array[r] = 1..Len(array[r])
  BY DEF IInv, TypeOK, Arrays
<1>3. ASSUME NEW i \in DOMAIN array[r], SetThrows(r, i)
      PROVE  KeepsInv
  <2>1. array[r][i] \in Val
    BY <1>2
  <2>2. /\ SetBack(i, array[r][i]) \in Undo
        /\ TakesBack(SetBack(i, array[r][i]), ReplaceAt(array[r], i, array[r][i]), array[r])
    BY <1>2, <2>1, SetIsUndone
  <2>3. ReplaceAt(array[r], i, array[r][i]) = array[r]
    BY <1>2 DEF ReplaceAt
  <2>. QED BY <1>2, <1>3, <2>2, <2>3, MutationKeepsLinks DEF SetThrows
<1>4. ASSUME NEW i \in DOMAIN array[r], RemoveElement(r, i)
      PROVE  KeepsInv
  <2>1. /\ RemoveAt(array[r], i) \in Seq(Val)
        /\ Reinsert(i, array[r][i]) \in Undo
        /\ TakesBack(Reinsert(i, array[r][i]), RemoveAt(array[r], i), array[r])
    BY <1>2, RemoveIsUndone
  <2>. QED BY <1>4, <2>1, MutationKeepsLinks DEF RemoveElement
<1>5. ASSUME NEW i \in DOMAIN array[r], NEW v \in Val, Set(r, i, v)
      PROVE  KeepsInv
  <2>1. /\ ReplaceAt(array[r], i, v) \in Seq(Val)
        /\ SetBack(i, array[r][i]) \in Undo
        /\ TakesBack(SetBack(i, array[r][i]), ReplaceAt(array[r], i, v), array[r])
    BY <1>2, SetIsUndone
  <2>. QED BY <1>5, <2>1, MutationKeepsLinks DEF Set
<1>6. ASSUME PushThrows(r)
      PROVE  KeepsInv
  <2>1. ShrinkTo(Len(array[r])) \in Undo
    BY <1>2 DEF ShrinkTo, Undo
  <2>. QED BY <1>2, <1>6, <2>1, MutationKeepsLinks DEF PushThrows
<1>7. ASSUME NEW v \in Val, Push(r, v)
      PROVE  KeepsInv
  <2>1. /\ Append(array[r], v) \in Seq(Val)
        /\ ShrinkTo(Len(array[r])) \in Undo
        /\ TakesBack(ShrinkTo(Len(array[r])), Append(array[r], v), array[r])
    BY <1>2, PushIsUndone
  <2>. QED BY <1>7, <2>1, MutationKeepsLinks DEF Push
<1>8. ASSUME NEW i \in 1..Len(array[r]) + 1, InsertThrows(r, i)
      PROVE  KeepsInv
  <2>1. Erase(i) \in Undo
    BY <1>2 DEF Erase, Undo
  <2>. QED BY <1>2, <1>8, <2>1, MutationKeepsLinks DEF InsertThrows
<1>9. ASSUME NEW i \in 1..Len(array[r]) + 1, NEW v \in Val, Insert(r, i, v)
      PROVE  KeepsInv
  BY <1>9, InsertKeepsInv
<1>10. ASSUME Clear(r) \/ Sort(r) \/ ReverseElements(r)
       PROVE  KeepsInv
  <2>1. CASE Clear(r)
    <3>1. <<>> \in Seq(Val) /\ FullEdit(r, <<>>)
      BY <2>1 DEF Clear
    <3>. QED BY <3>1, FullEditKeepsInv
  <2>2. CASE Sort(r)
    <3>1. PICK s \in [1..Len(array[r]) -> Val] : FullEdit(r, s)
      BY <2>2 DEF Sort
    <3>2. s \in Seq(Val)
      BY <1>2
    <3>. QED BY <3>1, <3>2, FullEditKeepsInv
  <2>3. CASE ReverseElements(r)
    <3>1. Reverse(array[r]) \in Seq(Val)
      BY <1>2, ReverseIsASeq
    <3>2. FullEdit(r, Reverse(array[r]))
      BY <2>3 DEF ReverseElements
    <3>. QED BY <3>1, <3>2, FullEditKeepsInv
  <2>. QED BY <1>10, <2>1, <2>2, <2>3
<1>11. ASSUME NEW i \in DOMAIN array[r], NEW j \in DOMAIN array[r], NEW v \in Val,
              Fill(r, i, j, v)
       PROVE  KeepsInv
  <2> DEFINE s == [k \in 1..Len(array[r]) |-> IF k \in i..j THEN v ELSE array[r][k]]
  <2>1. s \in Seq(Val)
    BY <1>2
  <2>. QED BY <1>11, <2>1, FullEditKeepsInv DEF Fill
<1>12. ASSUME NEW other \in Roots, Concat(r, other)
       PROVE  KeepsInv
  <2>1. array[r] \o array[other] \in Seq(Val)
    BY <1>2, ConcatProperties
  <2>. QED BY <1>12, <2>1, FullEditKeepsInv DEF Concat
<1>13. ASSUME NEW s \in BoundedSeq(Val, MaxLen), ReplaceArray(r, s) \/ FullEditThrows(r, s)
       PROVE  KeepsInv
  <2>1. s \in Seq(Val)
    BY BoundsAreNat DEF BoundedSeq, SeqOf
  <2>. QED BY <1>13, <2>1, FullEditKeepsInv DEF ReplaceArray, FullEditThrows
<1>. QED BY <1>1, <1>3, <1>4, <1>5, <1>6, <1>7, <1>8, <1>9, <1>10, <1>11, <1>12, <1>13

-------------------------------------------------------------------------------
(* The hooks.                                                                *)

(* A new strategy object satisfies the invariant. *)
LEMMA InitInv == Init => IInv /\ RecordsLinkContents
<1> SUFFICES ASSUME Init PROVE IInv /\ RecordsLinkContents
  OBVIOUS
<1> USE DEF Init
<1>1. TypeOK
  <2>1. array \in Arrays /\ base \in Arrays
    BY DEF Arrays, EmptyArrays
  <2>2. scalar \in [Scalars -> Val]
    BY DefaultIsVal DEF ResetScalars
  <2>3. generation \in 0..MaxGeneration
    BY BoundsAreNat
  <2>4. entries \in Seq(Entry) /\ trail \in Seq(Arrays)
    BY EmptySeq
  <2>. QED BY <2>1, <2>2, <2>3, <2>4 DEF TypeOK
<1>2. TokensMatchJournal
  BY DEF TokensMatchJournal, NoCheckpoint
<1>3. RecordsFit /\ RecordsLinkContents
  BY DEF RecordsFit, RecordsLinkContents
<1>. QED BY <1>1, <1>2, <1>3 DEF IInv, JournalFollowsHooks, HooksInOrder

(* Other members are outside the journal. *)
LEMMA WriteScalarKeepsInv ==
    ASSUME IInv, WriteScalar
    PROVE  KeepsInv
<1>1. PICK m \in Scalars, v \in Val :
        /\ scalar' = [scalar EXCEPT ![m] = v]
        /\ UNCHANGED <<array, outcome, checkpoint, hook>>
        /\ UNCHANGED journal /\ UNCHANGED history
  BY DEF WriteScalar
<1>2. scalar' \in [Scalars -> Val]
  BY <1>1 DEF IInv, TypeOK
<1>. QED BY <1>1, <1>2 DEF IInv, TypeOK, TokensMatchJournal, JournalFollowsHooks, RecordsFit,
              RecordsLinkContents, HooksInOrder, KeepsInv, Valid, Before, journal, history

(* A snapshot starts a journal whose first record will find base. *)
LEMMA SnapshotKeepsInv ==
    ASSUME IInv, Snapshot
    PROVE  KeepsInv
<1> USE DEF IInv, Snapshot, Begin
<1>1. checkpoint' = Copies(generation + 1) /\ generation + 1 \in 0..MaxGeneration
  BY BoundsAreNat DEF TypeOK
<1>2. Copies(generation + 1) \in
         [taken : {TRUE},
          token : [Roots -> [owner : Roots, generation : Nat]],
          value : [Snapshotted -> Val]]
  BY <1>1 DEF Copies, Token, TypeOK, Snapshotted, Scalars
<1>3. TypeOK'
  <2>1. base' \in Arrays /\ entries' \in Seq(Entry) /\ trail' \in Seq(Arrays)
    BY EmptySeq DEF TypeOK
  <2>2. /\ generation' \in 0..MaxGeneration /\ active' \in BOOLEAN
        /\ UNCHANGED <<array, scalar, replaying, hook>> /\ outcome' \in {"ok", "threw"}
    BY <1>1
  <2>. QED BY <1>1, <1>2, <2>1, <2>2 DEF TypeOK
<1>4. TokensMatchJournal'
  BY <1>1 DEF TokensMatchJournal, Valid, Copies
<1>5. RecordsFit' /\ RecordsLinkContents'
  BY DEF RecordsFit, RecordsLinkContents, Before
<1>6. JournalFollowsHooks' /\ HooksInOrder'
  BY DEF JournalFollowsHooks, HooksInOrder
<1>. QED BY <1>3, <1>4, <1>5, <1>6 DEF KeepsInv

(* Undoing the last record brings back what its mutation found, which is what
   the record before it has to start from. *)
LEMMA UndoLastKeepsInv ==
    ASSUME IInv, UndoLast
    PROVE  /\ KeepsInv
           /\ base' = base /\ scalar' = scalar /\ checkpoint' = checkpoint
<1> USE DEF IInv
<1>1. UNCHANGED <<scalar, generation, active, replaying, base, checkpoint, hook, outcome>>
  BY DEF UndoLast, control
<1>2. /\ entries \in Seq(Entry) /\ trail \in Seq(Arrays) /\ entries # <<>>
      /\ Len(trail) = Len(entries)
  BY DEF UndoLast, TypeOK, RecordsFit
<1>3. PICK n \in Nat : Len(entries) = n + 1 /\ Len(trail) = n + 1
  BY <1>2, FrontFacts
<1>4. /\ entries' = Front(entries) /\ entries' \in Seq(Entry) /\ Len(entries') = n
      /\ \A i \in 1..n : entries'[i] = entries[i]
      /\ Last(entries) = entries[n + 1]
  BY <1>2, <1>3, FrontFacts DEF UndoLast
<1>5. /\ trail' \in Seq(Arrays) /\ Len(trail') = n
      /\ \A i \in 1..n : trail'[i] = trail[i]
  <2>1. trail # <<>> /\ trail' = Front(trail)
    BY <1>2, <1>3 DEF UndoLast
  <2>. QED BY <1>2, <1>3, <2>1, FrontFacts
<1>6. Before(n + 2) = array /\ Before(n + 1) = trail[n + 1]
  BY <1>3 DEF Before
<1>7. LeadsBack(entries[n + 1], array, trail[n + 1])
  <2>1. n + 1 \in 1..Len(entries) /\ (n + 1) + 1 = n + 2
    BY <1>3
  <2>2. LeadsBack(entries[n + 1], Before((n + 1) + 1), Before(n + 1))
    BY <2>1 DEF RecordsFit
  <2>. QED BY <1>6, <2>1, <2>2
<1>8. array' = Undone(entries[n + 1], array)
  BY <1>4 DEF UndoLast, Undone
<1>9. /\ array \in Arrays /\ array' \in Arrays /\ trail[n + 1] \in Arrays
      /\ \A r \in Roots : Len(array'[r]) >= Len(trail[n + 1][r])
  <2>1. array \in Arrays /\ trail[n + 1] \in Arrays /\ entries[n + 1] \in Entry
    BY <1>2, <1>3 DEF TypeOK
  <2>. QED BY <1>7, <1>8, <2>1, UndoneIsNoShorter
<1>10. TypeOK'
  BY <1>1, <1>4, <1>5, <1>9 DEF TypeOK
<1>11. /\ \A i \in 1..n : entries[i] \in Entry /\ entries'[i] = entries[i] /\ Before(i)' = Before(i)
       /\ Before(n + 1)' = array'
       /\ Len(trail') = Len(entries')
  BY <1>2, <1>3, <1>4, <1>5 DEF Before
<1>12. RecordsFit'
  <2>. SUFFICES ASSUME NEW i \in 1..n
                PROVE  LeadsBack(entries[i], Before(i + 1)', Before(i))
    BY <1>4, <1>11 DEF RecordsFit
  <2>1. LeadsBack(entries[i], Before(i + 1), Before(i))
    BY <1>3 DEF RecordsFit
  <2>2. CASE i + 1 \in 1..n
    BY <1>11, <2>1, <2>2
  <2>3. CASE i = n
    <3>1. Before(n) \in Arrays
      BY <1>2, <1>3, <2>3 DEF Before
    <3>2. LeadsBack(entries[n], trail[n + 1], Before(n))
      BY <1>6, <2>1, <2>3
    <3>3. LeadsBack(entries[n], array', Before(n))
      BY <1>9, <1>11, <2>3, <3>1, <3>2, LongerLeadsBack
    <3>. QED BY <1>11, <2>3, <3>3
  <2>. QED BY <2>2, <2>3
<1>13. ASSUME RecordsLinkContents PROVE RecordsLinkContents'
  <2>1. RecordsLinkContents
    BY <1>13
  <2>2. array' = trail[n + 1]
    <3>1. n + 1 \in 1..Len(entries) /\ (n + 1) + 1 = n + 2
      BY <1>3
    <3>2. Undone(entries[n + 1], Before((n + 1) + 1)) = Before(n + 1)
      BY <2>1, <3>1 DEF RecordsLinkContents
    <3>. QED BY <1>6, <1>8, <3>1, <3>2
  <2>3. \A i \in 1..n + 1 : Before(i)' = Before(i)
    BY <1>6, <1>11, <2>2
  <2>4. active' => Before(1)' = base'
    BY <1>1, <2>1, <2>3 DEF RecordsLinkContents
  <2>5. ASSUME NEW i \in 1..n
        PROVE  Undone(entries'[i], Before(i + 1)') = Before(i)'
    BY <1>3, <1>11, <2>1, <2>3 DEF RecordsLinkContents
  <2>. QED BY <1>4, <1>11, <2>4, <2>5 DEF RecordsLinkContents
<1>14. TokensMatchJournal'
  <2>1. \A i \in 1..n : i \in DOMAIN entries
    BY <1>2, <1>3
  <2>2. DOMAIN entries' = 1..n
    BY <1>4
  <2>. QED BY <1>1, <1>4, <2>1, <2>2 DEF TokensMatchJournal, Valid, Token
<1>15. JournalFollowsHooks' /\ HooksInOrder'
  <2>1. active /\ hook' = "undo"
    BY <1>1 DEF UndoLast, JournalFollowsHooks
  <2>. QED BY <1>1, <2>1 DEF JournalFollowsHooks, HooksInOrder
<1>. QED BY <1>1, <1>10, <1>12, <1>14, <1>15, <1>13 DEF KeepsInv

(* With an insertion that either succeeds or has no effect, a restore that
   throws leaves the roots where the last complete undo left them. *)
LEMMA FailedUndoLeavesRoots ==
    ASSUME ~InsertMayTear, UndoThrows
    PROVE  array' = array
BY DEF UndoThrows, AfterFailedUndo

(* With any insertion, it leaves arrays that are no shorter. *)
LEMMA FailedUndoIsNoShorter ==
    ASSUME IInv, UndoThrows
    PROVE  array' \in Arrays /\ \A r \in Roots : Len(array'[r]) >= Len(array[r])
<1>1. array \in Arrays /\ \A r \in Roots : array[r] \in Seq(Val) /\ Len(array[r]) \in Nat
  BY DEF IInv, TypeOK, Arrays
<1>2. /\ entries # <<>> /\ entries \in Seq(Entry) /\ Last(entries) = entries[Len(entries)]
      /\ Last(entries) \in Entry /\ Len(entries) \in Nat \ {0}
  <2>1. entries # <<>> /\ entries \in Seq(Entry)
    BY DEF IInv, TypeOK, UndoThrows
  <2>. QED BY <2>1, FrontFacts
<1>. DEFINE e == Last(entries)
<1>3. PICK new \in AfterFailedUndo(e) : array' = new
  BY DEF UndoThrows
<1>4. CASE new = array
  BY <1>1, <1>3, <1>4
<1>5. ASSUME NEW v \in Val, e.undo.kind = "reinsert", e.undo.at <= Len(array[e.owner]),
             MayThrow(e.undo, TRUE), e.committed,
             new = [array EXCEPT ![e.owner] = InsertAt(@, e.undo.at, v)]
      PROVE  array' \in Arrays /\ \A r \in Roots : Len(array'[r]) >= Len(array[r])
  <2>1. e.owner \in Roots /\ e.undo.at \in Nat
    BY <1>2 DEF Entry, Undo
  <2>2. e.undo.at \in 1..Len(array[e.owner]) + 1
    <3>1. LeadsBack(entries[Len(entries)], Before(Len(entries) + 1), Before(Len(entries)))
      BY <1>2 DEF IInv, RecordsFit
    <3>2. Before(Len(entries) + 1) = array
      BY <1>2 DEF Before
    <3>3. InRange(e.undo, Len(array[e.owner]))
      BY <1>2, <1>5, <2>1, <3>1, <3>2 DEF LeadsBack
    <3>. QED BY <1>5, <3>3 DEF InRange
  <2>. DEFINE t == InsertAt(array[e.owner], e.undo.at, v)
  <2>3. t \in Seq(Val) /\ Len(t) = Len(array[e.owner]) + 1
    BY <1>1, <2>1, <2>2, InsertedAt
  <2>4. array' = [array EXCEPT ![e.owner] = t]
    BY <1>3, <1>5
  <2>. HIDE DEF e, t
  <2>. QED BY <1>1, <2>1, <2>3, <2>4 DEF Arrays
<1>6. ASSUME new # array PROVE \E v \in Val :
        /\ e.undo.kind = "reinsert" /\ e.undo.at <= Len(array[e.owner])
        /\ e.committed
        /\ new = [array EXCEPT ![e.owner] = InsertAt(@, e.undo.at, v)]
  <2>1. \E v \in Val :
          /\ e.undo.kind = "reinsert" /\ e.undo.at <= Len(array[e.owner]) /\ e.generation = generation
          /\ new = [array EXCEPT ![e.owner] = InsertAt(@, e.undo.at, v)]
    BY <1>3, <1>6 DEF AfterFailedUndo
  <2>2. e.generation = generation => e.committed
    BY DEF UndoThrows, UndoCanThrow
  <2>. QED BY <2>1, <2>2
<1>. QED BY <1>4, <1>5, <1>6 DEF MayThrow

(* What the hooks that neither snapshot nor undo make of everything but the roots. *)
LEMMA OtherHooksFrame ==
    ASSUME IInv,
           \/ SnapshotThrows \/ GenerationsExhausted
           \/ RestoreBegin \/ UndoThrows \/ UndoDone
           \/ RestoreEnd \/ AssignThrows
    PROVE  /\ UNCHANGED <<entries, generation, active, base, trail, checkpoint>>
           /\ scalar' \in [Scalars -> Val]
           /\ hook' \in {"none", "undo", "assign"} /\ outcome' \in {"ok", "threw"}
           /\ TokensMatchJournal' /\ JournalFollowsHooks' /\ HooksInOrder'
           /\ array' = array \/ UndoThrows
<1> USE DEF IInv
<1>1. UNCHANGED <<entries, generation, active, base, trail, checkpoint>> /\ (array' = array \/ UndoThrows)
  BY DEF SnapshotThrows, PublishedBeforeCopies, GenerationsExhausted, RestoreBegin,
         UndoThrows, UndoDone, RestoreEnd, AssignThrows, Assign, data, journal, history
<1>2. TokensMatchJournal'
  BY <1>1 DEF TokensMatchJournal, Valid
<1>3. scalar' \in [Scalars -> Val]
  <2>1. CASE scalar' = scalar
    BY <2>1 DEF TypeOK
  <2>2. ASSUME NEW S \in SUBSET Copied, Assign(S)
        PROVE  scalar' \in [Scalars -> Val]
    <3>1. checkpoint.taken /\ checkpoint.value \in [Snapshotted -> Val]
      <4>1. checkpoint.taken
        BY <2>2 DEF Assign, HooksInOrder
      <4>2. checkpoint # NoCheckpoint
        BY <4>1 DEF NoCheckpoint
      <4>. QED BY <4>1, <4>2 DEF TypeOK
    <3>. QED BY <2>2, <3>1 DEF Assign, TypeOK, Snapshotted
  <2>. QED BY <2>1, <2>2
       DEF SnapshotThrows, GenerationsExhausted, RestoreBegin, UndoThrows,
           UndoDone, RestoreEnd, AssignThrows, data
<1>4. hook' \in {"none", "undo", "assign"} /\ outcome' \in {"ok", "threw"}
  BY DEF TypeOK, SnapshotThrows, PublishedBeforeCopies, GenerationsExhausted,
         RestoreBegin, UndoThrows, UndoDone, RestoreEnd, AssignThrows, Assign, journal
<1>5. JournalFollowsHooks' /\ HooksInOrder'
  BY <1>1 DEF JournalFollowsHooks, HooksInOrder, SnapshotThrows, PublishedBeforeCopies,
         GenerationsExhausted, RestoreBegin, UndoThrows, UndoDone, RestoreEnd,
         AssignThrows, Assign, journal
<1>. QED BY <1>1, <1>2, <1>3, <1>4, <1>5

(* The hooks that drop no record. *)
LEMMA OtherHooksKeepInv ==
    ASSUME IInv,
           \/ SnapshotThrows \/ GenerationsExhausted
           \/ RestoreBegin \/ UndoThrows \/ UndoDone
           \/ RestoreEnd \/ AssignThrows
    PROVE  /\ IInv'
           /\ RecordsLinkContents /\ (UndoThrows => ~InsertMayTear) => RecordsLinkContents'
<1>1. UNCHANGED <<entries, generation, active, base, trail, checkpoint>>
  BY OtherHooksFrame
<1>2. array' \in Arrays /\ \A r \in Roots : Len(array'[r]) >= Len(array[r])
  <2>1. CASE array' = array
    <3>1. array \in Arrays /\ \A r \in Roots : Len(array[r]) \in Nat
      BY DEF IInv, TypeOK, Arrays
    <3>. QED BY <2>1, <3>1
  <2>2. CASE UndoThrows
    BY <2>2, FailedUndoIsNoShorter
  <2>. QED BY <2>1, <2>2, OtherHooksFrame
<1>3. replaying' \in BOOLEAN
  BY DEF IInv, TypeOK, SnapshotThrows, PublishedBeforeCopies, GenerationsExhausted,
         RestoreBegin, UndoThrows, UndoDone, RestoreEnd, AssignThrows, Assign, journal
<1>4. TypeOK'
  <2>1. TypeOK
    BY DEF IInv
  <2>. QED BY <1>1, <1>2, <1>3, <2>1, OtherHooksFrame DEF TypeOK
<1>5. RecordsFit'
  <2>. SUFFICES ASSUME NEW i \in 1..Len(entries)
                PROVE  LeadsBack(entries[i], Before(i + 1)', Before(i))
    BY <1>1 DEF IInv, RecordsFit, Before
  <2>1. /\ LeadsBack(entries[i], Before(i + 1), Before(i))
        /\ entries[i] \in Entry /\ Before(i + 1) \in Arrays /\ Before(i) \in Arrays
        /\ Before(i + 1)' = IF i + 1 <= Len(entries) THEN Before(i + 1) ELSE array'
        /\ Before(i + 1) = IF i + 1 <= Len(entries) THEN trail[i + 1] ELSE array
    BY <1>1 DEF IInv, TypeOK, RecordsFit, Before
  <2>. QED BY <1>2, <2>1, LongerLeadsBack
<1>6. ASSUME RecordsLinkContents, UndoThrows => ~InsertMayTear PROVE RecordsLinkContents'
  <2>1. array' = array
    BY <1>6, FailedUndoLeavesRoots, OtherHooksFrame
  <2>. QED BY <1>1, <1>6, <2>1 DEF IInv, RecordsLinkContents, Before
<1>. QED BY <1>4, <1>5, <1>6, OtherHooksFrame DEF IInv

(* A new run has no checkpoint and no record. *)
LEMMA PrepareRunKeepsInv ==
    ASSUME IInv, PrepareRun
    PROVE  KeepsInv
<1> USE DEF IInv, PrepareRun
<1>1. TypeOK'
  <2>1. array' \in Arrays /\ base' \in Arrays
    BY DEF Arrays, EmptyArrays
  <2>2. scalar' \in [Scalars -> Val]
    BY DefaultIsVal DEF ResetScalars
  <2>3. entries' \in Seq(Entry) /\ trail' \in Seq(Arrays)
    BY EmptySeq
  <2>. QED BY <2>1, <2>2, <2>3 DEF TypeOK
<1>2. TokensMatchJournal'
  BY DEF TokensMatchJournal, NoCheckpoint
<1>3. RecordsFit' /\ RecordsLinkContents'
  BY DEF RecordsFit, RecordsLinkContents
<1>. QED BY <1>1, <1>2, <1>3 DEF JournalFollowsHooks, HooksInOrder, KeepsInv

(* Every step keeps the invariant. *)
LEMMA NextKeepsInv ==
    ASSUME IInv, [Next]_vars
    PROVE  /\ IInv'
           /\ RecordsLinkContents /\ (UndoThrows => ~InsertMayTear) => RecordsLinkContents'
<1>1. CASE RunScript
  BY <1>1, MutateRootKeepsInv, WriteScalarKeepsInv DEF RunScript, KeepsInv
<1>2. CASE Snapshot
  BY <1>2, SnapshotKeepsInv DEF KeepsInv
<1>3. CASE UndoLast
  BY <1>3, UndoLastKeepsInv DEF KeepsInv
<1>4. CASE \/ SnapshotThrows \/ GenerationsExhausted \/ RestoreBegin
           \/ UndoThrows \/ UndoDone \/ RestoreEnd \/ AssignThrows
  BY <1>4, OtherHooksKeepInv
<1>5. CASE PrepareRun
  BY <1>5, PrepareRunKeepsInv DEF KeepsInv
<1>6. CASE UNCHANGED vars
  BY <1>6 DEF vars, IInv, TypeOK, TokensMatchJournal, JournalFollowsHooks,
              RecordsFit, RecordsLinkContents, HooksInOrder, Valid, Before
<1>. QED BY <1>1, <1>2, <1>3, <1>4, <1>5, <1>6 DEF Next

(* The inductive invariant holds in every reachable state. *)
LEMMA InductiveInvariant == Spec => []IInv
<1>1. Init => IInv
  BY InitInv
<1>2. IInv /\ [Next]_vars => IInv'
  BY NextKeepsInv
<1>. QED BY <1>1, <1>2, PTL DEF Spec

-------------------------------------------------------------------------------
(* The results.                                                              *)

(* Every variable of the hooks and the journal keeps its type. *)
THEOREM TypeCorrect == Spec => []TypeOK
<1>1. IInv => TypeOK
  BY DEF IInv
<1>. QED BY <1>1, InductiveInvariant, PTL

(* restore_script_state never meets a stale token, nor a record of another
   generation. *)
THEOREM TokensAlwaysMatch == Spec => []TokensMatchJournal
<1>1. IInv => TokensMatchJournal
  BY DEF IInv
<1>. QED BY <1>1, InductiveInvariant, PTL

(* Nothing is recorded without a checkpoint, and recording is suspended exactly
   while restore() replays. *)
THEOREM JournalAlwaysFollowsHooks == Spec => []JournalFollowsHooks
<1>1. IInv => JournalFollowsHooks
  BY DEF IInv
<1>. QED BY <1>1, InductiveInvariant, PTL

(* restore() never writes, erases or inserts outside the array that it finds, not
   even after insertions that threw and left something behind. *)
THEOREM UndosAlwaysInRange == Spec => []UndosInRange
<1>1. IInv => UndosInRange
  <2>. SUFFICES ASSUME IInv, entries # <<>>, Last(entries).committed
                PROVE  InRange(Last(entries).undo, Len(array[Last(entries).owner]))
    BY DEF UndosInRange
  <2>. DEFINE n == Len(entries)
  <2>1. n \in Nat \ {0} /\ Last(entries) = entries[n] /\ Last(entries) \in Entry
    BY FrontFacts DEF IInv, TypeOK
  <2>2. LeadsBack(entries[n], Before(n + 1), Before(n)) /\ Before(n + 1) = array
    BY <2>1 DEF IInv, RecordsFit, Before
  <2>3. entries[n].owner \in Roots /\ entries[n].committed
    BY <2>1 DEF Entry
  <2>. HIDE DEF n
  <2>. QED BY <2>1, <2>2, <2>3 DEF LeadsBack
<1>. QED BY <1>1, InductiveInvariant, PTL

(* Whatever was mutated, thrown, half-undone or retried, each record still leads
   back to what its mutation found, and the first to the checkpoint. *)
THEOREM RecordsAlwaysLink ==
    ASSUME ~InsertMayTear
    PROVE  Spec => []RecordsLinkContents
<1>1. Init => RecordsLinkContents
  BY InitInv
<1>2. IInv /\ RecordsLinkContents /\ [Next]_vars => RecordsLinkContents'
  BY NextKeepsInv
<1>. QED BY <1>1, <1>2, InductiveInvariant, PTL DEF Spec

(* With any library, the one step that can leave a record that does not lead back
   is an undo that throws: the finding about torn insertions is the only one. *)
THEOREM OnlyFailedUndosUnlink ==
    Spec => [][RecordsLinkContents /\ ~UndoThrows => RecordsLinkContents']_vars
<1>1. IInv /\ [Next]_vars => (RecordsLinkContents /\ ~UndoThrows => RecordsLinkContents')
  BY NextKeepsInv
<1>. QED BY <1>1, InductiveInvariant, PTL DEF Spec

-------------------------------------------------------------------------------
(* From the links to the whole chain of records.                             *)

(* Induction for a set: the least number left out of S can be neither zero nor
   a successor. *)
LEMMA SetInduction ==
    ASSUME NEW S, 0 \in S, \A n \in Nat : n \in S => n + 1 \in S
    PROVE  Nat \subseteq S
<1>. DEFINE R == OpToRel(<, Nat)  T == Nat \ S
<1>1. IsWellFoundedOn(R, Nat)
  BY NatLessThanWellFounded
<1>2. \A x, y \in Nat : x < y => <<x, y>> \in R
  BY DEF OpToRel
<1>. SUFFICES ASSUME T # {} PROVE FALSE
  OBVIOUS
<1>. HIDE DEF R
<1>3. PICK x \in T : \A y \in T : <<y, x>> \notin R
  BY <1>1, WFMin
<1>4. x # 0 /\ x - 1 \in Nat /\ x - 1 < x
  OBVIOUS
<1>5. x - 1 \in S
  BY <1>2, <1>3, <1>4
<1>. QED BY <1>4, <1>5

(* A function that undoes one record after the other, from the newest, passes
   through the contents that each of them found. *)
LEMMA UndoingPassesThrough ==
    ASSUME TypeOK, RecordsLinkContents, NEW f,
           f = [i \in 1..Len(entries) + 1 |->
                  IF i = Len(entries) + 1 THEN array ELSE Undone(entries[i], f[i + 1])]
    PROVE  \A i \in 1..Len(entries) + 1 : f[i] = Before(i)
<1>. DEFINE n == Len(entries)
            S == {k \in Nat : k <= n => f[n + 1 - k] = Before(n + 1 - k)}
<1>1. n \in Nat
  BY DEF TypeOK
<1>. HIDE DEF n
<1>2. f[n + 1] = array /\ \A i \in 1..n : f[i] = Undone(entries[i], f[i + 1])
  BY <1>1 DEF n
<1>3. 0 \in S
  BY <1>1, <1>2 DEF Before, n
<1>4. ASSUME NEW k \in Nat, k \in S PROVE k + 1 \in S
  <2>. SUFFICES ASSUME k + 1 <= n PROVE f[n + 1 - (k + 1)] = Before(n + 1 - (k + 1))
    OBVIOUS
  <2>1. n - k \in 1..n /\ (n - k) + 1 = n + 1 - k /\ n + 1 - (k + 1) = n - k
    BY <1>1
  <2>2. f[(n - k) + 1] = Before((n - k) + 1)
    BY <1>1, <1>4, <2>1
  <2>3. Undone(entries[n - k], Before((n - k) + 1)) = Before(n - k)
    BY <2>1 DEF RecordsLinkContents, n
  <2>. QED BY <1>2, <2>1, <2>2, <2>3
<1>5. Nat \subseteq S
  <2>. HIDE DEF S
  <2>. QED BY <1>3, <1>4, SetInduction
<1>6. ASSUME NEW i \in 1..n + 1 PROVE f[i] = Before(i)
  <2>1. n + 1 - i \in Nat /\ n + 1 - i <= n /\ n + 1 - (n + 1 - i) = i
    BY <1>1
  <2>. QED BY <1>5, <2>1
<1>. QED BY <1>6 DEF n

(* The recursive function of Rebuilt exists, for the contents that the records
   found are such a function; and any such function ends at the checkpoint. *)
LEMMA LinksRebuild ==
    ASSUME TypeOK, RecordsLinkContents
    PROVE  RecordsRebuildCheckpoint
<1>. DEFINE n == Len(entries)
            Undoes(f) == f = [i \in 1..n + 1 |->
                                IF i = n + 1 THEN array ELSE Undone(entries[i], f[i + 1])]
            g == [i \in 1..n + 1 |-> Before(i)]
            after == CHOOSE f : Undoes(f)
<1>1. n \in Nat
  BY DEF TypeOK
<1>2. Undoes(g)
  <2>1. ASSUME NEW i \in 1..n + 1
        PROVE  g[i] = IF i = n + 1 THEN array ELSE Undone(entries[i], g[i + 1])
    <3>1. CASE i = n + 1
      BY <1>1, <3>1 DEF Before
    <3>2. CASE i # n + 1
      <4>1. i \in 1..n /\ i + 1 \in 1..n + 1
        BY <1>1, <3>2
      <4>. QED BY <3>2, <4>1 DEF RecordsLinkContents
    <3>. QED BY <3>1, <3>2
  <2>. QED BY <2>1
<1>3. Undoes(after)
  <2>. HIDE DEF g
  <2>1. \E f : Undoes(f)
    BY <1>2
  <2>. HIDE DEF Undoes
  <2>. QED BY <2>1
<1>4. after[1] = Before(1)
  <2>1. \A i \in 1..n + 1 : after[i] = Before(i)
    BY <1>3, UndoingPassesThrough
  <2>. QED BY <1>1, <2>1
<1>5. Rebuilt = after[1]
  BY DEF Rebuilt
<1>. QED BY <1>4, <1>5 DEF RecordsRebuildCheckpoint, RecordsLinkContents

(* Whatever was mutated, thrown, half-undone or retried, undoing all the records
   that remain, newest first, gives the contents of the checkpoint. *)
THEOREM RecordsAlwaysRebuild ==
    ASSUME ~InsertMayTear
    PROVE  Spec => []RecordsRebuildCheckpoint
<1>1. IInv /\ RecordsLinkContents => RecordsRebuildCheckpoint
  BY LinksRebuild DEF IInv
<1>. QED BY <1>1, InductiveInvariant, RecordsAlwaysLink, PTL

(* A mutation of a root touches no other member and none of the hooks' state. *)
LEMMA MutateRootFrame ==
    ASSUME MutateRoot
    PROVE  UNCHANGED <<scalar, generation, active, replaying, base, checkpoint, hook, outcome>>
BY DEF MutateRoot, SetThrows, RemoveElement, Set, PushThrows, Push, InsertThrows, Insert,
       Clear, Sort, ReverseElements, Fill, Concat, ReplaceArray, FullEditThrows, FullEdit,
       Becomes, control

(* A generation identifies one checkpoint for the life of the strategy. *)
THEOREM GenerationsAlwaysIncrease == Spec => GenerationsNeverReused
<1> DEFINE Fresh ==
             /\ generation' >= generation
             /\ checkpoint'.taken /\ checkpoint' # checkpoint => generation' > generation
<1>1. IInv /\ [Next]_vars => Fresh
  <2> SUFFICES ASSUME IInv, [Next]_vars PROVE Fresh
    OBVIOUS
  <2>0. generation \in Nat
    BY DEF IInv, TypeOK
  <2>1. CASE Snapshot
    BY <2>0, <2>1 DEF Snapshot, Begin
  <2>2. CASE RunScript
    BY <2>0, <2>2, MutateRootFrame DEF RunScript, WriteScalar, journal
  <2>3. CASE PrepareRun
    BY <2>0, <2>3 DEF PrepareRun, NoCheckpoint
  <2>4. CASE \/ SnapshotThrows \/ GenerationsExhausted \/ RestoreBegin \/ UndoLast
             \/ UndoThrows \/ UndoDone \/ RestoreEnd \/ AssignThrows \/ UNCHANGED vars
    BY <2>0, <2>4 DEF SnapshotThrows, PublishedBeforeCopies, GenerationsExhausted,
                RestoreBegin, UndoLast, UndoThrows, UndoDone, RestoreEnd, AssignThrows,
                Assign, control, journal, vars
  <2>. QED BY <2>1, <2>2, <2>3, <2>4 DEF Next
<1>. QED BY <1>1, InductiveInvariant, PTL DEF Spec, GenerationsNeverReused

-------------------------------------------------------------------------------
(* The contract of the hooks.                                                *)

(* Every member is a sequence of values to the contract. *)
LEMMA LiveChanged ==
    ASSUME TypeOK'
    PROVE  Contract!Changed
<1>1. Contract!Members = Roots \cup Scalars
  BY DEF Contract!Members, Scalars
<1>2. ASSUME NEW m \in Roots \cup Scalars PROVE LiveMembers'[m] \in Seq(Val)
  <2>1. m \in Roots => array'[m] \in Seq(Val)
    BY DEF TypeOK, Arrays
  <2>2. m \notin Roots => scalar'[m] \in Val
    BY DEF TypeOK
  <2>. QED BY <2>1, <2>2 DEF LiveMembers
<1>3. LiveMembers' = [m \in Roots \cup Scalars |-> LiveMembers'[m]]
  BY DEF LiveMembers
<1>. QED BY <1>1, <1>2, <1>3 DEF Contract!Changed

(* Script code is the contract's Run. *)
LEMMA ScriptRefines ==
    ASSUME IInv, IInv', RunScript
    PROVE  Contract!Run
<1>1. UNCHANGED <<base, checkpoint, hook, outcome>> /\ hook = "none"
  BY MutateRootFrame DEF RunScript, WriteScalar, history
<1>2. SavedMembers' = SavedMembers
  BY <1>1 DEF SavedMembers
<1>3. Contract!Changed
  BY LiveChanged DEF IInv
<1>. QED BY <1>1, <1>2, <1>3 DEF Contract!Run

(* A snapshot is the contract's Take: the journal's tokens stand for copies. *)
LEMMA SnapshotRefines ==
    ASSUME IInv, Snapshot
    PROVE  Contract!Take
<1>1. LiveMembers' = LiveMembers
  BY DEF Snapshot, LiveMembers
<1>2. SavedMembers' = Contract!Checkpoint([m \in Roots \cup Copied |-> LiveMembers[m]])
  BY MembersAreDisjoint
     DEF Snapshot, Begin, Copies, SavedMembers, LiveMembers, Contract!Checkpoint,
         Scalars, Snapshotted
<1>. QED BY <1>1, <1>2 DEF Snapshot, Contract!Take

(* With no record left, the roots hold what they held at the checkpoint. *)
LEMMA EmptyJournalIsBase ==
    ASSUME IInv, RecordsLinkContents, checkpoint.taken, entries = <<>>
    PROVE  array = base
BY DEF IInv, TokensMatchJournal, RecordsLinkContents, Before

(* The assignments end the contract's restore: by then the journal has given
   the roots back. *)
LEMMA RestoreEndRefines ==
    ASSUME IInv, RecordsLinkContents, RestoreEnd
    PROVE  Contract!EndRestore
<1>1. /\ hook = "assign" /\ hook' = "none" /\ outcome' = "ok"
      /\ UNCHANGED <<array, checkpoint, base>>
      /\ scalar' = [m \in Scalars |-> IF m \in Copied THEN checkpoint.value[m] ELSE scalar[m]]
  BY DEF RestoreEnd, Assign, history
<1>2. checkpoint.taken /\ array = base
  BY <1>1, EmptyJournalIsBase DEF IInv, HooksInOrder
<1>3. SavedMembers' = SavedMembers
  BY <1>1 DEF SavedMembers
<1>4. SavedMembers.contents = [m \in Roots \cup Copied |->
                                 IF m \in Roots THEN base[m] ELSE <<checkpoint.value[m]>>]
  BY <1>2 DEF SavedMembers
<1>5. LiveMembers' = [m \in Contract!Members |->
         IF m \in Roots \cup Copied THEN SavedMembers.contents[m] ELSE LiveMembers[m]]
  BY <1>1, <1>2, <1>4, MembersAreDisjoint DEF LiveMembers, Contract!Members, Scalars
<1>. QED BY <1>1, <1>3, <1>5 DEF Contract!EndRestore

(* The steps of a restore before its last, and the hooks that throw. *)
LEMMA RestoreStepRefines ==
    ASSUME IInv, IInv', UndoLast \/ UndoThrows \/ UndoDone \/ AssignThrows
    PROVE  Contract!RestoreStep \/ Contract!RestoreThrows
<1>1. SavedMembers' = SavedMembers
  BY DEF UndoLast, UndoThrows, UndoDone, AssignThrows, Assign, control, history, SavedMembers
<1>2. Contract!Changed
  BY LiveChanged DEF IInv
<1>3. ASSUME NEW m \in Requested \cup Varip
      PROVE  LiveMembers'[m] = LiveMembers[m]
  <2>1. m \in Scalars /\ m \notin Roots /\ m \notin Copied
    BY MembersAreDisjoint DEF Scalars
  <2>2. scalar'[m] = scalar[m]
    BY <2>1 DEF UndoLast, UndoThrows, UndoDone, AssignThrows, Assign, data
  <2>. QED BY <2>1, <2>2 DEF LiveMembers
<1>4. CASE UndoLast \/ UndoDone
  <2>1. hook # "none" /\ hook' # "none" /\ outcome' = outcome
    BY <1>4 DEF UndoLast, UndoDone, control
  <2>. QED BY <2>1, <1>1, <1>2, <1>3 DEF Contract!RestoreStep, Contract!KeptUnchanged
<1>5. CASE UndoThrows \/ AssignThrows
  <2>1. hook # "none" /\ hook' = "none" /\ outcome' = "threw"
    BY <1>5 DEF UndoThrows, AssignThrows, Assign
  <2>. QED BY <2>1, <1>1, <1>2, <1>3 DEF Contract!RestoreThrows, Contract!KeptUnchanged
<1>. QED BY <1>4, <1>5

(* A restore with a checkpoint begins the contract's restore. *)
LEMMA RestoreBeginRefines ==
    ASSUME IInv, RestoreBegin
    PROVE  Contract!BeginRestore
<1>1. \A r \in Roots : Valid(checkpoint.token[r], r)
  BY DEF RestoreBegin, IInv, TokensMatchJournal
<1>2. hook = "none" /\ hook' = "undo" /\ outcome' = outcome /\ checkpoint.taken
  BY <1>1 DEF RestoreBegin
<1>3. LiveMembers' = LiveMembers /\ SavedMembers' = SavedMembers
  BY DEF RestoreBegin, LiveMembers, SavedMembers, data, history
<1>. QED BY <1>2, <1>3 DEF Contract!BeginRestore, SavedMembers

(* A snapshot that throws changes nothing the contract sees. *)
LEMMA ThrowingSnapshotRefines ==
    ASSUME IInv, SnapshotThrows \/ GenerationsExhausted
    PROVE  Contract!TakeThrows
BY DEF SnapshotThrows, GenerationsExhausted, PublishedBeforeCopies, LiveMembers,
       SavedMembers, data, history, journal, Contract!TakeThrows

(* A new run empties the contract's state. *)
LEMMA PrepareRunRefines ==
    ASSUME IInv, PrepareRun
    PROVE  Contract!PrepareRun
<1>1. LiveMembers' = [m \in Roots \cup Scalars |-> IF m \in Roots THEN <<>> ELSE <<Default>>]
  BY DEF PrepareRun, LiveMembers, EmptyArrays, ResetScalars
<1>2. SavedMembers' = Contract!NoCheckpoint
  BY DEF PrepareRun, SavedMembers, NoCheckpoint, Contract!NoCheckpoint
<1>. QED BY <1>1, <1>2 DEF PrepareRun, Contract!PrepareRun

(* The journal and the hooks keep the promise of RollbackContract: a restore
   that returns is exact, touches nothing it must not, and a hook that throws
   leaves the checkpoint for a retry. *)
THEOREM HooksImplementContract ==
    ASSUME ~InsertMayTear
    PROVE  Spec => ImplementsContract
<1>1. Init => Contract!Init
  BY DEF Init, Contract!Init, LiveMembers, SavedMembers, EmptyArrays, ResetScalars,
         NoCheckpoint, Contract!NoCheckpoint
<1>2. IInv /\ IInv' /\ RecordsLinkContents /\ [Next]_vars => [Contract!Next]_(Contract!vars)
  <2> SUFFICES ASSUME IInv, IInv', RecordsLinkContents, [Next]_vars
               PROVE  Contract!Next \/ UNCHANGED Contract!vars
    OBVIOUS
  <2>1. CASE RunScript
    BY <2>1, ScriptRefines DEF Contract!Next
  <2>2. CASE Snapshot
    BY <2>2, SnapshotRefines DEF Contract!Next
  <2>3. CASE SnapshotThrows \/ GenerationsExhausted
    BY <2>3, ThrowingSnapshotRefines DEF Contract!Next
  <2>4. CASE RestoreBegin
    BY <2>4, RestoreBeginRefines DEF Contract!Next
  <2>5. CASE UndoLast \/ UndoThrows \/ UndoDone \/ AssignThrows
    BY <2>5, RestoreStepRefines DEF Contract!Next
  <2>6. CASE RestoreEnd
    BY <2>6, RestoreEndRefines DEF Contract!Next
  <2>7. CASE PrepareRun
    BY <2>7, PrepareRunRefines DEF Contract!Next
  <2>8. CASE UNCHANGED vars
    BY <2>8 DEF vars, Contract!vars, LiveMembers, SavedMembers
  <2>. QED BY <2>1, <2>2, <2>3, <2>4, <2>5, <2>6, <2>7, <2>8 DEF Next
<1>. QED BY <1>1, <1>2, InductiveInvariant, RecordsAlwaysLink, PTL DEF Spec, ImplementsContract, Contract!Spec
===============================================================================
