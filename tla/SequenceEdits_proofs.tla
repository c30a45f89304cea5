------------------------- MODULE SequenceEdits_proofs -------------------------
(***************************************************************************)
(* What the edits of a sequence return, and that each inverse edit an undo *)
(* record can hold gives the sequence back: for sequences over any set,    *)
(* as contents of arrays, rows and cells of matrices, pairs of maps and    *)
(* records of a journal.                                                   *)
(***************************************************************************)
EXTENDS SequencesExt, SequenceTheorems, TLAPS

(* A concatenation is cut back into its two parts. *)
LEMMA CutConcat ==
    ASSUME NEW S, NEW a \in Seq(S), NEW b \in Seq(S)
    PROVE  /\ SubSeq(a \o b, 1, Len(a)) = a
           /\ SubSeq(a \o b, Len(a) + 1, Len(a) + Len(b)) = b
<1> DEFINE t == a \o b
           c == SubSeq(t, 1, Len(a))
           d == SubSeq(t, Len(a) + 1, Len(a) + Len(b))
<1>1. t \in Seq(S) /\ Len(t) = Len(a) + Len(b)
  BY ConcatProperties
<1>2. \A j \in 1..Len(a) : t[j] = a[j]
  BY ConcatProperties
<1>3. \A j \in 1..Len(b) : t[Len(a) + j] = b[j]
  <2> SUFFICES ASSUME NEW j \in 1..Len(b) PROVE t[Len(a) + j] = b[j]
    OBVIOUS
  <2>. QED BY ConcatProperties
<1> HIDE DEF t
<1>4. \A j \in 1..Len(t) : t[j] \in S
  BY <1>1
<1>5. c = a
  <2>1. c \in Seq(S) /\ Len(c) = Len(a) /\ \A j \in 1..Len(a) : c[j] = t[j]
    BY <1>1, <1>4, SubSeqProperties
  <2>. QED BY <2>1, <1>2, SeqEqual
<1>6. d = b
  <2>1. d \in Seq(S) /\ Len(d) = Len(b) /\ \A j \in 1..Len(b) : d[j] = t[Len(a) + j]
    BY <1>1, <1>4, SubSeqProperties
  <2> HIDE DEF d
  <2>. QED BY <2>1, <1>3, SeqEqual
<1>. QED BY <1>5, <1>6 DEF t

(* Taking an element out and putting it back, in either order. *)
LEMMA RemoveThenInsert ==
    ASSUME NEW S, NEW s \in Seq(S), NEW i \in 1..Len(s)
    PROVE  /\ RemoveAt(s, i) \in Seq(S)
           /\ InsertAt(RemoveAt(s, i), i, s[i]) = s
<1> DEFINE a == SubSeq(s, 1, i - 1)
           b == SubSeq(s, i + 1, Len(s))
           t == a \o b
<1>1. a \in Seq(S) /\ Len(a) = i - 1
  BY SubSeqProperties
<1>2. b \in Seq(S) /\ Len(b) = Len(s) - i
  BY SubSeqProperties
<1>3. a \o <<s[i]>> = SubSeq(s, 1, i)
  BY SubSeqRecursiveSecond
<1>4. SubSeq(s, 1, i) \o b = s
  BY ConcatAdjacentSubSeq, SubSeqFull
<1> HIDE DEF a, b
<1>5. t \in Seq(S) /\ Len(t) = Len(a) + Len(b)
  BY <1>1, <1>2, ConcatProperties
<1>6. SubSeq(t, 1, Len(a)) = a /\ SubSeq(t, Len(a) + 1, Len(a) + Len(b)) = b
  BY <1>1, <1>2, CutConcat
<1>7. Len(a) + 1 = i
  BY <1>1
<1>8. SubSeq(t, 1, i - 1) = a /\ SubSeq(t, i, Len(t)) = b
  BY <1>1, <1>5, <1>6, <1>7
<1>. QED BY <1>3, <1>4, <1>5, <1>8 DEF RemoveAt, InsertAt, a, b, t

(* Removing the element just inserted gives the array back. *)
LEMMA InsertThenRemove ==
    ASSUME NEW S, NEW s \in Seq(S), NEW i \in 1..Len(s) + 1, NEW v \in S
    PROVE  /\ InsertAt(s, i, v) \in Seq(S)
           /\ RemoveAt(InsertAt(s, i, v), i) = s
<1> DEFINE a == SubSeq(s, 1, i - 1)
           b == SubSeq(s, i, Len(s))
           c == a \o <<v>>
           t == c \o b
<1>1. a \in Seq(S) /\ Len(a) = i - 1
  BY SubSeqProperties
<1>2. b \in Seq(S) /\ Len(b) = Len(s) - i + 1
  BY SubSeqProperties
<1>3. a \o b = s
  <2>1. PICK k \in 0..Len(s) : k = i - 1 /\ k + 1 = i
    OBVIOUS
  <2>2. SubSeq(s, 1, k) \o SubSeq(s, k + 1, Len(s)) = SubSeq(s, 1, Len(s))
    <3>1. 1 \in 1..Len(s) + 1 /\ k \in 1 - 1..Len(s) /\ Len(s) \in k..Len(s)
      OBVIOUS
    <3>. QED BY <3>1, ConcatAdjacentSubSeq
  <2>. QED BY <2>1, <2>2, SubSeqFull
<1> HIDE DEF a, b
<1>4. c \in Seq(S) /\ Len(c) = Len(a) + 1
  BY <1>1, ConcatProperties
<1> HIDE DEF c
<1>5. t \in Seq(S) /\ Len(t) = Len(c) + Len(b)
  BY <1>2, <1>4, ConcatProperties
<1>6. SubSeq(t, i + 1, Len(t)) = b
  <2>1. SubSeq(t, Len(c) + 1, Len(c) + Len(b)) = b
    BY <1>2, <1>4, CutConcat
  <2>. QED BY <2>1, <1>1, <1>4, <1>5
<1>7. t = a \o (<<v>> \o b) /\ <<v>> \o b \in Seq(S)
  BY <1>1, <1>2, ConcatAssociative, ConcatProperties DEF c
<1>8. SubSeq(t, 1, i - 1) = a
  BY <1>1, <1>7, CutConcat
<1>. QED BY <1>3, <1>5, <1>6, <1>8 DEF RemoveAt, InsertAt, a, b, c, t

(* What is left when an element is taken out. *)
LEMMA RemovedAt ==
    ASSUME NEW S, NEW s \in Seq(S), NEW i \in 1..Len(s)
    PROVE  /\ RemoveAt(s, i) \in Seq(S)
           /\ Len(RemoveAt(s, i)) = Len(s) - 1
           /\ \A j \in 1..Len(RemoveAt(s, i)) : RemoveAt(s, i)[j] = IF j < i THEN s[j] ELSE s[j + 1]
<1> DEFINE a == SubSeq(s, 1, i - 1)
           b == SubSeq(s, i + 1, Len(s))
<1>1. \A j \in 1..Len(s) : s[j] \in S
  OBVIOUS
<1>2. a \in Seq(S) /\ Len(a) = i - 1 /\ \A j \in 1..i - 1 : a[j] = s[j]
  BY <1>1, SubSeqProperties
<1>3. b \in Seq(S) /\ Len(b) = Len(s) - i /\ \A j \in 1..Len(s) - i : b[j] = s[i + j]
  <2>1. \A j \in i + 1..Len(s) : s[j] \in S
    BY <1>1
  <2>2. /\ b \in Seq(S) /\ Len(b) = IF i + 1 <= Len(s) THEN Len(s) - (i + 1) + 1 ELSE 0
        /\ \A j \in 1..Len(s) - (i + 1) + 1 : b[j] = s[(i + 1) + j - 1]
    BY <2>1, SubSeqProperties
  <2>. HIDE DEF b
  <2>. QED BY <2>2
<1>4. RemoveAt(s, i) = a \o b
  BY DEF RemoveAt
<1>. HIDE DEF a, b
<1>5. /\ a \o b \in Seq(S) /\ Len(a \o b) = Len(a) + Len(b)
      /\ \A j \in 1..Len(a) + Len(b) : (a \o b)[j] = IF j <= Len(a) THEN a[j] ELSE b[j - Len(a)]
  BY <1>2, <1>3, ConcatProperties
<1>. DEFINE t == a \o b
<1>6. t \in Seq(S) /\ Len(t) = Len(s) - 1
  BY <1>2, <1>3, <1>5
<1>7. ASSUME NEW j \in 1..Len(t) PROVE t[j] = IF j < i THEN s[j] ELSE s[j + 1]
  <2>1. j \in 1..Len(s) - 1 /\ t[j] = IF j <= i - 1 THEN a[j] ELSE b[j - (i - 1)]
    BY <1>2, <1>3, <1>5, <1>6, <1>7
  <2>2. CASE j < i
    BY <1>2, <2>1, <2>2
  <2>3. CASE ~(j < i)
    <3>1. j - (i - 1) \in 1..Len(s) - i /\ i + (j - (i - 1)) = j + 1
      BY <2>1, <2>3
    <3>. QED BY <1>3, <2>1, <2>3, <3>1
  <2>. QED BY <2>2, <2>3
<1>. QED BY <1>4, <1>6, <1>7

(* What is there once an element is put in. *)
LEMMA InsertedAt ==
    ASSUME NEW S, NEW s \in Seq(S), NEW i \in 1..Len(s) + 1, NEW v \in S
    PROVE  /\ InsertAt(s, i, v) \in Seq(S)
           /\ Len(InsertAt(s, i, v)) = Len(s) + 1
           /\ \A j \in 1..Len(s) + 1 :
                 InsertAt(s, i, v)[j] = v \/ \E n \in 1..Len(s) : InsertAt(s, i, v)[j] = s[n]
<1> DEFINE a == SubSeq(s, 1, i - 1)
           b == SubSeq(s, i, Len(s))
           c == a \o <<v>>
           t == c \o b
<1>1. a \in Seq(S) /\ Len(a) = i - 1 /\ \A j \in 1..i - 1 : a[j] = s[j]
  <2>1. \A j \in 1..i - 1 : s[j] \in S
    OBVIOUS
  <2>. QED BY <2>1, SubSeqProperties
<1>2. b \in Seq(S) /\ Len(b) = Len(s) - i + 1 /\ \A j \in 1..Len(s) - i + 1 : b[j] = s[i + j - 1]
  <2>1. \A j \in i..Len(s) : s[j] \in S
    OBVIOUS
  <2>2. /\ b \in Seq(S) /\ Len(b) = IF i <= Len(s) THEN Len(s) - i + 1 ELSE 0
        /\ \A j \in 1..Len(s) - i + 1 : b[j] = s[i + j - 1]
    BY <2>1, SubSeqProperties
  <2>. HIDE DEF b
  <2>. QED BY <2>2
<1>3. InsertAt(s, i, v) = t
  BY DEF InsertAt
<1>. HIDE DEF a, b
<1>4. c \in Seq(S) /\ Len(c) = i /\ \A j \in 1..i : c[j] = IF j <= i - 1 THEN a[j] ELSE v
  BY <1>1
<1>. HIDE DEF c
<1>5. /\ t \in Seq(S) /\ Len(t) = Len(c) + Len(b)
      /\ \A j \in 1..Len(c) + Len(b) : t[j] = IF j <= Len(c) THEN c[j] ELSE b[j - Len(c)]
  BY <1>2, <1>4, ConcatProperties
<1>. HIDE DEF t
<1>6. Len(s) \in Nat /\ i \in Nat /\ i <= Len(s) + 1 /\ Len(t) = Len(s) + 1
  BY <1>2, <1>4, <1>5
<1>7. ASSUME NEW j \in 1..Len(s) + 1 PROVE t[j] = v \/ \E n \in 1..Len(s) : t[j] = s[n]
  <2>0. j \in Nat /\ j \in 1..Len(c) + Len(b)
    BY <1>2, <1>4, <1>6
  <2>1. CASE j <= i - 1
    <3>1. j \in 1..i /\ j \in 1..i - 1 /\ j \in 1..Len(s)
      BY <1>6, <2>0, <2>1
    <3>. QED BY <1>1, <1>4, <1>5, <2>0, <2>1, <3>1
  <2>2. CASE j = i
    <3>1. j \in 1..i /\ ~(j <= i - 1) /\ j <= Len(c)
      BY <1>4, <1>6, <2>0, <2>2
    <3>. QED BY <1>4, <1>5, <2>0, <3>1
  <2>3. CASE j > i
    <3>1. j - i \in 1..Len(s) - i + 1 /\ t[j] = b[j - i] /\ i + (j - i) - 1 = j - 1
      BY <1>2, <1>4, <1>5, <1>6, <2>0, <2>3
    <3>2. j - 1 \in 1..Len(s)
      BY <1>6, <2>0, <2>3
    <3>. QED BY <1>2, <3>1, <3>2
  <2>. QED BY <1>6, <2>0, <2>1, <2>2, <2>3
<1>. QED BY <1>3, <1>5, <1>6, <1>7

(* Appending is inserting after the last element. *)
LEMMA AppendIsInsert ==
    ASSUME NEW S, NEW s \in Seq(S), NEW v \in S
    PROVE  Append(s, v) = InsertAt(s, Len(s) + 1, v)
<1>1. SubSeq(s, 1, (Len(s) + 1) - 1) = s
  <2>1. SubSeq(s, 1, Len(s)) \in Seq(S) /\ Len(SubSeq(s, 1, Len(s))) = Len(s)
        /\ \A i \in 1..Len(s) : SubSeq(s, 1, Len(s))[i] = s[i]
    BY SubSeqProperties
  <2>2. SubSeq(s, 1, Len(s)) = s
    BY <2>1
  <2>. QED BY <2>2
<1>2. SubSeq(s, Len(s) + 1, Len(s)) = <<>>
  <2>. DEFINE e == SubSeq(s, Len(s) + 1, Len(s))
  <2>1. e \in Seq(S) /\ Len(e) = 0
    BY SubSeqProperties
  <2>. HIDE DEF e
  <2>2. e = <<>>
    BY <2>1, EmptySeq
  <2>. QED BY <2>2 DEF e
<1>3. InsertAt(s, Len(s) + 1, v) = s \o <<v>> \o <<>>
  BY <1>1, <1>2 DEF InsertAt
<1>4. (s \o <<v>>) \o <<>> = s \o <<v>>
  <2>. DEFINE t == s \o <<v>>
  <2>1. t \in Seq(S)
    BY ConcatProperties
  <2>. HIDE DEF t
  <2>2. t \o <<>> = t
    BY <2>1
  <2>. QED BY <2>2 DEF t
<1>5. Append(s, v) = s \o <<v>>
  OBVIOUS
<1>. QED BY <1>3, <1>4, <1>5

(* Removing the element just appended gives the sequence back. *)
LEMMA AppendThenRemove ==
    ASSUME NEW S, NEW s \in Seq(S), NEW v \in S
    PROVE  RemoveAt(Append(s, v), Len(s) + 1) = s
<1> DEFINE t == Append(s, v)
           u == RemoveAt(t, Len(s) + 1)
<1>1. t \in Seq(S) /\ Len(t) = Len(s) + 1 /\ \A j \in 1..Len(s) : t[j] = s[j]
  OBVIOUS
<1>. HIDE DEF t
<1>2. Len(s) + 1 \in 1..Len(t)
  BY <1>1
<1>3. u \in Seq(S) /\ Len(u) = Len(s) /\ \A j \in 1..Len(s) : u[j] = t[j]
  BY <1>1, <1>2, RemovedAt
<1>. HIDE DEF u
<1>4. u = s
  BY <1>1, <1>3, SeqEqual
<1>. QED BY <1>4 DEF t, u

(* What Append returns: the list of records and the record at its end. *)
LEMMA AppendFacts ==
    ASSUME NEW S, NEW s \in Seq(S), NEW e \in S
    PROVE  /\ Append(s, e) \in Seq(S)
           /\ Len(Append(s, e)) = Len(s) + 1
           /\ \A i \in 1..Len(s) : Append(s, e)[i] = s[i]
           /\ Append(s, e)[Len(s) + 1] = e
OBVIOUS

(* What dropping the last record leaves. *)
LEMMA FrontFacts ==
    ASSUME NEW S, NEW s \in Seq(S), s # <<>>
    PROVE  /\ Len(s) \in Nat \ {0}
           /\ Front(s) \in Seq(S)
           /\ Len(Front(s)) = Len(s) - 1
           /\ \A i \in 1..Len(s) - 1 : Front(s)[i] = s[i]
           /\ Last(s) = s[Len(s)]
           /\ Last(s) \in S
<1>1. Len(s) \in Nat \ {0}
  OBVIOUS
<1>2. PICK n \in Nat : Len(s) = n + 1 /\ n = Len(s) - 1
  BY <1>1
<1>3. /\ SubSeq(s, 1, n) \in Seq(S)
      /\ Len(SubSeq(s, 1, n)) = n
      /\ \A i \in 1..n : SubSeq(s, 1, n)[i] = s[i]
  <2>1. \A i \in 1..n : s[i] \in S
    BY <1>2
  <2>. QED BY <2>1, SubSeqProperties
<1>. QED BY <1>1, <1>2, <1>3 DEF Front, Last
===============================================================================
