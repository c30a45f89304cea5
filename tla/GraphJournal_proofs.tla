-------------------------- MODULE GraphJournal_proofs --------------------------
(***************************************************************************)
(* Proofs about GraphJournal for every set of roots, keys and values,      *)
(* every size of a payload and every number of records and generations.    *)
(* Where nothing is said of AddRowMayTear, they hold for both kinds.       *)
(***************************************************************************)
EXTENDS GraphJournal, SequenceEdits_proofs, FiniteSetTheorems

-------------------------------------------------------------------------------
(* Maps: the undo of an edit inverts it, and the engine accepts it.          *)

LEMMA PositionOfKey ==
    ASSUME NEW m \in Maps, NEW k, HasKey(m, k)
    PROVE  /\ Position(m, k) \in 1..Len(m)
           /\ m[Position(m, k)].key = k
           /\ \A i \in 1..Len(m) : m[i].key = k => i = Position(m, k)
<1>1. m \in Seq(Pair) /\ DOMAIN m = 1..Len(m)
  BY DEF Maps
<1>2. Position(m, k) \in DOMAIN m /\ m[Position(m, k)].key = k
  BY DEF HasKey, Position
<1>. QED BY <1>1, <1>2 DEF Maps, DistinctKeys

(* PineMap::put overwrites in place or appends, and keeps the keys distinct. *)
LEMMA PutIsAMap ==
    ASSUME NEW m \in Maps, NEW k \in Keys, NEW v \in Val
    PROVE  PutIn(m, k, v) \in Maps
<1>. DEFINE p == [key |-> k, value |-> v]
<1>1. p \in Pair /\ p.key = k
  BY DEF Pair
<1>2. m \in Seq(Pair) /\ DOMAIN m = 1..Len(m) /\ \A i, j \in 1..Len(m) : m[i].key = m[j].key => i = j
  BY DEF Maps, DistinctKeys
<1>. HIDE DEF p
<1>3. CASE HasKey(m, k)
  <2>. DEFINE n == [m EXCEPT ![Position(m, k)] = p]
  <2>1. PutIn(m, k, v) = n
    BY <1>3 DEF PutIn, p
  <2>2. n \in Seq(Pair) /\ DOMAIN n = 1..Len(m)
    BY <1>1, <1>2, <1>3, PositionOfKey, ExceptSeq
  <2>3. \A i \in 1..Len(m) : n[i].key = m[i].key
    BY <1>1, <1>2, <1>3, PositionOfKey
  <2>. HIDE DEF n
  <2>. QED BY <1>2, <2>1, <2>2, <2>3 DEF Maps, DistinctKeys
<1>4. CASE ~HasKey(m, k)
  <2>. DEFINE n == Append(m, p)
  <2>1. PutIn(m, k, v) = n
    BY <1>4 DEF PutIn, p
  <2>2. /\ n \in Seq(Pair) /\ DOMAIN n = 1..Len(m) + 1 /\ n[Len(m) + 1] = p
        /\ \A i \in 1..Len(m) : n[i] = m[i]
    BY <1>1, <1>2, AppendFacts
  <2>3. \A i \in 1..Len(m) : m[i].key # k
    BY <1>2, <1>4 DEF HasKey
  <2>. HIDE DEF n
  <2>. QED BY <1>1, <1>2, <2>1, <2>2, <2>3 DEF Maps, DistinctKeys
<1>. QED BY <1>3, <1>4

(* A removal keeps the keys distinct. *)
LEMMA RemovalIsAMap == ASSUME NEW m \in Maps, NEW k PROVE RemovePair(m, k) \in Maps
<1>1. CASE ~HasKey(m, k)
  BY <1>1 DEF RemovePair
<1>2. CASE HasKey(m, k)
  <2>. DEFINE at == Position(m, k)
              n == RemoveAt(m, at)
  <2>1. m \in Seq(Pair) /\ \A i, j \in 1..Len(m) : m[i].key = m[j].key => i = j
    BY DEF Maps, DistinctKeys
  <2>2. at \in 1..Len(m)
    BY <1>2, PositionOfKey
  <2>. HIDE DEF at
  <2>3. /\ n \in Seq(Pair) /\ Len(n) = Len(m) - 1
        /\ \A i \in 1..Len(n) : n[i] = IF i < at THEN m[i] ELSE m[i + 1]
    BY <2>1, <2>2, RemovedAt
  <2>. HIDE DEF n
  <2>4. \A i, j \in 1..Len(n) : n[i].key = n[j].key => i = j
    <3>1. TAKE i, j \in 1..Len(n)
    <3>2. HAVE n[i].key = n[j].key
    <3>3. PICK a, b \in 1..Len(m) : /\ n[i] = m[a] /\ n[j] = m[b]
                                    /\ a = IF i < at THEN i ELSE i + 1
                                    /\ b = IF j < at THEN j ELSE j + 1
      BY <2>1, <2>2, <2>3
    <3>4. a = b
      BY <2>1, <3>2, <3>3
    <3>. QED BY <2>2, <3>3, <3>4
  <2>5. RemovePair(m, k) = n
    BY <1>2 DEF RemovePair, n, at
  <2>. QED BY <2>3, <2>4, <2>5 DEF Maps, DistinctKeys
<1>. QED BY <1>1, <1>2

(* MapTarget::put: the undo puts the old value back, or takes the new pair out;
   if nothing was put it changes nothing. *)
LEMMA PutIsUndone ==
    ASSUME NEW m \in Maps, NEW k \in Keys, NEW v \in Val
    PROVE  /\ Apply(PairBack(m, k), PutIn(m, k, v)) = m
           /\ Apply(PairBack(m, k), m) = m
           /\ Accepts(PairBack(m, k), PutIn(m, k, v))
           /\ Accepts(PairBack(m, k), m)
<1>. DEFINE p == [key |-> k, value |-> v]
            n == PutIn(m, k, v)
<1>1. p \in Pair /\ p.key = k
  BY DEF Pair
<1>2. m \in Seq(Pair) /\ DOMAIN m = 1..Len(m)
  BY DEF Maps
<1>3. ASSUME HasKey(m, k)
      PROVE  Apply(PairBack(m, k), n) = m /\ Apply(PairBack(m, k), m) = m
  <2>. DEFINE at == Position(m, k)
              q == [key |-> k, value |-> m[at].value]
  <2>1. at \in 1..Len(m) /\ m[at].key = k /\ m[at] \in Pair
    BY <1>2, <1>3, PositionOfKey
  <2>2. m[at] = q
    BY <2>1 DEF Pair
  <2>3. n = [m EXCEPT ![at] = p]
    BY <1>3 DEF PutIn
  <2>4. \A c : Apply(PairBack(m, k), c) = PutIn(c, k, m[at].value)
    BY <1>3 DEF Apply, PairBack, IsDelta
  <2>5. n \in Maps /\ n \in Seq(Pair) /\ DOMAIN n = 1..Len(m) /\ Len(n) = Len(m)
    <3>1. n \in Maps
      BY PutIsAMap
    <3>. HIDE DEF q, p
    <3>. QED BY <1>1, <1>2, <2>1, <2>3, <3>1, ExceptSeq
  <2>6. n[at].key = k
    BY <1>1, <1>2, <2>1, <2>3
  <2>7. HasKey(n, k) /\ Position(n, k) = at
    <3>1. HasKey(n, k)
      BY <2>1, <2>5, <2>6 DEF HasKey
    <3>. HIDE DEF n, at, q, p
    <3>. QED BY <2>1, <2>5, <2>6, <3>1, PositionOfKey
  <2>8. PutIn(n, k, m[at].value) = [n EXCEPT ![at] = q]
    <3>. HIDE DEF n, at
    <3>. QED BY <2>7 DEF PutIn, q
  <2>9. PutIn(m, k, m[at].value) = [m EXCEPT ![at] = q]
    BY <1>3 DEF PutIn
  <2>10. [m EXCEPT ![at] = q] = m
    <3>. HIDE DEF q, p, at
    <3>. QED BY <1>2, <2>1, <2>2
  <2>11. [n EXCEPT ![at] = q] = [m EXCEPT ![at] = q]
    <3>1. n = [m EXCEPT ![at] = p]
      BY <2>3
    <3>. HIDE DEF n, q, p, at
    <3>. QED BY <1>2, <2>1, <3>1
  <2>. QED BY <2>4, <2>8, <2>9, <2>10, <2>11
<1>4. ASSUME ~HasKey(m, k)
      PROVE  Apply(PairBack(m, k), n) = m /\ Apply(PairBack(m, k), m) = m
  <2>1. \A c : Apply(PairBack(m, k), c) = RemovePair(c, k)
    BY <1>4 DEF Apply, PairBack, IsDelta
  <2>2. RemovePair(m, k) = m
    BY <1>4 DEF RemovePair
  <2>3. n = Append(m, p)
    BY <1>4 DEF PutIn
  <2>4. n \in Maps /\ n \in Seq(Pair) /\ Len(n) = Len(m) + 1 /\ n[Len(m) + 1].key = k
    <3>1. n \in Maps
      BY PutIsAMap
    <3>. HIDE DEF p
    <3>. QED BY <1>1, <1>2, <2>3, <3>1, AppendFacts
  <2>5. Len(m) \in Nat /\ DOMAIN n = 1..Len(n)
    BY <1>2, <2>4
  <2>6. HasKey(n, k) /\ Position(n, k) = Len(m) + 1
    <3>1. HasKey(n, k)
      BY <2>4, <2>5 DEF HasKey
    <3>. HIDE DEF n, p
    <3>. QED BY <2>4, <2>5, <3>1, PositionOfKey
  <2>7. RemoveAt(n, Len(m) + 1) = m
    <3>. HIDE DEF p
    <3>. QED BY <1>1, <1>2, <2>3, AppendThenRemove
  <2>8. RemovePair(n, k) = m
    <3>. HIDE DEF n, p
    <3>. QED BY <2>6, <2>7 DEF RemovePair
  <2>. QED BY <2>1, <2>2, <2>8
<1>5. Accepts(PairBack(m, k), n) /\ Accepts(PairBack(m, k), m)
  <2>1. n # Na /\ m # Na
    BY PutIsAMap, NaIsNoPayload
  <2>. HIDE DEF n
  <2>. QED BY <2>1 DEF Accepts, PairBack
<1>. QED BY <1>3, <1>4, <1>5

-------------------------------------------------------------------------------
(* Matrices: the undo of an edit inverts it, and the engine accepts it.      *)

(* The rows of a matrix all have its number of columns. *)
LEMMA RowsOfMatrix ==
    ASSUME NEW c \in Matrices
    PROVE  /\ c \in Seq(Seq(Val)) /\ DOMAIN c = 1..Len(c) /\ Len(c) \in Nat /\ Columns(c) \in Nat
           /\ \A i \in 1..Len(c) : c[i] \in Seq(Val) /\ Len(c[i]) = Columns(c)
                                   /\ DOMAIN c[i] = 1..Columns(c)
<1>1. c \in Seq(Seq(Val)) /\ DOMAIN c = 1..Len(c) /\ Len(c) \in Nat
  BY DEF Matrices
<1>2. \A i \in 1..Len(c) : c[i] \in Seq(Val)
  BY <1>1
<1>3. ASSUME NEW i \in 1..Len(c) PROVE Len(c[i]) = Columns(c)
  <2>1. c # <<>> /\ 1 \in 1..Len(c)
    BY <1>1
  <2>. QED BY <1>1, <2>1 DEF Matrices, Rectangular, Columns
<1>4. Columns(c) \in Nat
  <2>1. CASE c = <<>>
    BY <2>1 DEF Columns
  <2>2. CASE c # <<>>
    <3>1. 1 \in 1..Len(c)
      BY <1>1, <2>2
    <3>. QED BY <1>2, <3>1, <2>2 DEF Columns
  <2>. QED BY <2>1, <2>2
<1>. QED BY <1>1, <1>2, <1>3, <1>4

(* A matrix with a column has a row. *)
LEMMA ColumnsNeedRows ==
    ASSUME NEW c \in Matrices, NEW i \in 1..Columns(c)
    PROVE  c # <<>> /\ 1 \in 1..Len(c)
<1>1. c # <<>>
  BY DEF Columns
<1>. QED BY <1>1, RowsOfMatrix

(* A column has one value of each row. *)
LEMMA ColumnOfMatrix ==
    ASSUME NEW c \in Matrices, NEW i \in 1..Columns(c)
    PROVE  Column(c, i) \in [1..Len(c) -> Val] /\ Len(Column(c, i)) = Len(c)
<1>1. /\ DOMAIN c = 1..Len(c) /\ Len(c) \in Nat
      /\ \A m \in 1..Len(c) : c[m] \in Seq(Val) /\ Len(c[m]) = Columns(c)
  BY RowsOfMatrix
<1>2. \A m \in 1..Len(c) : c[m][i] \in Val
  BY <1>1
<1>3. Column(c, i) \in [1..Len(c) -> Val]
  BY <1>1, <1>2 DEF Column
<1>. HIDE DEF Column
<1>. QED BY <1>1, <1>3

(* Rows of one length are a matrix. *)
LEMMA MatrixOfRows ==
    ASSUME NEW c \in Seq(Seq(Val)), NEW n, \A i \in 1..Len(c) : Len(c[i]) = n
    PROVE  c \in Matrices
<1>1. DOMAIN c = 1..Len(c)
  OBVIOUS
<1>. QED BY <1>1 DEF Matrices, Rectangular

(* An element overwritten and written back. *)
LEMMA WrittenBack ==
    ASSUME NEW S, NEW s \in Seq(S), NEW i \in 1..Len(s), NEW v
    PROVE  [[s EXCEPT ![i] = v] EXCEPT ![i] = s[i]] = s /\ [s EXCEPT ![i] = s[i]] = s
<1>1. s = [m \in DOMAIN s |-> s[m]] /\ DOMAIN s = 1..Len(s)
  OBVIOUS
<1>2. [[s EXCEPT ![i] = v] EXCEPT ![i] = s[i]] = [m \in DOMAIN s |-> s[m]]
  BY <1>1
<1>3. [s EXCEPT ![i] = s[i]] = [m \in DOMAIN s |-> s[m]]
  BY <1>1
<1>. QED BY <1>1, <1>2, <1>3

(* matrix.set: the old value of the cell goes back. *)
LEMMA CellIsUndone ==
    ASSUME NEW c \in Matrices, NEW i \in 1..Len(c), NEW j \in 1..Columns(c), NEW v \in Val
    PROVE  /\ SetCell(c, i, j, v) \in Matrices
           /\ Apply(CellBack(c, i, j), SetCell(c, i, j, v)) = c
           /\ Apply(CellBack(c, i, j), c) = c
           /\ Accepts(CellBack(c, i, j), SetCell(c, i, j, v))
           /\ Accepts(CellBack(c, i, j), c)
<1>. DEFINE n == [c[i] EXCEPT ![j] = v]
            d == [c EXCEPT ![i] = n]
<1>1. /\ c \in Seq(Seq(Val)) /\ DOMAIN c = 1..Len(c)
      /\ \A m \in 1..Len(c) : c[m] \in Seq(Val) /\ Len(c[m]) = Columns(c)
      /\ DOMAIN c[i] = 1..Columns(c)
  BY RowsOfMatrix
<1>2. n \in Seq(Val) /\ Len(n) = Columns(c) /\ DOMAIN n = 1..Columns(c) /\ c[i][j] \in Val
  BY <1>1, ExceptSeq
<1>3. [n EXCEPT ![j] = c[i][j]] = c[i] /\ [c[i] EXCEPT ![j] = c[i][j]] = c[i]
  <2>1. c[i] \in Seq(Val) /\ j \in 1..Len(c[i])
    BY <1>1
  <2>. QED BY <2>1, WrittenBack
<1>4. SetCell(c, i, j, v) = d
  BY DEF SetCell
<1>5. \A e : Apply(CellBack(c, i, j), e) = [e EXCEPT ![i] = [e[i] EXCEPT ![j] = c[i][j]]]
  BY DEF Apply, CellBack, IsDelta, SetCell
<1>. HIDE DEF n
<1>6. d \in Seq(Seq(Val)) /\ DOMAIN d = 1..Len(c) /\ Len(d) = Len(c) /\ d[i] = n
  BY <1>1, <1>2, ExceptSeq
<1>7. \A m \in 1..Len(d) : Len(d[m]) = Columns(c)
  BY <1>1, <1>2, <1>6
<1>8. d \in Matrices
  <2>. HIDE DEF d
  <2>. QED BY <1>6, <1>7, MatrixOfRows
<1>9. [d EXCEPT ![i] = c[i]] = c /\ [c EXCEPT ![i] = c[i]] = c
  BY <1>1, WrittenBack
<1>. HIDE DEF d
<1>10. Columns(d) = Columns(c)
  BY <1>6, <1>7, <1>8, RowsOfMatrix
<1>11. Accepts(CellBack(c, i, j), d) /\ Accepts(CellBack(c, i, j), c)
  BY <1>1, <1>6, <1>8, <1>10, NaIsNoPayload DEF Accepts, CellBack
<1>. QED BY <1>3, <1>4, <1>5, <1>6, <1>8, <1>9, <1>11

(* matrix.add_row: the row is dropped. *)
LEMMA AddedRowIsUndone ==
    ASSUME NEW c \in Matrices, NEW i \in 1..Len(c) + 1, NEW row \in Seq(Val),
           c # <<>> => Len(row) = Columns(c)
    PROVE  /\ InsertAt(c, i, row) \in Matrices
           /\ Apply(DropRow(i), InsertAt(c, i, row)) = c
           /\ Accepts(DropRow(i), InsertAt(c, i, row))
<1>. DEFINE d == InsertAt(c, i, row)
<1>1. /\ c \in Seq(Seq(Val)) /\ Len(c) \in Nat
      /\ \A m \in 1..Len(c) : Len(c[m]) = Columns(c)
  BY RowsOfMatrix
<1>2. /\ d \in Seq(Seq(Val)) /\ Len(d) = Len(c) + 1
      /\ \A m \in 1..Len(c) + 1 : d[m] = row \/ \E n \in 1..Len(c) : d[m] = c[n]
  BY <1>1, InsertedAt
<1>3. RemoveAt(d, i) = c
  BY <1>1, InsertThenRemove
<1>. HIDE DEF d
<1>4. \A m \in 1..Len(d) : Len(d[m]) = Len(row)
  <2>1. \A n \in 1..Len(c) : Len(c[n]) = Len(row)
    BY <1>1
  <2>. QED BY <1>2, <2>1
<1>5. d \in Matrices
  BY <1>2, <1>4, MatrixOfRows
<1>6. Apply(DropRow(i), d) = RemoveAt(d, i)
  BY DEF Apply, DropRow, IsDelta
<1>7. Accepts(DropRow(i), d)
  BY <1>1, <1>2, <1>5, NaIsNoPayload DEF Accepts, DropRow
<1>. QED BY <1>3, <1>5, <1>6, <1>7 DEF d

(* matrix.remove_row: the row goes back where it was. *)
LEMMA RemovedRowIsUndone ==
    ASSUME NEW c \in Matrices, NEW i \in 1..Len(c)
    PROVE  /\ RemoveAt(c, i) \in Matrices
           /\ Apply(RowBack(c, i), RemoveAt(c, i)) = c
           /\ Accepts(RowBack(c, i), RemoveAt(c, i))
<1>. DEFINE d == RemoveAt(c, i)
<1>1. /\ c \in Seq(Seq(Val)) /\ Len(c) \in Nat
      /\ \A m \in 1..Len(c) : Len(c[m]) = Columns(c)
  BY RowsOfMatrix
<1>2. /\ d \in Seq(Seq(Val)) /\ Len(d) = Len(c) - 1
      /\ \A m \in 1..Len(d) : d[m] = IF m < i THEN c[m] ELSE c[m + 1]
  BY <1>1, RemovedAt
<1>3. InsertAt(d, i, c[i]) = c
  BY <1>1, RemoveThenInsert
<1>. HIDE DEF d
<1>4. ASSUME NEW m \in 1..Len(d) PROVE Len(d[m]) = Columns(c)
  <2>1. m \in 1..Len(c) /\ m + 1 \in 1..Len(c)
    BY <1>1, <1>2
  <2>. QED BY <1>1, <1>2, <2>1
<1>5. d \in Matrices
  BY <1>2, <1>4, MatrixOfRows
<1>6. Apply(RowBack(c, i), d) = InsertAt(d, i, c[i])
  BY DEF Apply, RowBack, IsDelta
<1>7. d # <<>> => Columns(d) = Columns(c)
  <2>1. d # <<>> => 1 \in 1..Len(d)
    BY <1>2
  <2>. QED BY <1>4, <1>5, <2>1, RowsOfMatrix
<1>8. Accepts(RowBack(c, i), d)
  BY <1>1, <1>2, <1>5, <1>7, NaIsNoPayload DEF Accepts, RowBack
<1>. QED BY <1>3, <1>5, <1>6, <1>8 DEF d

(* A function of the rows that gives rows of one length gives a matrix. *)
LEMMA MapRows ==
    ASSUME NEW c \in Matrices, NEW d, NEW n,
           DOMAIN d = DOMAIN c, d = [m \in DOMAIN d |-> d[m]],
           \A m \in 1..Len(c) : d[m] \in Seq(Val) /\ Len(d[m]) = n
    PROVE  d \in Matrices /\ Len(d) = Len(c) /\ DOMAIN d = 1..Len(c)
<1>1. DOMAIN c = 1..Len(c) /\ Len(c) \in Nat
  BY RowsOfMatrix
<1>2. d \in [1..Len(c) -> Seq(Val)]
  BY <1>1
<1>3. d \in Seq(Seq(Val))
  BY <1>1, <1>2
<1>4. Len(d) = Len(c)
  BY <1>1, <1>2, <1>3
<1>. QED BY <1>1, <1>3, <1>4, MatrixOfRows

(* matrix.add_col: the column is dropped. *)
LEMMA AddedColumnIsUndone ==
    ASSUME NEW c \in Matrices, NEW i \in 1..Columns(c) + 1, NEW col \in [DOMAIN c -> Val]
    PROVE  /\ AddColumn(c, i, col) \in Matrices
           /\ Apply(DropColumn(i), AddColumn(c, i, col)) = c
           /\ c # <<>> => Accepts(DropColumn(i), AddColumn(c, i, col))
<1>. DEFINE d == AddColumn(c, i, col)
<1>1. /\ c \in Seq(Seq(Val)) /\ DOMAIN c = 1..Len(c) /\ Columns(c) \in Nat
      /\ \A m \in 1..Len(c) : c[m] \in Seq(Val) /\ Len(c[m]) = Columns(c)
  BY RowsOfMatrix
<1>2. d = [m \in DOMAIN c |-> InsertAt(c[m], i, col[m])]
  BY DEF AddColumn
<1>3. ASSUME NEW m \in 1..Len(c)
      PROVE  /\ d[m] \in Seq(Val) /\ Len(d[m]) = Columns(c) + 1
             /\ RemoveAt(d[m], i) = c[m]
  <2>1. c[m] \in Seq(Val) /\ i \in 1..Len(c[m]) + 1 /\ col[m] \in Val
    BY <1>1
  <2>2. d[m] = InsertAt(c[m], i, col[m])
    BY <1>1, <1>2
  <2>. QED BY <1>1, <2>1, <2>2, InsertedAt, InsertThenRemove
<1>4. d \in Matrices /\ DOMAIN d = 1..Len(c)
  <2>1. DOMAIN d = DOMAIN c /\ d = [m \in DOMAIN d |-> d[m]]
    BY <1>2
  <2>. HIDE DEF d
  <2>. QED BY <1>3, <2>1, MapRows
<1>. HIDE DEF d
<1>5. Apply(DropColumn(i), d) = [m \in DOMAIN d |-> RemoveAt(d[m], i)]
  BY DEF Apply, DropColumn, IsDelta, RemoveColumn
<1>6. [m \in DOMAIN d |-> RemoveAt(d[m], i)] = c
  BY <1>1, <1>3, <1>4
<1>7. ASSUME c # <<>> PROVE Accepts(DropColumn(i), d)
  <2>1. 1 \in 1..Len(c) /\ 1 \in 1..Len(d)
    BY <1>1, <1>4, <1>7, RowsOfMatrix
  <2>2. Columns(d) = Columns(c) + 1
    BY <1>3, <1>4, <2>1, RowsOfMatrix
  <2>. QED BY <1>1, <1>4, <2>2, NaIsNoPayload DEF Accepts, DropColumn
<1>. QED BY <1>4, <1>5, <1>6, <1>7 DEF d

(* matrix.remove_col: the column goes back where it was. *)
LEMMA RemovedColumnIsUndone ==
    ASSUME NEW c \in Matrices, NEW i \in 1..Columns(c)
    PROVE  /\ RemoveColumn(c, i) \in Matrices
           /\ Apply(ColumnBack(c, i), RemoveColumn(c, i)) = c
           /\ Accepts(ColumnBack(c, i), RemoveColumn(c, i))
<1>. DEFINE d == RemoveColumn(c, i)
<1>1. /\ c \in Seq(Seq(Val)) /\ DOMAIN c = 1..Len(c) /\ Columns(c) \in Nat
      /\ \A m \in 1..Len(c) : c[m] \in Seq(Val) /\ Len(c[m]) = Columns(c)
  BY RowsOfMatrix
<1>2. d = [m \in DOMAIN c |-> RemoveAt(c[m], i)]
  BY DEF RemoveColumn
<1>3. ASSUME NEW m \in 1..Len(c)
      PROVE  /\ d[m] \in Seq(Val) /\ Len(d[m]) = Columns(c) - 1
             /\ InsertAt(d[m], i, c[m][i]) = c[m]
  <2>1. c[m] \in Seq(Val) /\ i \in 1..Len(c[m])
    BY <1>1
  <2>2. d[m] = RemoveAt(c[m], i)
    BY <1>1, <1>2
  <2>. QED BY <1>1, <2>1, <2>2, RemovedAt, RemoveThenInsert
<1>4. d \in Matrices /\ DOMAIN d = 1..Len(c)
  <2>1. DOMAIN d = DOMAIN c /\ d = [m \in DOMAIN d |-> d[m]]
    BY <1>2
  <2>. HIDE DEF d
  <2>. QED BY <1>3, <2>1, MapRows
<1>. HIDE DEF d
<1>5. Apply(ColumnBack(c, i), d) = [m \in DOMAIN d |-> InsertAt(d[m], i, Column(c, i)[m])]
  BY DEF Apply, ColumnBack, IsDelta, AddColumn
<1>6. \A m \in 1..Len(c) : Column(c, i)[m] = c[m][i]
  BY <1>1 DEF Column
<1>7. [m \in DOMAIN d |-> InsertAt(d[m], i, Column(c, i)[m])] = c
  <2>. HIDE DEF Column
  <2>. QED BY <1>1, <1>3, <1>4, <1>6
<1>8. Columns(d) = Columns(c) - 1 /\ Len(d) = Len(c)
  <2>1. 1 \in 1..Len(c) /\ 1 \in 1..Len(d) /\ Len(d) = Len(c)
    BY <1>1, <1>4, ColumnsNeedRows, RowsOfMatrix
  <2>. QED BY <1>3, <1>4, <2>1, RowsOfMatrix
<1>9. Len(Column(c, i)) = Len(c)
  BY ColumnOfMatrix
<1>10. Accepts(ColumnBack(c, i), d)
  <2>. HIDE DEF Column
  <2>. QED BY <1>1, <1>4, <1>8, <1>9, NaIsNoPayload DEF Accepts, ColumnBack
<1>. QED BY <1>4, <1>5, <1>7, <1>10 DEF d

(* Two elements swapped and swapped back. *)
LEMMA SwappedTwice ==
    ASSUME NEW S, NEW s \in Seq(S), NEW i \in 1..Len(s), NEW j \in 1..Len(s)
    PROVE  /\ Swapped(s, i, j) \in Seq(S) /\ Len(Swapped(s, i, j)) = Len(s)
           /\ Swapped(Swapped(s, i, j), i, j) = s
           /\ \A m \in 1..Len(s) : \E n \in 1..Len(s) : Swapped(s, i, j)[m] = s[n]
<1>1. DOMAIN s = 1..Len(s) /\ \A m \in 1..Len(s) : s[m] \in S
  OBVIOUS
<1>2. \A m \in 1..Len(s) : Swapped(s, i, j)[m] = IF m = j THEN s[i] ELSE IF m = i THEN s[j] ELSE s[m]
  BY <1>1 DEF Swapped
<1>3. Swapped(s, i, j) \in [1..Len(s) -> S]
  BY <1>1 DEF Swapped
<1>4. Swapped(s, i, j) \in Seq(S) /\ Len(Swapped(s, i, j)) = Len(s)
  BY <1>3
<1>5. Swapped(Swapped(s, i, j), i, j) = s
  <2>. DEFINE t == Swapped(s, i, j)
              u == Swapped(t, i, j)
  <2>1. DOMAIN t = 1..Len(s) /\ t[i] = s[j] /\ t[j] = s[i]
    BY <1>1, <1>2, <1>4
  <2>2. u = [m \in 1..Len(s) |-> IF m = j THEN t[i] ELSE IF m = i THEN t[j] ELSE t[m]]
    <3>. HIDE DEF t
    <3>. QED BY <2>1 DEF Swapped
  <2>3. \A m \in 1..Len(s) : u[m] = s[m]
    <3>. HIDE DEF u, t
    <3>1. \A m \in 1..Len(s) : t[m] = IF m = j THEN s[i] ELSE IF m = i THEN s[j] ELSE s[m]
      BY <1>2 DEF t
    <3>. QED BY <2>1, <2>2, <3>1
  <2>. HIDE DEF u
  <2>4. u = [m \in 1..Len(s) |-> s[m]]
    BY <2>2, <2>3
  <2>. QED BY <1>1, <2>4 DEF u
<1>. QED BY <1>1, <1>2, <1>4, <1>5

(* matrix.swap_rows undoes itself. *)
LEMMA SwappedRowsIsUndone ==
    ASSUME NEW c \in Matrices, NEW i \in 1..Len(c), NEW j \in 1..Len(c)
    PROVE  /\ Swapped(c, i, j) \in Matrices
           /\ Apply(RowsBack(i, j), Swapped(c, i, j)) = c
           /\ Accepts(RowsBack(i, j), Swapped(c, i, j))
<1>1. /\ c \in Seq(Seq(Val)) /\ \A m \in 1..Len(c) : Len(c[m]) = Columns(c)
  BY RowsOfMatrix
<1>. DEFINE d == Swapped(c, i, j)
<1>2. /\ d \in Seq(Seq(Val)) /\ Len(d) = Len(c) /\ Swapped(d, i, j) = c
      /\ \A m \in 1..Len(c) : \E n \in 1..Len(c) : d[m] = c[n]
  BY <1>1, SwappedTwice
<1>. HIDE DEF d
<1>3. \A m \in 1..Len(d) : Len(d[m]) = Columns(c)
  BY <1>1, <1>2
<1>4. d \in Matrices
  BY <1>2, <1>3, MatrixOfRows
<1>5. Apply(RowsBack(i, j), d) = Swapped(d, i, j)
  BY DEF Apply, RowsBack, IsDelta
<1>6. Accepts(RowsBack(i, j), d)
  <2>1. d # Na /\ DOMAIN d = 1..Len(c)
    BY <1>2, <1>4, NaIsNoPayload
  <2>2. /\ RowsBack(i, j).kind = "swap rows"
        /\ RowsBack(i, j).at = i /\ RowsBack(i, j).with = j
    BY DEF RowsBack
  <2>. QED BY <2>1, <2>2 DEF Accepts
<1>. QED BY <1>2, <1>4, <1>5, <1>6 DEF d

(* matrix.swap_columns undoes itself. *)
LEMMA SwappedColumnsIsUndone ==
    ASSUME NEW c \in Matrices, NEW i \in 1..Columns(c), NEW j \in 1..Columns(c)
    PROVE  /\ SwapColumns(c, i, j) \in Matrices
           /\ Apply(ColumnsBack(i, j), SwapColumns(c, i, j)) = c
           /\ Accepts(ColumnsBack(i, j), SwapColumns(c, i, j))
<1>. DEFINE d == SwapColumns(c, i, j)
<1>1. /\ c \in Seq(Seq(Val)) /\ DOMAIN c = 1..Len(c) /\ Columns(c) \in Nat
      /\ \A m \in 1..Len(c) : c[m] \in Seq(Val) /\ Len(c[m]) = Columns(c)
  BY RowsOfMatrix
<1>2. d = [m \in DOMAIN c |-> Swapped(c[m], i, j)]
  BY DEF SwapColumns
<1>3. ASSUME NEW m \in 1..Len(c)
      PROVE  /\ d[m] \in Seq(Val) /\ Len(d[m]) = Columns(c)
             /\ Swapped(d[m], i, j) = c[m]
  <2>1. c[m] \in Seq(Val) /\ i \in 1..Len(c[m]) /\ j \in 1..Len(c[m])
    BY <1>1
  <2>2. d[m] = Swapped(c[m], i, j)
    BY <1>1, <1>2
  <2>. QED BY <1>1, <2>1, <2>2, SwappedTwice
<1>4. d \in Matrices /\ DOMAIN d = 1..Len(c)
  <2>1. DOMAIN d = DOMAIN c /\ d = [m \in DOMAIN d |-> d[m]]
    BY <1>2
  <2>. HIDE DEF d
  <2>. QED BY <1>3, <2>1, MapRows
<1>. HIDE DEF d
<1>5. Apply(ColumnsBack(i, j), d) = [m \in DOMAIN d |-> Swapped(d[m], i, j)]
  BY DEF Apply, ColumnsBack, IsDelta, SwapColumns
<1>6. [m \in DOMAIN d |-> Swapped(d[m], i, j)] = c
  BY <1>1, <1>3, <1>4
<1>7. Columns(d) = Columns(c)
  <2>1. 1 \in 1..Len(c) /\ 1 \in 1..Len(d)
    BY <1>4, ColumnsNeedRows, RowsOfMatrix
  <2>. QED BY <1>3, <1>4, <2>1, RowsOfMatrix
<1>8. Accepts(ColumnsBack(i, j), d)
  BY <1>4, <1>7, NaIsNoPayload DEF Accepts, ColumnsBack
<1>. QED BY <1>4, <1>5, <1>6, <1>8 DEF d

-------------------------------------------------------------------------------
(* What an accepted delta makes of any payload is a payload.                 *)

DeltaFits(u, S) == \A c \in S : Accepts(u, c) => Apply(u, c) \in S

LEMMA PairFits == ASSUME NEW m \in Maps, NEW k \in Keys PROVE DeltaFits(PairBack(m, k), Maps)
<1>1. CASE HasKey(m, k)
  <2>. DEFINE v == m[Position(m, k)].value
  <2>1. v \in Val
    <3>1. m \in Seq(Pair) /\ Position(m, k) \in 1..Len(m)
      BY <1>1, PositionOfKey DEF Maps
    <3>2. m[Position(m, k)] \in Pair
      BY <3>1
    <3>. QED BY <3>2 DEF Pair
  <2>2. \A c : Apply(PairBack(m, k), c) = PutIn(c, k, v)
    BY <1>1 DEF Apply, PairBack, IsDelta
  <2>. HIDE DEF v
  <2>. QED BY <2>1, <2>2, PutIsAMap DEF DeltaFits
<1>2. CASE ~HasKey(m, k)
  <2>1. \A c : Apply(PairBack(m, k), c) = RemovePair(c, k)
    BY <1>2 DEF Apply, PairBack, IsDelta
  <2>. QED BY <2>1, RemovalIsAMap DEF DeltaFits
<1>. QED BY <1>1, <1>2

LEMMA CellFits ==
    ASSUME NEW c \in Matrices, NEW i \in 1..Len(c), NEW j \in 1..Columns(c)
    PROVE  DeltaFits(CellBack(c, i, j), Matrices)
<1>. DEFINE u == CellBack(c, i, j)
            v == c[i][j]
<1>1. v \in Val
  BY RowsOfMatrix
<1>2. \A d : Apply(u, d) = SetCell(d, i, j, v)
  BY DEF Apply, CellBack, IsDelta
<1>3. ASSUME NEW d \in Matrices, Accepts(u, d) PROVE SetCell(d, i, j, v) \in Matrices
  <2>1. i \in 1..Len(d) /\ j \in 1..Columns(d)
    BY <1>3, RowsOfMatrix DEF Accepts, CellBack
  <2>. HIDE DEF v
  <2>. QED BY <1>1, <2>1, CellIsUndone
<1>. HIDE DEF u, v
<1>. QED BY <1>2, <1>3 DEF DeltaFits, u

LEMMA DropsFit == ASSUME NEW i PROVE DeltaFits(DropRow(i), Matrices) /\ DeltaFits(DropColumn(i), Matrices)
<1>1. ASSUME NEW d \in Matrices, Accepts(DropRow(i), d) PROVE Apply(DropRow(i), d) \in Matrices
  <2>1. i \in 1..Len(d)
    BY <1>1, RowsOfMatrix DEF Accepts, DropRow
  <2>2. Apply(DropRow(i), d) = RemoveAt(d, i)
    BY DEF Apply, DropRow, IsDelta
  <2>. QED BY <2>1, <2>2, RemovedRowIsUndone
<1>2. ASSUME NEW d \in Matrices, Accepts(DropColumn(i), d) PROVE Apply(DropColumn(i), d) \in Matrices
  <2>1. i \in 1..Columns(d)
    BY <1>2 DEF Accepts, DropColumn
  <2>2. Apply(DropColumn(i), d) = RemoveColumn(d, i)
    BY DEF Apply, DropColumn, IsDelta
  <2>. QED BY <2>1, <2>2, RemovedColumnIsUndone
<1>. QED BY <1>1, <1>2 DEF DeltaFits

LEMMA RowFits ==
    ASSUME NEW c \in Matrices, NEW i \in 1..Len(c)
    PROVE  DeltaFits(RowBack(c, i), Matrices)
<1>. DEFINE row == c[i]
<1>1. row \in Seq(Val)
  BY RowsOfMatrix
<1>2. ASSUME NEW d \in Matrices, Accepts(RowBack(c, i), d) PROVE Apply(RowBack(c, i), d) \in Matrices
  <2>1. i \in 1..Len(d) + 1 /\ (d # <<>> => Len(row) = Columns(d))
    BY <1>2 DEF Accepts, RowBack
  <2>2. Apply(RowBack(c, i), d) = InsertAt(d, i, row)
    BY DEF Apply, RowBack, IsDelta
  <2>. HIDE DEF row
  <2>. QED BY <1>1, <2>1, <2>2, AddedRowIsUndone
<1>. QED BY <1>2 DEF DeltaFits

LEMMA ColumnFits ==
    ASSUME NEW c \in Matrices, NEW i \in 1..Columns(c)
    PROVE  DeltaFits(ColumnBack(c, i), Matrices)
<1>. DEFINE col == Column(c, i)
<1>1. col \in [1..Len(c) -> Val] /\ Len(col) = Len(c)
  BY ColumnOfMatrix
<1>2. ASSUME NEW d \in Matrices, Accepts(ColumnBack(c, i), d) PROVE Apply(ColumnBack(c, i), d) \in Matrices
  <2>1. i \in 1..Columns(d) + 1 /\ Len(col) = Len(d)
    BY <1>2 DEF Accepts, ColumnBack
  <2>2. Apply(ColumnBack(c, i), d) = AddColumn(d, i, col)
    BY DEF Apply, ColumnBack, IsDelta
  <2>. HIDE DEF col
  <2>3. col \in [DOMAIN d -> Val]
    BY <1>1, <2>1, RowsOfMatrix
  <2>. QED BY <2>1, <2>2, <2>3, AddedColumnIsUndone
<1>. QED BY <1>2 DEF DeltaFits

LEMMA SwapsFit ==
    ASSUME NEW i, NEW j
    PROVE  DeltaFits(RowsBack(i, j), Matrices) /\ DeltaFits(ColumnsBack(i, j), Matrices)
<1>1. ASSUME NEW d \in Matrices, Accepts(RowsBack(i, j), d) PROVE Apply(RowsBack(i, j), d) \in Matrices
  <2>1. i \in 1..Len(d) /\ j \in 1..Len(d)
    BY <1>1, RowsOfMatrix DEF Accepts, RowsBack
  <2>2. Apply(RowsBack(i, j), d) = Swapped(d, i, j)
    BY DEF Apply, RowsBack, IsDelta
  <2>. QED BY <2>1, <2>2, SwappedRowsIsUndone
<1>2. ASSUME NEW d \in Matrices, Accepts(ColumnsBack(i, j), d) PROVE Apply(ColumnsBack(i, j), d) \in Matrices
  <2>1. i \in 1..Columns(d) /\ j \in 1..Columns(d)
    BY <1>2 DEF Accepts, ColumnsBack
  <2>2. Apply(ColumnsBack(i, j), d) = SwapColumns(d, i, j)
    BY DEF Apply, ColumnsBack, IsDelta
  <2>. QED BY <2>1, <2>2, SwappedColumnsIsUndone
<1>. QED BY <1>1, <1>2 DEF DeltaFits

-------------------------------------------------------------------------------
(* Lists of records, for any entries E, found states F and held states H.    *)

ASequence(s) == Len(s) \in Nat /\ s = [i \in 1..Len(s) |-> s[i]]

(* j is the first record of r after the position i. *)
FirstAfter(E, r, i, j) ==
    /\ j \in DOMAIN E /\ j > i /\ E[j].owner = r
    /\ \A n \in DOMAIN E : n > i /\ E[n].owner = r => j <= n

(* h is what r held after the record at position i and before its next one. *)
After(E, F, H, r, i, h) ==
    \/ \E j \in DOMAIN E : FirstAfter(E, r, i, j) /\ h = F[j]
    \/ (\A j \in DOMAIN E : j > i => E[j].owner # r) /\ h = H[r]

(* Undoing e from h gives f, and an edit is undone in the object it was made for,
   by calls that the engine accepts. *)
Linked(e, f, h) ==
    /\ f.object = e.object
    /\ Undone(e, h) = f
    /\ e.committed /\ IsDelta(e.undo) => Accepts(e.undo, h.data)
    /\ e.undo.kind # "rebind" => h.object = e.object

Links(E, F, H, B) ==
    /\ \A i \in DOMAIN E : \A h : After(E, F, H, E[i].owner, i, h) => Linked(E[i], F[i], h)
    /\ \A r \in Roots : \A h : After(E, F, H, r, 0, h) => h.data = B[r]

LEMMA SequenceFacts ==
    ASSUME NEW s
    PROVE  /\ \A S : s \in Seq(S) => ASequence(s)
           /\ ASequence(s) => \E S : s \in Seq(S)
<1>1. ASSUME NEW S, s \in Seq(S) PROVE ASequence(s)
  BY <1>1 DEF ASequence
<1>2. ASSUME ASequence(s) PROVE s \in Seq({s[i] : i \in 1..Len(s)})
  <2>1. PICK n \in Nat : n = Len(s)
    BY <1>2 DEF ASequence
  <2>2. s \in [1..n -> {s[i] : i \in 1..n}]
    BY <1>2, <2>1 DEF ASequence
  <2>. QED BY <2>1, <2>2
<1>. QED BY <1>1, <1>2

(* A record appended. *)
LEMMA AppendASequence ==
    ASSUME NEW s, ASequence(s), NEW e
    PROVE  /\ ASequence(Append(s, e)) /\ Len(Append(s, e)) = Len(s) + 1 /\ Len(s) \in Nat
           /\ DOMAIN s = 1..Len(s) /\ DOMAIN Append(s, e) = 1..Len(s) + 1
           /\ \A i \in 1..Len(s) : Append(s, e)[i] = s[i]
           /\ Append(s, e)[Len(s) + 1] = e
<1>1. PICK S : s \in Seq(S)
  BY SequenceFacts
<1>. DEFINE T == S \cup {e}
<1>2. s \in Seq(T) /\ e \in T
  BY <1>1
<1>. HIDE DEF T
<1>3. /\ Append(s, e) \in Seq(T) /\ Len(Append(s, e)) = Len(s) + 1
      /\ \A i \in 1..Len(s) : Append(s, e)[i] = s[i]
      /\ Append(s, e)[Len(s) + 1] = e
  BY <1>2, AppendFacts
<1>4. ASequence(Append(s, e)) /\ DOMAIN Append(s, e) = 1..Len(s) + 1
  <2>. DEFINE t == Append(s, e)
  <2>1. t \in Seq(T) /\ Len(t) = Len(s) + 1
    BY <1>3
  <2>. HIDE DEF t
  <2>2. ASequence(t) /\ DOMAIN t = 1..Len(s) + 1
    BY <2>1, SequenceFacts
  <2>. QED BY <2>2 DEF t
<1>5. Len(s) \in Nat /\ DOMAIN s = 1..Len(s)
  BY <1>2
<1>. QED BY <1>3, <1>4, <1>5

(* The last record dropped. *)
LEMMA FrontASequence ==
    ASSUME NEW s, ASequence(s), s # <<>>
    PROVE  /\ ASequence(Front(s)) /\ Len(Front(s)) = Len(s) - 1 /\ Len(s) \in Nat \ {0}
           /\ DOMAIN s = 1..Len(s) /\ DOMAIN Front(s) = 1..Len(s) - 1
           /\ \A i \in 1..Len(s) - 1 : Front(s)[i] = s[i]
           /\ Last(s) = s[Len(s)]
<1>1. PICK S : s \in Seq(S)
  BY SequenceFacts
<1>2. Front(s) \in Seq(S) /\ Len(Front(s)) = Len(s) - 1
  BY <1>1, FrontFacts
<1>. QED BY <1>1, <1>2, FrontFacts, SequenceFacts

(* A record linked to what its root held and holds now extends the links. *)
LEMMA AppendLinks ==
    ASSUME NEW E, ASequence(E), NEW F, ASequence(F), Len(F) = Len(E),
           NEW H, NEW G, NEW B, NEW e, e.owner \in Roots,
           Links(E, F, H, B), Linked(e, H[e.owner], G[e.owner]),
           \A r \in Roots : r # e.owner => G[r] = H[r],
           \A i \in DOMAIN E : E[i].owner \in Roots
    PROVE  Links(Append(E, e), Append(F, H[e.owner]), G, B)
<1>. DEFINE D == Append(E, e)
            K == Append(F, H[e.owner])
            n == Len(E)
<1>1. /\ n \in Nat /\ DOMAIN E = 1..n /\ DOMAIN D = 1..n + 1
      /\ \A i \in 1..n : D[i] = E[i]
      /\ D[n + 1] = e
  BY AppendASequence
<1>2. (\A i \in 1..n : K[i] = F[i]) /\ K[n + 1] = H[e.owner]
  BY AppendASequence
<1>. HIDE DEF D, K, n
<1>3. ASSUME NEW i \in 0..n, NEW r \in Roots, NEW h, After(D, K, G, r, i, h)
      PROVE  After(E, F, H, r, i, h)
  <2>1. CASE \E j \in DOMAIN D : FirstAfter(D, r, i, j) /\ h = K[j]
    <3>1. PICK j \in DOMAIN D : FirstAfter(D, r, i, j) /\ h = K[j]
      BY <2>1
    <3>2. CASE j = n + 1
      <4>1. \A m \in DOMAIN E : m > i => E[m].owner # r
        BY <1>1, <3>1, <3>2 DEF FirstAfter
      <4>2. r = e.owner /\ h = H[r]
        BY <1>1, <1>2, <3>1, <3>2 DEF FirstAfter
      <4>. QED BY <4>1, <4>2 DEF After
    <3>3. CASE j \in 1..n
      <4>1. FirstAfter(E, r, i, j) /\ h = F[j] /\ j \in DOMAIN E
        BY <1>1, <1>2, <3>1, <3>3 DEF FirstAfter
      <4>. QED BY <4>1 DEF After
    <3>. QED BY <1>1, <3>2, <3>3
  <2>2. CASE (\A j \in DOMAIN D : j > i => D[j].owner # r) /\ h = G[r]
    <3>1. \A j \in DOMAIN E : j > i => E[j].owner # r
      BY <1>1, <2>2
    <3>2. r # e.owner
      <4>1. n + 1 \in DOMAIN D /\ n + 1 > i
        BY <1>1
      <4>. QED BY <1>1, <2>2, <4>1
    <3>. QED BY <2>2, <3>1, <3>2 DEF After
  <2>. QED BY <1>3, <2>1, <2>2 DEF After
<1>4. ASSUME NEW h, After(D, K, G, e.owner, n + 1, h) PROVE h = G[e.owner]
  BY <1>1, <1>4 DEF After, FirstAfter
<1>5. ASSUME NEW i \in DOMAIN D, NEW h, After(D, K, G, D[i].owner, i, h)
      PROVE  Linked(D[i], K[i], h)
  <2>1. CASE i \in 1..n
    <3>1. i \in 0..n /\ i \in DOMAIN E /\ D[i] = E[i] /\ K[i] = F[i] /\ E[i].owner \in Roots
      BY <1>1, <1>2, <2>1
    <3>2. After(E, F, H, E[i].owner, i, h)
      BY <1>3, <1>5, <3>1
    <3>. QED BY <3>1, <3>2 DEF Links
  <2>2. CASE i = n + 1
    BY <1>1, <1>2, <1>4, <1>5, <2>2
  <2>. QED BY <1>1, <2>1, <2>2
<1>6. ASSUME NEW r \in Roots, NEW h, After(D, K, G, r, 0, h) PROVE h.data = B[r]
  <2>1. After(E, F, H, r, 0, h)
    BY <1>1, <1>3, <1>6
  <2>. QED BY <2>1 DEF Links
<1>. QED BY <1>5, <1>6 DEF Links, D, K

(* The last record undone: its root holds again what the record found. *)
LEMMA DropLinks ==
    ASSUME NEW E, ASequence(E), NEW F, ASequence(F), Len(F) = Len(E), E # <<>>,
           NEW H, NEW G, NEW B,
           Links(E, F, H, B), G[Last(E).owner] = F[Len(E)],
           \A r \in Roots : r # Last(E).owner => G[r] = H[r],
           \A i \in DOMAIN E : E[i].owner \in Roots
    PROVE  Links(Front(E), Front(F), G, B)
<1>. DEFINE D == Front(E)
            K == Front(F)
            n == Len(E)
            e == Last(E)
<1>1. /\ n \in Nat \ {0} /\ DOMAIN E = 1..n /\ DOMAIN D = 1..n - 1
      /\ \A i \in 1..n - 1 : D[i] = E[i]
      /\ e = E[n]
  BY FrontASequence
<1>2. \A i \in 1..n - 1 : K[i] = F[i]
  <2>1. F # <<>>
    BY <1>1
  <2>. QED BY <2>1, FrontASequence
<1>. HIDE DEF D, K, n, e
<1>3. ASSUME NEW i \in 0..n - 1, NEW r \in Roots, NEW h, After(D, K, G, r, i, h)
      PROVE  After(E, F, H, r, i, h)
  <2>1. CASE \E j \in DOMAIN D : FirstAfter(D, r, i, j) /\ h = K[j]
    <3>1. PICK j \in DOMAIN D : FirstAfter(D, r, i, j) /\ h = K[j]
      BY <2>1
    <3>2. FirstAfter(E, r, i, j) /\ h = F[j] /\ j \in DOMAIN E
      BY <1>1, <1>2, <3>1 DEF FirstAfter
    <3>. QED BY <3>2 DEF After
  <2>2. CASE (\A j \in DOMAIN D : j > i => D[j].owner # r) /\ h = G[r]
    <3>1. CASE r = e.owner
      <4>1. FirstAfter(E, r, i, n) /\ h = F[n] /\ n \in DOMAIN E
        BY <1>1, <2>2, <3>1 DEF FirstAfter, n, e
      <4>. QED BY <4>1 DEF After
    <3>2. CASE r # e.owner
      <4>1. \A j \in DOMAIN E : j > i => E[j].owner # r
        BY <1>1, <2>2, <3>2
      <4>2. h = H[r]
        BY <2>2, <3>2 DEF e
      <4>. QED BY <4>1, <4>2 DEF After
    <3>. QED BY <3>1, <3>2
  <2>. QED BY <1>3, <2>1, <2>2 DEF After
<1>4. ASSUME NEW i \in DOMAIN D, NEW h, After(D, K, G, D[i].owner, i, h)
      PROVE  Linked(D[i], K[i], h)
  <2>1. i \in 0..n - 1 /\ i \in DOMAIN E /\ D[i] = E[i] /\ K[i] = F[i] /\ E[i].owner \in Roots
    BY <1>1, <1>2
  <2>2. After(E, F, H, E[i].owner, i, h)
    BY <1>3, <1>4, <2>1
  <2>. QED BY <2>1, <2>2 DEF Links
<1>5. ASSUME NEW r \in Roots, NEW h, After(D, K, G, r, 0, h) PROVE h.data = B[r]
  <2>1. After(E, F, H, r, 0, h)
    BY <1>1, <1>3, <1>5
  <2>. QED BY <2>1 DEF Links
<1>. QED BY <1>4, <1>5 DEF Links, D, K

(* A root changes without a record: its last record undoes to the same. *)
LEMMA KeepLinks ==
    ASSUME NEW E, NEW F, NEW H, NEW G, NEW B, NEW q \in Roots,
           Links(E, F, H, B),
           \A r \in Roots : r # q => G[r] = H[r],
           \A i \in DOMAIN E : E[i].owner \in Roots,
           \E i \in DOMAIN E : i > 0 /\ E[i].owner = q,
           \A i \in DOMAIN E : /\ E[i].owner = q
                               /\ \A j \in DOMAIN E : j > i => E[j].owner # q
                               => Linked(E[i], F[i], G[q])
    PROVE  Links(E, F, G, B)
<1>1. ASSUME NEW i, NEW r \in Roots, NEW h, After(E, F, G, r, i, h)
      PROVE  \/ After(E, F, H, r, i, h)
             \/ r = q /\ h = G[q] /\ \A j \in DOMAIN E : j > i => E[j].owner # q
  BY <1>1 DEF After
<1>2. ASSUME NEW i \in DOMAIN E, NEW h, After(E, F, G, E[i].owner, i, h)
      PROVE  Linked(E[i], F[i], h)
  <2>1. E[i].owner \in Roots
    OBVIOUS
  <2>2. CASE After(E, F, H, E[i].owner, i, h)
    BY <2>2 DEF Links
  <2>3. CASE E[i].owner = q /\ h = G[q] /\ \A j \in DOMAIN E : j > i => E[j].owner # q
    BY <2>3
  <2>. QED BY <1>1, <1>2, <2>1, <2>2, <2>3
<1>3. ASSUME NEW r \in Roots, NEW h, After(E, F, G, r, 0, h) PROVE h.data = B[r]
  <2>1. After(E, F, H, r, 0, h)
    BY <1>1, <1>3
  <2>. QED BY <2>1 DEF Links
<1>. QED BY <1>2, <1>3 DEF Links

-------------------------------------------------------------------------------
(* Script code takes one of three kinds of step: an edit with a delta, an    *)
(* edit with a preimage or of a latched root, and a replace().               *)

DeltaStep(r, c) ==
    \E u : \E com \in BOOLEAN :
        /\ Recording /\ ~Saved(r) /\ ~BudgetSpent(r)
        /\ IsDelta(u) /\ DeltaFits(u, Payload(r))
        /\ IF com THEN Accepts(u, c) /\ Apply(u, c) = handle[r] ELSE c = handle[r]
        /\ AppendHandle(r, u, com, [StateOf(r) EXCEPT !.deltas = IF com THEN @ + 1 ELSE @])
        /\ Becomes(r, c)

SaveStep(r, c) == SaveHandle(r) /\ Becomes(r, c)

Edit(r, c) ==
    /\ r \in Roots /\ handle[r] \in Payload(r) /\ c \in Payload(r)
    /\ DeltaStep(r, c) \/ SaveStep(r, c)

LEMMA BoundedSeqIsSeq == ASSUME NEW S, NEW n \in Nat PROVE BoundedSeq(S, n) \subseteq Seq(S)
BY DEF BoundedSeq, SeqOf

LEMMA BoundedPayloads == BoundedMaps \subseteq Maps /\ BoundedMatrices \subseteq Matrices
<1>1. BoundedMaps \subseteq Maps
  BY BoundedSeqIsSeq, MaxSizeIsNat DEF BoundedMaps, Maps
<1>2. ASSUME NEW c \in BoundedSeq(BoundedSeq(Val, MaxSize), MaxSize) PROVE c \in Seq(Seq(Val))
  <2>1. c \in Seq(BoundedSeq(Val, MaxSize))
    BY BoundedSeqIsSeq, MaxSizeIsNat
  <2>2. \A i \in 1..Len(c) : c[i] \in Seq(Val)
    BY <2>1, BoundedSeqIsSeq, MaxSizeIsNat
  <2>. QED BY <2>1, <2>2
<1>. QED BY <1>1, <1>2 DEF BoundedMatrices, Matrices

LEMMA RecordDeltaIsEdit ==
    ASSUME NEW r \in Roots, NEW u, NEW com \in BOOLEAN, NEW c,
           handle[r] \in Payload(r), c \in Payload(r), IsDelta(u), DeltaFits(u, Payload(r)),
           IF com THEN Accepts(u, c) /\ Apply(u, c) = handle[r] ELSE c = handle[r],
           RecordDelta(r, u, com), Becomes(r, c)
    PROVE  Edit(r, c)
<1>1. CASE Recording /\ ~Saved(r) /\ ~BudgetSpent(r)
  BY <1>1 DEF RecordDelta, Edit, DeltaStep
<1>2. CASE ~(Recording /\ ~Saved(r) /\ ~BudgetSpent(r))
  BY <1>2 DEF RecordDelta, Edit, SaveStep
<1>. QED BY <1>1, <1>2

LEMMA WholeIsEdit ==
    ASSUME NEW r \in Roots, NEW c, handle[r] \in Payload(r), c \in Payload(r), WholeEdit(r, c)
    PROVE  Edit(r, c)
BY DEF WholeEdit, Edit, SaveStep

LEMMA LateDeltaIsEdit ==
    ASSUME NEW r \in Roots, NEW small \in BOOLEAN, NEW u, NEW c,
           handle[r] \in Payload(r), c \in Payload(r), IsDelta(u), DeltaFits(u, Payload(r)),
           Accepts(u, c), Apply(u, c) = handle[r], LateDelta(r, small, u, c)
    PROVE  Edit(r, c)
<1>1. CASE r \in GenericRoots /\ small
  BY <1>1, RecordDeltaIsEdit DEF LateDelta
<1>2. CASE ~(r \in GenericRoots /\ small)
  BY <1>2 DEF LateDelta, Edit, SaveStep
<1>. QED BY <1>1, <1>2

(* The kinds of the closures. *)
LEMMA ClosuresAreDeltas ==
    /\ \A m, k : IsDelta(PairBack(m, k))
    /\ \A c, i, j : IsDelta(CellBack(c, i, j))
    /\ \A i : IsDelta(DropRow(i)) /\ IsDelta(DropColumn(i))
    /\ \A c, i : IsDelta(RowBack(c, i)) /\ IsDelta(ColumnBack(c, i))
    /\ \A i, j : IsDelta(RowsBack(i, j)) /\ IsDelta(ColumnsBack(i, j))
BY DEF IsDelta, PairBack, CellBack, DropRow, DropColumn, RowBack, ColumnBack, RowsBack, ColumnsBack

LEMMA MapEdits ==
    ASSUME NEW r \in MapRoots, handle[r] \in Maps, EditMap(r)
    PROVE  \E c : Edit(r, c)
<1>. DEFINE m == handle[r]
<1>1. r \in Roots /\ Payload(r) = Maps /\ <<>> \in Maps
  BY DEF Roots, Payload, Maps, DistinctKeys
<1>2. ASSUME NEW k \in Keys, PutPairThrows(r, k) PROVE \E c : Edit(r, c)
  <2>1. Apply(PairBack(m, k), m) = m /\ Accepts(PairBack(m, k), m)
    <3>1. CASE HasKey(m, k)
      <4>1. Position(m, k) \in 1..Len(m) /\ m \in Seq(Pair)
        BY <3>1, PositionOfKey DEF Maps
      <4>2. m[Position(m, k)] \in Pair
        BY <4>1
      <4>3. m[Position(m, k)].value \in Val
        BY <4>2 DEF Pair
      <4>. QED BY <4>3, PutIsUndone
    <3>2. CASE ~HasKey(m, k)
      BY <3>2, NaIsNoPayload DEF Apply, PairBack, IsDelta, RemovePair, Accepts
    <3>. QED BY <3>1, <3>2
  <2>. QED BY <1>1, <1>2, <2>1, ClosuresAreDeltas, PairFits, RecordDeltaIsEdit DEF PutPairThrows, EarlyDelta
<1>3. ASSUME NEW k \in Keys, NEW v \in Val, PutPair(r, k, v) PROVE \E c : Edit(r, c)
  <2>1. /\ PutIn(m, k, v) \in Maps /\ Apply(PairBack(m, k), PutIn(m, k, v)) = m
        /\ Accepts(PairBack(m, k), PutIn(m, k, v))
    BY PutIsAMap, PutIsUndone
  <2>. QED BY <1>1, <1>3, <2>1, ClosuresAreDeltas, PairFits, RecordDeltaIsEdit DEF PutPair, EarlyDelta
<1>4. ASSUME NEW k \in Keys, RemoveKey(r, k) PROVE \E c : Edit(r, c)
  BY <1>1, <1>4, RemovalIsAMap, WholeIsEdit DEF RemoveKey
<1>5. CASE ClearMap(r)
  BY <1>1, <1>5, WholeIsEdit DEF ClearMap
<1>6. ASSUME NEW n \in BoundedMaps, PutAll(r, n) PROVE \E c : Edit(r, c)
  BY <1>1, <1>6, BoundedPayloads, WholeIsEdit DEF PutAll
<1>. QED BY <1>2, <1>3, <1>4, <1>5, <1>6 DEF EditMap

LEMMA MatrixEdits ==
    ASSUME NEW r \in MatrixRoots, handle[r] \in Matrices, EditMatrix(r)
    PROVE  \E c : Edit(r, c)
<1>. DEFINE m == handle[r]
            rows == 1..Len(m)
            cols == 1..Columns(m)
<1>1. r \in Roots /\ Payload(r) = Matrices
  BY RootsAreDisjoint DEF Roots, MatrixRoots, Payload
<1>2. DOMAIN m = 1..Len(m) /\ Len(m) \in Nat /\ Columns(m) \in Nat /\ (rows # {} <=> m # <<>>)
  <2>1. DOMAIN m = 1..Len(m) /\ Len(m) \in Nat /\ Columns(m) \in Nat /\ m \in Seq(Seq(Val))
    BY RowsOfMatrix
  <2>2. CASE m = <<>>
    BY <2>1, <2>2
  <2>3. CASE m # <<>>
    <3>1. 1 \in rows
      BY <2>1, <2>3
    <3>. QED BY <2>1, <2>3, <3>1
  <2>. QED BY <2>2, <2>3
<1>3. ASSUME NEW i \in rows, NEW j \in cols, SetThrows(r, i, j) PROVE \E c : Edit(r, c)
  <2>1. m[i][j] \in Val
    BY RowsOfMatrix
  <2>2. Apply(CellBack(m, i, j), m) = m /\ Accepts(CellBack(m, i, j), m)
    BY <2>1, CellIsUndone
  <2>. QED BY <1>1, <1>3, <2>2, ClosuresAreDeltas, CellFits, RecordDeltaIsEdit DEF SetThrows, EarlyDelta
<1>4. ASSUME NEW i \in rows, NEW j \in cols, NEW v \in Val, Set(r, i, j, v) PROVE \E c : Edit(r, c)
  BY <1>1, <1>4, CellIsUndone, ClosuresAreDeltas, CellFits, RecordDeltaIsEdit DEF Set, EarlyDelta
<1>5. ASSUME NEW i \in 1..Len(m) + 1, NEW row \in BoundedSeq(Val, MaxSize), AddRow(r, i, row)
      PROVE  \E c : Edit(r, c)
  <2>1. row \in Seq(Val) /\ (m # <<>> => Len(row) = Columns(m))
    BY <1>5, BoundedSeqIsSeq, MaxSizeIsNat DEF AddRow
  <2>2. /\ InsertAt(m, i, row) \in Matrices /\ Apply(DropRow(i), InsertAt(m, i, row)) = m
        /\ Accepts(DropRow(i), InsertAt(m, i, row))
    BY <2>1, AddedRowIsUndone
  <2>3. LateDelta(r, i = Len(m) + 1, DropRow(i), InsertAt(m, i, row))
    BY <1>5 DEF AddRow
  <2>. QED BY <1>1, <2>2, <2>3, ClosuresAreDeltas, DropsFit, LateDeltaIsEdit
<1>6. ASSUME m # <<>>, NEW i \in 1..Columns(m) + 1, NEW col \in [rows -> Val], AddCol(r, i, col)
      PROVE  \E c : Edit(r, c)
  <2>1. /\ AddColumn(m, i, col) \in Matrices /\ Apply(DropColumn(i), AddColumn(m, i, col)) = m
        /\ Accepts(DropColumn(i), AddColumn(m, i, col))
    BY <1>2, <1>6, AddedColumnIsUndone
  <2>2. LateDelta(r, TRUE, DropColumn(i), AddColumn(m, i, col))
    BY <1>6 DEF AddCol
  <2>. QED BY <1>1, <2>1, <2>2, ClosuresAreDeltas, DropsFit, LateDeltaIsEdit
<1>7. ASSUME NEW i \in rows, RemoveRow(r, i) PROVE \E c : Edit(r, c)
  BY <1>1, <1>7, RemovedRowIsUndone, ClosuresAreDeltas, RowFits, LateDeltaIsEdit DEF RemoveRow
<1>8. ASSUME NEW i \in cols, RemoveCol(r, i) PROVE \E c : Edit(r, c)
  BY <1>1, <1>8, RemovedColumnIsUndone, ClosuresAreDeltas, ColumnFits, LateDeltaIsEdit DEF RemoveCol
<1>9. ASSUME NEW i \in rows, NEW j \in rows, SwapRows(r, i, j) PROVE \E c : Edit(r, c)
  BY <1>1, <1>9, SwappedRowsIsUndone, ClosuresAreDeltas, SwapsFit, LateDeltaIsEdit DEF SwapRows
<1>10. ASSUME NEW i \in cols, NEW j \in cols, SwapCols(r, i, j) PROVE \E c : Edit(r, c)
  BY <1>1, <1>10, SwappedColumnsIsUndone, ClosuresAreDeltas, SwapsFit, LateDeltaIsEdit DEF SwapCols
<1>11. ASSUME NEW u, IsDelta(u), DeltaFits(u, Matrices), StructuralThrows(r, u) PROVE \E c : Edit(r, c)
  BY <1>1, <1>11, RecordDeltaIsEdit DEF StructuralThrows
<1>12. ASSUME NEW c \in BoundedMatrices, EngineEdit(r, c) PROVE \E d : Edit(r, d)
  BY <1>1, <1>12, BoundedPayloads, WholeIsEdit DEF EngineEdit
<1>13. \/ \E i \in rows, j \in cols : SetThrows(r, i, j) \/ \E v \in Val : Set(r, i, j, v)
       \/ \E i \in 1..Len(m) + 1, row \in BoundedSeq(Val, MaxSize) : AddRow(r, i, row)
       \/ m # <<>> /\ \E i \in 1..Columns(m) + 1, col \in [rows -> Val] : AddCol(r, i, col)
       \/ \E i \in rows : RemoveRow(r, i)
       \/ \E i \in cols : RemoveCol(r, i)
       \/ \E i, j \in rows : SwapRows(r, i, j)
       \/ \E i, j \in cols : SwapCols(r, i, j)
       \/ \E u : IsDelta(u) /\ DeltaFits(u, Matrices) /\ StructuralThrows(r, u)
       \/ \E c \in BoundedMatrices : EngineEdit(r, c)
  <2>1. \A i \in rows : DeltaFits(RowBack(m, i), Matrices)
    BY RowFits
  <2>2. \A i \in cols : DeltaFits(ColumnBack(m, i), Matrices)
    BY ColumnFits
  <2>3. /\ \A i : DeltaFits(DropRow(i), Matrices) /\ DeltaFits(DropColumn(i), Matrices)
        /\ \A i, j : DeltaFits(RowsBack(i, j), Matrices) /\ DeltaFits(ColumnsBack(i, j), Matrices)
    BY DropsFit, SwapsFit
  <2>. QED BY <1>2, <2>1, <2>2, <2>3, ClosuresAreDeltas DEF EditMatrix
<1>. QED BY <1>3, <1>4, <1>5, <1>6, <1>7, <1>8, <1>9, <1>10, <1>11, <1>12, <1>13

LEMMA FreshIsPayload == ASSUME NEW r \in Roots PROVE Fresh(r) \subseteq Payload(r)
<1>1. <<>> \in Maps
  BY DEF Maps, DistinctKeys
<1>. QED BY <1>1, BoundedPayloads DEF Fresh, Payload

LEMMA ScriptSteps ==
    ASSUME TypeOK, RunScript
    PROVE  /\ hook = "none"
           /\ \/ \E r \in Roots : \E c : Edit(r, c)
              \/ \E r \in Roots : \E c \in Payload(r) : Replace(r, c)
<1>1. ASSUME NEW r \in MapRoots, Bound(r), EditMap(r) PROVE r \in Roots /\ \E c : Edit(r, c)
  <2>1. r \in Roots /\ handle[r] \in Maps
    BY <1>1 DEF Roots, TypeOK, Payload, Bound
  <2>. QED BY <1>1, <2>1, MapEdits
<1>2. ASSUME NEW r \in MatrixRoots, Bound(r), EditMatrix(r) PROVE r \in Roots /\ \E c : Edit(r, c)
  <2>1. r \in Roots /\ handle[r] \in Matrices
    BY <1>2, RootsAreDisjoint DEF Roots, MatrixRoots, TypeOK, Payload, Bound
  <2>. QED BY <1>2, <2>1, MatrixEdits
<1>. QED BY <1>1, <1>2, FreshIsPayload DEF RunScript

-------------------------------------------------------------------------------
(* The records of a root and the state that summarises them, for any list E. *)

DeltasIn(E, r) == {i \in DOMAIN E : E[i].owner = r /\ E[i].committed /\ IsDelta(E[i].undo)}
PreimagesIn(E, r) == {i \in DOMAIN E : E[i].owner = r /\ E[i].undo.kind = "preimage"}

LatchIn(E, r, s, g) ==
    /\ (IF s.generation = g THEN s.deltas ELSE 0) = Cardinality(DeltasIn(E, r))
    /\ s.saved = g <=> PreimagesIn(E, r) # {}
    /\ \A i \in PreimagesIn(E, r), j \in DOMAIN E :
          E[j].owner = r /\ j > i => E[j].undo.kind = "rebind"

(* D is E with one more record at its end. *)
OneMore(D, E, n) ==
    /\ n \in Nat /\ DOMAIN E = 1..n /\ DOMAIN D = 1..n + 1
    /\ \A i \in 1..n : D[i] = E[i]

LEMMA CountRecords ==
    ASSUME NEW D, NEW E, NEW n, OneMore(D, E, n), NEW r
    PROVE  /\ Cardinality(DeltasIn(E, r)) \in Nat
           /\ IF D[n + 1].owner = r /\ D[n + 1].committed /\ IsDelta(D[n + 1].undo)
              THEN /\ DeltasIn(D, r) = DeltasIn(E, r) \cup {n + 1}
                   /\ Cardinality(DeltasIn(D, r)) = Cardinality(DeltasIn(E, r)) + 1
              ELSE DeltasIn(D, r) = DeltasIn(E, r)
           /\ PreimagesIn(D, r) = IF D[n + 1].owner = r /\ D[n + 1].undo.kind = "preimage"
                                  THEN PreimagesIn(E, r) \cup {n + 1} ELSE PreimagesIn(E, r)
<1>. DEFINE d == D[n + 1]
            added == d.owner = r /\ d.committed /\ IsDelta(d.undo)
<1>1. n \in Nat /\ DOMAIN E = 1..n /\ DOMAIN D = 1..n + 1 /\ \A i \in 1..n : D[i] = E[i]
  BY DEF OneMore
<1>2. IsFiniteSet(DeltasIn(E, r)) /\ n + 1 \notin DeltasIn(E, r)
  <2>1. IsFiniteSet(1..n)
    BY <1>1, FS_Interval
  <2>2. DeltasIn(E, r) \subseteq 1..n
    BY <1>1 DEF DeltasIn
  <2>. QED BY <1>1, <2>1, <2>2, FS_Subset
<1>3. Cardinality(DeltasIn(E, r)) \in Nat
  BY <1>2, FS_CardinalityType
<1>4. DeltasIn(D, r) = IF added THEN DeltasIn(E, r) \cup {n + 1} ELSE DeltasIn(E, r)
  BY <1>1 DEF DeltasIn
<1>5. PreimagesIn(D, r) = IF d.owner = r /\ d.undo.kind = "preimage"
                          THEN PreimagesIn(E, r) \cup {n + 1} ELSE PreimagesIn(E, r)
  BY <1>1 DEF PreimagesIn
<1>6. added => Cardinality(DeltasIn(D, r)) = Cardinality(DeltasIn(E, r)) + 1
  BY <1>2, <1>4, FS_AddElement
<1>. QED BY <1>3, <1>4, <1>5, <1>6

(* A record of another root changes nothing for r. *)
LEMMA LatchOfOthers ==
    ASSUME NEW D, NEW E, NEW n, OneMore(D, E, n), NEW r, D[n + 1].owner # r, NEW s, NEW g
    PROVE  LatchIn(D, r, s, g) <=> LatchIn(E, r, s, g)
<1>1. DeltasIn(D, r) = DeltasIn(E, r) /\ PreimagesIn(D, r) = PreimagesIn(E, r)
  BY CountRecords
<1>2. /\ n \in Nat /\ DOMAIN E = 1..n /\ DOMAIN D = 1..n + 1
      /\ \A i \in 1..n : D[i] = E[i]
  BY DEF OneMore
<1>. QED BY <1>1, <1>2 DEF LatchIn

(* A delta is counted if it is committed; the root is not latched. *)
LEMMA LatchOfDelta ==
    ASSUME NEW D, NEW E, NEW n, OneMore(D, E, n), NEW r, NEW s, NEW t, NEW g \in Nat,
           D[n + 1].owner = r, IsDelta(D[n + 1].undo), D[n + 1].committed \in BOOLEAN,
           s.saved # g, t.saved # g, t.generation = g,
           t.deltas = (IF s.generation = g THEN s.deltas ELSE 0) + (IF D[n + 1].committed THEN 1 ELSE 0),
           LatchIn(E, r, s, g)
    PROVE  LatchIn(D, r, t, g)
<1>1. /\ PreimagesIn(E, r) = {} /\ PreimagesIn(D, r) = {}
  BY CountRecords DEF LatchIn, IsDelta
<1>2. t.deltas = Cardinality(DeltasIn(D, r))
  <2>1. t.deltas = Cardinality(DeltasIn(E, r)) + (IF D[n + 1].committed THEN 1 ELSE 0)
    BY DEF LatchIn
  <2>2. CASE D[n + 1].committed
    BY <2>1, <2>2, CountRecords
  <2>3. CASE ~D[n + 1].committed
    <3>1. DeltasIn(D, r) = DeltasIn(E, r) /\ Cardinality(DeltasIn(E, r)) \in Nat
      BY <2>3, CountRecords
    <3>. QED BY <2>1, <2>3, <3>1
  <2>. QED BY <2>2, <2>3
<1>. QED BY <1>1, <1>2 DEF LatchIn

(* A preimage latches the root. *)
LEMMA LatchOfPreimage ==
    ASSUME NEW D, NEW E, NEW n, OneMore(D, E, n), NEW r, NEW s, NEW t, NEW g \in Nat,
           D[n + 1].owner = r, D[n + 1].undo.kind = "preimage",
           s.saved # g, t.saved = g, t.generation = g,
           t.deltas = (IF s.generation = g THEN s.deltas ELSE 0),
           LatchIn(E, r, s, g)
    PROVE  LatchIn(D, r, t, g)
<1>1. PreimagesIn(E, r) = {} /\ PreimagesIn(D, r) = {n + 1}
  BY CountRecords DEF LatchIn
<1>2. DeltasIn(D, r) = DeltasIn(E, r)
  BY CountRecords DEF IsDelta
<1>3. n \in Nat /\ DOMAIN D = 1..n + 1
  BY DEF OneMore
<1>. QED BY <1>1, <1>2, <1>3 DEF LatchIn

(* A rebind leaves the root as latched as it was. *)
LEMMA LatchOfRebind ==
    ASSUME NEW D, NEW E, NEW n, OneMore(D, E, n), NEW r, NEW s, NEW g \in Nat,
           D[n + 1].owner = r, D[n + 1].undo.kind = "rebind"
    PROVE  LatchIn(D, r, s, g) <=> LatchIn(E, r, s, g)
<1>1. DeltasIn(D, r) = DeltasIn(E, r) /\ PreimagesIn(D, r) = PreimagesIn(E, r)
  BY CountRecords DEF IsDelta
<1>2. /\ n \in Nat /\ DOMAIN E = 1..n /\ DOMAIN D = 1..n + 1
      /\ \A i \in 1..n : D[i] = E[i]
  BY DEF OneMore
<1>. QED BY <1>1, <1>2 DEF LatchIn

(* The state once the last record is undone. *)
LEMMA LatchAfterUndo ==
    ASSUME NEW D, NEW E, NEW n, OneMore(D, E, n), NEW r, NEW g \in Nat \ {0},
           NEW s \in [generation : Nat, saved : Nat, deltas : Nat], NEW t,
           D[n + 1].owner = r, D[n + 1].committed \in BOOLEAN,
           ~IsDelta(D[n + 1].undo) => D[n + 1].committed,
           t = IF ~D[n + 1].committed \/ D[n + 1].undo.kind = "rebind" THEN s
               ELSE IF D[n + 1].undo.kind = "preimage" THEN [s EXCEPT !.saved = 0]
               ELSE [s EXCEPT !.deltas = @ - 1],
           LatchIn(D, r, s, g)
    PROVE  /\ LatchIn(E, r, t, g)
           /\ t \in [generation : Nat, saved : Nat, deltas : Nat]
           /\ t.generation = s.generation /\ (t.saved = s.saved \/ t.saved = 0)
<1>. DEFINE d == D[n + 1]
<1>0. /\ n \in Nat /\ DOMAIN E = 1..n /\ DOMAIN D = 1..n + 1
      /\ \A i \in 1..n : D[i] = E[i]
  BY DEF OneMore
<1>1. CASE d.undo.kind = "rebind"
  BY <1>1, LatchOfRebind
<1>2. CASE d.undo.kind = "preimage"
  <2>1. d.committed /\ t = [s EXCEPT !.saved = 0]
    BY <1>2 DEF IsDelta
  <2>2. DeltasIn(D, r) = DeltasIn(E, r) /\ n + 1 \in PreimagesIn(D, r)
    BY <1>2, CountRecords DEF IsDelta
  <2>3. PreimagesIn(E, r) = {}
    <3>1. SUFFICES ASSUME NEW i \in PreimagesIn(E, r) PROVE FALSE
      OBVIOUS
    <3>2. i \in PreimagesIn(D, r) /\ n + 1 > i /\ n + 1 \in DOMAIN D
      BY <1>0 DEF PreimagesIn
    <3>. QED BY <1>2, <3>2 DEF LatchIn
  <2>4. t.saved # g /\ t.generation = s.generation /\ t.deltas = s.deltas
    BY <2>1
  <2>5. t \in [generation : Nat, saved : Nat, deltas : Nat] /\ t.saved = 0
    BY <2>1
  <2>. QED BY <2>2, <2>3, <2>4, <2>5 DEF LatchIn
<1>3. CASE IsDelta(d.undo) /\ d.committed
  <2>1. t = [s EXCEPT !.deltas = @ - 1]
    BY <1>3 DEF IsDelta
  <2>2. /\ Cardinality(DeltasIn(D, r)) = Cardinality(DeltasIn(E, r)) + 1
        /\ Cardinality(DeltasIn(E, r)) \in Nat
        /\ PreimagesIn(D, r) = PreimagesIn(E, r)
    BY <1>3, CountRecords DEF IsDelta
  <2>3. s.generation = g /\ s.deltas = Cardinality(DeltasIn(E, r)) + 1
    BY <2>2 DEF LatchIn
  <2>4. t.saved = s.saved /\ t.generation = s.generation /\ t.deltas = Cardinality(DeltasIn(E, r))
    BY <2>1, <2>2, <2>3
  <2>5. t \in [generation : Nat, saved : Nat, deltas : Nat]
    BY <2>1, <2>2, <2>3
  <2>. QED BY <1>0, <2>2, <2>3, <2>4, <2>5 DEF LatchIn
<1>4. CASE IsDelta(d.undo) /\ ~d.committed
  <2>1. t = s
    BY <1>4
  <2>2. DeltasIn(D, r) = DeltasIn(E, r) /\ PreimagesIn(D, r) = PreimagesIn(E, r)
    BY <1>4, CountRecords DEF IsDelta
  <2>. QED BY <1>0, <2>1, <2>2 DEF LatchIn
<1>. QED BY <1>1, <1>2, <1>3, <1>4 DEF IsDelta

-------------------------------------------------------------------------------
(* The inductive invariant.                                                  *)

State == [generation : Nat, saved : Nat, deltas : Nat]

(* What a closure holds suits its root. *)
ClosureFits(u, r) ==
    /\ u.kind = "rebind" => u.old \in {Na} \cup Payload(r)
    /\ u.kind = "preimage" => u.old \in Payload(r)
    /\ IsDelta(u) => DeltaFits(u, Payload(r))

(* The list of records, and the states that summarise it: none is of a
   generation to come, and only a delta can be left uncommitted. *)
RecordsInShape ==
    /\ ASequence(entries) /\ ASequence(found)
    /\ \A i \in DOMAIN entries :
          /\ IsDelta(entries[i].undo) \/ entries[i].committed
          /\ entries[i].object \in Nat
          /\ ClosureFits(entries[i].undo, entries[i].owner)
    /\ \A r \in Roots : states[r].saved <= generation /\ states[r].generation <= generation

(* The journal is active exactly while there is a checkpoint, and replays
   exactly while a restore is on the stack. *)
HooksInStep ==
    /\ checkpoint.taken <=> active
    /\ active => generation >= 1 /\ checkpoint.generation = generation
    /\ ~active => entries = <<>>
    /\ hook = "undo" <=> replaying
    /\ replaying => active

HeldNow == [r \in Roots |-> Held(r)]

RecordsLinked == active => Links(entries, found, HeldNow, base)

(* What holds whatever an add_row that throws leaves.  That the records lead back
   to the checkpoint is carried beside it: RecordsLinkPayloads names the next
   record of a root by CHOOSE, RecordsLinked says the same of every record that is
   the next one, and adds that an edit is undone in its own object by calls that
   the engine accepts. *)
IInv ==
    /\ TypeOK
    /\ RecordsInShape
    /\ HooksInStep
    /\ LatchMatchesRecords
    /\ DeltasWithinPayload

KeepsInv == IInv' /\ (RecordsLinked => RecordsLinked')

LEMMA LatchByRoot == LatchMatchesRecords <=> (active => \A r \in Roots : LatchIn(entries, r, states[r], generation))
<1>1. ASSUME NEW r \in Roots
      PROVE  /\ Deltas(r) = DeltasIn(entries, r) /\ Preimages(r) = PreimagesIn(entries, r)
             /\ StateOf(r).deltas = IF states[r].generation = generation THEN states[r].deltas ELSE 0
             /\ Saved(r) <=> states[r].saved = generation
             /\ RecordsOf(r) = {j \in DOMAIN entries : entries[j].owner = r}
  BY DEF Deltas, Preimages, RecordsOf, DeltasIn, PreimagesIn, StateOf, NewState, Saved
<1>2. ASSUME NEW r \in Roots
      PROVE  LatchIn(entries, r, states[r], generation) <=>
                /\ StateOf(r).deltas = Cardinality(Deltas(r))
                /\ Saved(r) <=> Preimages(r) # {}
                /\ \A i \in Preimages(r), j \in RecordsOf(r) :
                      j > i => entries[j].undo.kind = "rebind"
  BY <1>1 DEF LatchIn
<1>. QED BY <1>2 DEF LatchMatchesRecords

(* The same of the next state. *)
LEMMA LatchByRootNext ==
    LatchMatchesRecords' <=> (active' => \A r \in Roots : LatchIn(entries', r, states'[r], generation'))
<1>1. (LatchMatchesRecords <=> (active => \A r \in Roots : LatchIn(entries, r, states[r], generation)))'
  BY LatchByRoot, PTL
<1>. QED BY <1>1

LEMMA InitInv == Init => IInv /\ RecordsLinked
<1> SUFFICES ASSUME Init PROVE IInv /\ RecordsLinked
  OBVIOUS
<1> USE DEF Init
<1>1. TypeOK
  <2>1. /\ handle = [r \in Roots |-> handle[r]] /\ base = [r \in Roots |-> base[r]]
        /\ \A r \in Roots : handle[r] = Na /\ base[r] = Na
        /\ object \in [Roots -> Nat]
    BY DEF Unbound
  <2>2. Len(found) = Len(entries) /\ DOMAIN entries = {}
    OBVIOUS
  <2>3. states \in [Roots -> State] /\ generation \in 0..MaxGeneration
    BY LimitsAreNat DEF NewState, State
  <2>. QED BY <2>1, <2>2, <2>3 DEF TypeOK, State
<1>2. RecordsInShape
  <2>1. ASequence(<<>>)
    BY DEF ASequence
  <2>. QED BY <2>1 DEF RecordsInShape, NewState
<1>3. DeltasWithinPayload
  BY DEF DeltasWithinPayload, Deltas, RecordsOf
<1>. QED BY <1>1, <1>2, <1>3 DEF IInv, HooksInStep, NoCheckpoint, RecordsLinked, LatchMatchesRecords

(* What NewState and StateOf give is a state. *)
LEMMA StateOfType ==
    ASSUME TypeOK, NEW r \in Roots
    PROVE  /\ StateOf(r) \in State
           /\ StateOf(r).generation = generation
           /\ StateOf(r).saved = (IF states[r].generation = generation THEN states[r].saved ELSE 0)
           /\ StateOf(r).deltas = (IF states[r].generation = generation THEN states[r].deltas ELSE 0)
BY DEF TypeOK, StateOf, NewState, State

(* The number of elements of a payload. *)
Size(r, c) == IF r \in MapRoots THEN Len(c) ELSE Len(c) * Columns(c)

LEMMA SizeType ==
    ASSUME NEW r \in Roots, NEW c \in Payload(r)
    PROVE  Size(r, c) \in Nat
<1>1. CASE r \in MapRoots
  BY <1>1 DEF Size, Payload, Maps
<1>2. CASE r \notin MapRoots
  <2>1. c \in Matrices
    BY <1>2 DEF Payload
  <2>2. Len(c) \in Nat /\ Columns(c) \in Nat
    BY <2>1, RowsOfMatrix
  <2>. QED BY <1>2, <2>2 DEF Size
<1>. QED BY <1>1, <1>2

(* The step every recorded edit and every recorded replace() is: with the record
   linked and the state right, the invariant holds again. *)
LEMMA RecordKeepsInv ==
    ASSUME IInv, Recording, NEW r \in Roots, NEW u, NEW com \in BOOLEAN, NEW s \in State,
           NEW c \in {Na} \cup Payload(r), NEW o \in Nat,
           AppendHandle(r, u, com, s),
           handle' = [handle EXCEPT ![r] = c],
           object' = [object EXCEPT ![r] = o],
           UNCHANGED <<generation, active, replaying, checkpoint, hook, outcome, base>>,
           IsDelta(u) \/ com, ClosureFits(u, r),
           s.saved <= generation, s.generation <= generation,
           Linked(Last(entries'), Held(r), [object |-> o, data |-> c]),
           LatchIn(entries', r, s, generation),
           com /\ IsDelta(u) => handle[r] \in Payload(r) /\ StateOf(r).deltas < Elements(r)
    PROVE  KeepsInv
<1> USE DEF IInv
<1>. DEFINE e == [owner |-> r, generation |-> generation, object |-> object[r],
                  committed |-> com, undo |-> u]
            n == Len(entries)
<1>1. /\ entries' = Append(entries, e) /\ found' = Append(found, Held(r))
      /\ states' = [states EXCEPT ![r] = s]
  BY DEF AppendHandle
<1>2. /\ e.owner = r /\ e.generation = generation /\ e.object = object[r]
      /\ e.committed = com /\ e.undo = u
  OBVIOUS
<1>. HIDE DEF e
<1>3. /\ ASequence(entries') /\ n \in Nat /\ Len(entries') = n + 1
      /\ DOMAIN entries = 1..n /\ DOMAIN entries' = 1..n + 1
      /\ \A i \in 1..n : entries'[i] = entries[i]
      /\ entries'[n + 1] = e
  BY <1>1, AppendASequence DEF RecordsInShape
<1>4. /\ ASequence(found') /\ Len(found) = n /\ Len(found') = n + 1
      /\ \A i \in 1..n : found'[i] = found[i]
      /\ found'[n + 1] = Held(r)
  <2>1. Len(found) = n
    BY DEF TypeOK
  <2>. QED BY <1>1, <2>1, AppendASequence DEF RecordsInShape
<1>5. Last(entries') = e
  BY <1>3 DEF Last
<1>6. OneMore(entries', entries, n)
  BY <1>3 DEF OneMore
<1>7. /\ \A q \in Roots : handle'[q] = IF q = r THEN c ELSE handle[q]
      /\ \A q \in Roots : object'[q] = IF q = r THEN o ELSE object[q]
      /\ \A q \in Roots : states'[q] = IF q = r THEN s ELSE states[q]
      /\ handle' = [q \in Roots |-> handle'[q]]
      /\ object' \in [Roots -> Nat]
      /\ states' \in [Roots -> State]
  BY <1>1 DEF TypeOK, State
<1>. HIDE DEF n
<1>8. TypeOK'
  <2>1. \A q \in Roots : {handle'[q], base'[q]} \subseteq {Na} \cup Payload(q)
    BY <1>7 DEF TypeOK
  <2>2. ASSUME NEW i \in DOMAIN entries'
        PROVE  /\ entries'[i].owner \in Roots
               /\ entries'[i].generation \in Nat
               /\ entries'[i].committed \in BOOLEAN
               /\ found'[i].data \in {Na} \cup Payload(entries'[i].owner)
    <3>1. CASE i \in 1..n
      BY <1>3, <1>4, <3>1 DEF TypeOK
    <3>2. CASE i = n + 1
      <4>1. generation \in Nat /\ handle[r] \in {Na} \cup Payload(r)
        BY LimitsAreNat DEF TypeOK
      <4>. QED BY <1>2, <1>3, <1>4, <3>2, <4>1 DEF Held
    <3>. QED BY <1>3, <3>1, <3>2
  <2>3. base' = [q \in Roots |-> base'[q]] /\ generation' \in 0..MaxGeneration
        /\ active' \in BOOLEAN /\ replaying' \in BOOLEAN
        /\ checkpoint' \in {NoCheckpoint} \cup [taken : {TRUE}, generation : Nat]
        /\ hook' \in {"none", "undo"} /\ outcome' \in {"ok", "threw"}
    BY DEF TypeOK
  <2>. QED BY <1>3, <1>4, <1>7, <2>1, <2>2, <2>3 DEF TypeOK, State
<1>9. RecordsInShape'
  <2>1. \A i \in DOMAIN entries' :
           /\ IsDelta(entries'[i].undo) \/ entries'[i].committed
           /\ entries'[i].object \in Nat
           /\ ClosureFits(entries'[i].undo, entries'[i].owner)
    <3>1. TAKE i \in DOMAIN entries'
    <3>2. CASE i \in 1..n
      BY <1>3, <3>2 DEF RecordsInShape
    <3>3. CASE i = n + 1
      <4>1. object[r] \in Nat
        BY DEF TypeOK
      <4>. QED BY <1>2, <1>3, <3>3, <4>1
    <3>. QED BY <1>3, <3>2, <3>3
  <2>. QED BY <1>3, <1>4, <1>7, <2>1 DEF RecordsInShape
<1>10. HooksInStep'
  BY DEF HooksInStep, Recording
<1>11. ASSUME RecordsLinked PROVE RecordsLinked'
  <2>1. /\ HeldNow'[r] = [object |-> o, data |-> c] /\ HeldNow[r] = Held(r)
        /\ \A q \in Roots : q # r => HeldNow'[q] = HeldNow[q]
    BY <1>7 DEF HeldNow, Held
  <2>2. Links(entries, found, HeldNow, base)
    BY <1>11 DEF RecordsLinked, Recording
  <2>3. \A i \in DOMAIN entries : entries[i].owner \in Roots
    BY DEF TypeOK
  <2>4. ASequence(entries) /\ ASequence(found) /\ Len(found) = Len(entries)
    BY DEF RecordsInShape, TypeOK
  <2>5. Linked(e, HeldNow[e.owner], HeldNow'[e.owner])
    BY <1>2, <1>5, <2>1
  <2>6. Links(Append(entries, e), Append(found, HeldNow[e.owner]), HeldNow', base)
    BY <1>2, <2>1, <2>2, <2>3, <2>4, <2>5, AppendLinks
  <2>7. Links(entries', found', HeldNow', base')
    BY <1>1, <1>2, <2>1, <2>6
  <2>. QED BY <2>7 DEF RecordsLinked
<1>12. LatchMatchesRecords'
  <2>1. ASSUME NEW q \in Roots PROVE LatchIn(entries', q, states'[q], generation)
    <3>1. CASE q = r
      BY <1>7, <3>1
    <3>2. CASE q # r
      <4>1. LatchIn(entries, q, states[q], generation)
        BY LatchByRoot DEF Recording
      <4>2. states'[q] = states[q] /\ entries'[n + 1].owner # q
        BY <1>2, <1>3, <1>7, <3>2
      <4>. QED BY <1>6, <4>1, <4>2, LatchOfOthers
    <3>. QED BY <3>1, <3>2
  <2>. QED BY <2>1, LatchByRootNext
<1>13. DeltasWithinPayload'
  <2>1. \A q \in Roots : Deltas(q) = DeltasIn(entries, q) /\ Deltas(q)' = DeltasIn(entries', q)
    BY DEF Deltas, RecordsOf, DeltasIn
  <2>2. ASSUME NEW q \in Roots, NEW i \in DeltasIn(entries', q)
        PROVE  Cardinality({j \in DeltasIn(entries', q) : j <= i}) <= Size(q, found'[i].data)
    <3>1. i \in DOMAIN entries' /\ entries'[i].owner = q
      BY DEF DeltasIn
    <3>2. CASE i \in 1..n
      <4>1. i \in DeltasIn(entries, q)
        BY <1>3, <3>2 DEF DeltasIn
      <4>2. {j \in DeltasIn(entries', q) : j <= i} = {j \in DeltasIn(entries, q) : j <= i}
        BY <1>3, <3>2 DEF DeltasIn
      <4>3. Cardinality({j \in DeltasIn(entries, q) : j <= i}) <= Size(q, found[i].data)
        BY <2>1, <4>1 DEF DeltasWithinPayload, Size
      <4>. QED BY <1>4, <3>2, <4>2, <4>3
    <3>3. CASE i = n + 1
      <4>1. q = r /\ com /\ IsDelta(u)
        BY <1>2, <1>3, <3>1, <3>3 DEF DeltasIn
      <4>2. {j \in DeltasIn(entries', q) : j <= i} = DeltasIn(entries', q)
        BY <1>3, <3>3 DEF DeltasIn
      <4>3. /\ Cardinality(DeltasIn(entries', q)) = Cardinality(DeltasIn(entries, q)) + 1
            /\ Cardinality(DeltasIn(entries, q)) \in Nat
        BY <1>2, <1>3, <1>6, <4>1, CountRecords
      <4>4. StateOf(r).deltas = Cardinality(DeltasIn(entries, r))
        <5>1. LatchIn(entries, r, states[r], generation)
          BY LatchByRoot DEF Recording
        <5>. QED BY <5>1, StateOfType DEF LatchIn
      <4>5. Elements(r) = Size(r, handle[r]) /\ Size(r, handle[r]) \in Nat
        BY <4>1, SizeType DEF Elements, Size
      <4>6. found'[i].data = handle[r]
        BY <1>4, <3>3 DEF Held
      <4>7. Cardinality(DeltasIn(entries, r)) + 1 <= Size(r, handle[r])
        BY <4>1, <4>3, <4>4, <4>5
      <4>. QED BY <4>1, <4>2, <4>3, <4>6, <4>7
    <3>. QED BY <1>3, <3>1, <3>2, <3>3
  <2>. QED BY <2>1, <2>2 DEF DeltasWithinPayload, Size
<1>. QED BY <1>8, <1>9, <1>10, <1>11, <1>12, <1>13 DEF KeepsInv

(* An edit with a delta. *)
LEMMA DeltaStepKeepsInv ==
    ASSUME IInv, NEW r \in Roots, NEW c \in Payload(r), handle[r] \in Payload(r), DeltaStep(r, c)
    PROVE  KeepsInv
<1> USE DEF IInv
<1>1. PICK u, com :
         /\ com \in BOOLEAN /\ Recording /\ ~Saved(r) /\ ~BudgetSpent(r) /\ IsDelta(u)
         /\ DeltaFits(u, Payload(r))
         /\ IF com THEN Accepts(u, c) /\ Apply(u, c) = handle[r] ELSE c = handle[r]
         /\ AppendHandle(r, u, com, [StateOf(r) EXCEPT !.deltas = IF com THEN @ + 1 ELSE @])
         /\ Becomes(r, c)
  BY DEF DeltaStep
<1>. DEFINE s == [StateOf(r) EXCEPT !.deltas = IF com THEN @ + 1 ELSE @]
            e == [owner |-> r, generation |-> generation, object |-> object[r],
                  committed |-> com, undo |-> u]
            n == Len(entries)
<1>2. /\ entries' = Append(entries, e) /\ e.owner = r /\ e.committed = com /\ e.undo = u
      /\ e.object = object[r]
  BY <1>1 DEF AppendHandle
<1>. HIDE DEF e
<1>3. /\ OneMore(entries', entries, n) /\ entries'[n + 1] = e /\ Last(entries') = e
  BY <1>2, AppendASequence DEF RecordsInShape, OneMore, Last
<1>. HIDE DEF n
<1>4. /\ generation \in Nat /\ generation >= 1
      /\ states[r] \in State /\ states[r].saved <= generation /\ states[r].generation <= generation
  BY <1>1, LimitsAreNat DEF TypeOK, State, HooksInStep, Recording, RecordsInShape
<1>5. /\ s \in State /\ s.generation = generation
      /\ s.saved = StateOf(r).saved
      /\ s.deltas = (IF states[r].generation = generation THEN states[r].deltas ELSE 0) + (IF com THEN 1 ELSE 0)
  <2>. DEFINE t == StateOf(r)
  <2>1. t \in State /\ t.generation = generation
        /\ t.deltas = (IF states[r].generation = generation THEN states[r].deltas ELSE 0)
    BY StateOfType
  <2>. HIDE DEF t
  <2>2. s = [t EXCEPT !.deltas = IF com THEN @ + 1 ELSE @]
    BY DEF t
  <2>. QED BY <1>1, <2>1, <2>2 DEF State, t
<1>6. s.saved # generation /\ s.saved <= generation /\ states[r].saved # generation
  BY <1>1, <1>4, <1>5, StateOfType DEF Saved
<1>. HIDE DEF s
<1>7. LatchIn(entries', r, s, generation)
  <2>1. LatchIn(entries, r, states[r], generation)
    BY <1>1, LatchByRoot DEF Recording
  <2>2. /\ entries'[n + 1].owner = r /\ IsDelta(entries'[n + 1].undo)
        /\ entries'[n + 1].committed = com /\ com \in BOOLEAN
    BY <1>1, <1>2, <1>3
  <2>3. s.deltas = (IF states[r].generation = generation THEN states[r].deltas ELSE 0)
                     + (IF entries'[n + 1].committed THEN 1 ELSE 0)
    BY <1>5, <2>2
  <2>. QED BY <1>3, <1>4, <1>5, <1>6, <2>1, <2>2, <2>3, LatchOfDelta
<1>8. Linked(e, Held(r), [object |-> object[r], data |-> c])
  BY <1>1, <1>2 DEF Linked, Held, Undone, IsDelta
<1>9. StateOf(r).deltas < Elements(r)
  <2>1. Elements(r) = Size(r, handle[r]) /\ Elements(r) \in Nat
    BY SizeType DEF Elements, Size
  <2>. QED BY <1>1, <2>1, StateOfType DEF BudgetSpent, State
<1>. DEFINE o == object[r]
<1>10. /\ handle' = [handle EXCEPT ![r] = c] /\ object' = [object EXCEPT ![r] = o] /\ o \in Nat
       /\ UNCHANGED <<generation, active, replaying, checkpoint, hook, outcome, base>>
  BY <1>1 DEF Becomes, control, TypeOK
<1>11. AppendHandle(r, u, com, s)
  BY <1>1 DEF s
<1>12. Linked(Last(entries'), Held(r), [object |-> o, data |-> c])
  BY <1>3, <1>8
<1>13. com \in BOOLEAN /\ Recording /\ IsDelta(u) /\ c \in {Na} \cup Payload(r)
  BY <1>1
<1>14. s.generation <= generation
  BY <1>4, <1>5
<1>15. ClosureFits(u, r)
  BY <1>1 DEF ClosureFits, IsDelta
<1>. HIDE DEF o, IInv
<1>. QED BY <1>5, <1>6, <1>7, <1>9, <1>10, <1>11, <1>12, <1>13, <1>14, <1>15, RecordKeepsInv

(* An edit that saves the payload first. *)
LEMMA PreimageKeepsInv ==
    ASSUME IInv, NEW r \in Roots, NEW c \in Payload(r), handle[r] \in Payload(r),
           Recording, ~Saved(r), SaveStep(r, c)
    PROVE  KeepsInv
<1> USE DEF IInv
<1>. DEFINE s == [StateOf(r) EXCEPT !.saved = generation]
            u == Preimage(handle[r])
            e == [owner |-> r, generation |-> generation, object |-> object[r],
                  committed |-> TRUE, undo |-> u]
            n == Len(entries)
<1>1. AppendHandle(r, u, TRUE, s) /\ Becomes(r, c)
  BY DEF SaveStep, SaveHandle
<1>2. /\ entries' = Append(entries, e) /\ e.owner = r /\ e.committed = TRUE /\ e.undo = u
      /\ e.object = object[r]
  BY <1>1 DEF AppendHandle
<1>. HIDE DEF e
<1>3. /\ OneMore(entries', entries, n) /\ entries'[n + 1] = e /\ Last(entries') = e
  BY <1>2, AppendASequence DEF RecordsInShape, OneMore, Last
<1>. HIDE DEF n
<1>4. /\ generation \in Nat
      /\ states[r] \in State /\ states[r].saved <= generation /\ states[r].generation <= generation
  BY LimitsAreNat DEF TypeOK, State, RecordsInShape
<1>5. /\ s \in State /\ s.generation = generation /\ s.saved = generation
      /\ s.deltas = (IF states[r].generation = generation THEN states[r].deltas ELSE 0)
  <2>. DEFINE t == StateOf(r)
  <2>1. t \in State /\ t.generation = generation
        /\ t.deltas = (IF states[r].generation = generation THEN states[r].deltas ELSE 0)
    BY StateOfType
  <2>. HIDE DEF t
  <2>2. s = [t EXCEPT !.saved = generation]
    BY DEF t
  <2>. QED BY <1>4, <2>1, <2>2 DEF State
<1>6. states[r].saved # generation
  BY DEF Saved
<1>. HIDE DEF s
<1>7. u.kind = "preimage" /\ u.old = handle[r] /\ ~IsDelta(u)
  BY DEF Preimage, IsDelta
<1>. HIDE DEF u
<1>8. LatchIn(entries', r, s, generation)
  <2>1. LatchIn(entries, r, states[r], generation)
    BY LatchByRoot DEF Recording
  <2>2. entries'[n + 1].owner = r /\ entries'[n + 1].undo.kind = "preimage"
    BY <1>2, <1>3, <1>7
  <2>. QED BY <1>3, <1>4, <1>5, <1>6, <2>1, <2>2, LatchOfPreimage
<1>9. Linked(e, Held(r), [object |-> object[r], data |-> c])
  BY <1>2, <1>7 DEF Linked, Held, Undone, Apply
<1>. DEFINE o == object[r]
<1>10. /\ handle' = [handle EXCEPT ![r] = c] /\ object' = [object EXCEPT ![r] = o] /\ o \in Nat
       /\ UNCHANGED <<generation, active, replaying, checkpoint, hook, outcome, base>>
  BY <1>1 DEF Becomes, control, TypeOK
<1>11. Linked(Last(entries'), Held(r), [object |-> o, data |-> c])
  BY <1>3, <1>9
<1>12. s.saved <= generation /\ s.generation <= generation
  BY <1>4, <1>5
<1>13. ClosureFits(u, r)
  BY <1>7 DEF ClosureFits
<1>. HIDE DEF o, IInv
<1>. QED BY <1>1, <1>5, <1>7, <1>8, <1>10, <1>11, <1>12, <1>13, RecordKeepsInv

(* A replace() while a checkpoint records. *)
LEMMA RecordedReplaceKeepsInv ==
    ASSUME IInv, NEW r \in Roots, NEW c \in Payload(r), Recording, Replace(r, c)
    PROVE  KeepsInv
<1> USE DEF IInv
<1>. DEFINE s == states[r]
            u == Rebind(handle[r])
            o == object[r] + 1
            e == [owner |-> r, generation |-> generation, object |-> object[r],
                  committed |-> TRUE, undo |-> u]
            n == Len(entries)
<1>1. AppendHandle(r, u, TRUE, s)
  BY DEF Replace
<1>2. /\ entries' = Append(entries, e) /\ e.owner = r /\ e.committed = TRUE /\ e.undo = u
      /\ e.object = object[r]
  BY <1>1 DEF AppendHandle
<1>. HIDE DEF e
<1>3. /\ OneMore(entries', entries, n) /\ entries'[n + 1] = e /\ Last(entries') = e
  BY <1>2, AppendASequence DEF RecordsInShape, OneMore, Last
<1>. HIDE DEF n
<1>4. /\ generation \in Nat /\ o \in Nat
      /\ s \in State /\ s.saved <= generation /\ s.generation <= generation
  BY LimitsAreNat DEF TypeOK, State, RecordsInShape
<1>5. u.kind = "rebind" /\ u.old = handle[r] /\ ~IsDelta(u)
  BY DEF Rebind, IsDelta
<1>. HIDE DEF u
<1>6. LatchIn(entries', r, s, generation)
  <2>1. LatchIn(entries, r, states[r], generation)
    BY LatchByRoot DEF Recording
  <2>. QED BY <1>2, <1>3, <1>4, <1>5, <2>1, LatchOfRebind
<1>7. Linked(e, Held(r), [object |-> o, data |-> c])
  BY <1>2, <1>5 DEF Linked, Held, Undone
<1>8. /\ handle' = [handle EXCEPT ![r] = c] /\ object' = [object EXCEPT ![r] = o]
      /\ UNCHANGED <<generation, active, replaying, checkpoint, hook, outcome, base>>
  BY DEF Replace, NewObject, Recording, control
<1>9. ClosureFits(u, r)
  BY <1>5 DEF ClosureFits, TypeOK
<1>. HIDE DEF s, o
<1>. QED BY <1>1, <1>3, <1>4, <1>5, <1>6, <1>7, <1>8, <1>9, RecordKeepsInv

(* A step that leaves the records and their states alone keeps what is said
   of them. *)
LEMMA SameRecords ==
    ASSUME UNCHANGED <<entries, found, states, generation, active>>
    PROVE  /\ RecordsInShape => RecordsInShape'
           /\ LatchMatchesRecords => LatchMatchesRecords'
           /\ DeltasWithinPayload => DeltasWithinPayload'
<1>1. RecordsInShape => RecordsInShape'
  BY DEF RecordsInShape
<1>2. LatchMatchesRecords => LatchMatchesRecords'
  BY LatchByRoot, LatchByRootNext
<1>3. DeltasWithinPayload => DeltasWithinPayload'
  BY DEF DeltasWithinPayload, Deltas, RecordsOf
<1>. QED BY <1>1, <1>2, <1>3

(* A latched root changes in its object without a record: its last record is its
   preimage, or binds another object. *)
LEMMA LatchedChangeKeepsLinks ==
    ASSUME IInv, RecordsLinked, active, NEW r \in Roots, Saved(r), NEW c, NEW G,
           G[r] = [object |-> object[r], data |-> c],
           \A q \in Roots : q # r => G[q] = HeldNow[q]
    PROVE  Links(entries, found, G, base)
<1> USE DEF IInv
<1>1. LatchIn(entries, r, states[r], generation) /\ states[r].saved = generation
  BY LatchByRoot DEF Saved
<1>2. PICK p \in DOMAIN entries : entries[p].owner = r /\ entries[p].undo.kind = "preimage"
  BY <1>1 DEF LatchIn, PreimagesIn
<1>3. DOMAIN entries = 1..Len(entries) /\ Len(entries) \in Nat
  BY DEF RecordsInShape, ASequence
<1>4. Links(entries, found, HeldNow, base)
  BY DEF RecordsLinked
<1>5. ASSUME NEW i \in DOMAIN entries, entries[i].owner = r,
             \A j \in DOMAIN entries : j > i => entries[j].owner # r
      PROVE  Linked(entries[i], found[i], G[r])
  <2>1. Linked(entries[i], found[i], HeldNow[r])
    <3>1. After(entries, found, HeldNow, r, i, HeldNow[r])
      BY <1>5 DEF After
    <3>. QED BY <1>4, <1>5, <3>1 DEF Links
  <2>2. entries[i].undo.kind \in {"preimage", "rebind"}
    <3>1. CASE i = p
      BY <1>2, <3>1
    <3>2. CASE i # p
      <4>1. i > p
        BY <1>2, <1>3, <1>5, <3>2
      <4>. QED BY <1>1, <1>2, <1>5, <4>1 DEF LatchIn, PreimagesIn
    <3>. QED BY <3>1, <3>2
  <2>3. entries[i].committed
    BY <2>2 DEF RecordsInShape, IsDelta
  <2>4. HeldNow[r].object = object[r]
    BY DEF HeldNow, Held
  <2>5. CASE entries[i].undo.kind = "rebind"
    BY <2>1, <2>3, <2>5 DEF Linked, Undone, IsDelta
  <2>6. CASE entries[i].undo.kind = "preimage"
    <3>1. entries[i].object = object[r] /\ Undone(entries[i], HeldNow[r]) = found[i]
          /\ found[i].object = entries[i].object
      BY <2>1, <2>4, <2>6 DEF Linked
    <3>2. Undone(entries[i], HeldNow[r]) = [object |-> object[r], data |-> entries[i].undo.old]
      BY <2>3, <2>4, <2>6, <3>1 DEF Undone, Apply, IsDelta, HeldNow, Held
    <3>3. Undone(entries[i], G[r]) = [object |-> object[r], data |-> entries[i].undo.old]
      BY <2>3, <2>6, <3>1 DEF Undone, Apply, IsDelta
    <3>. QED BY <2>6, <3>1, <3>2, <3>3 DEF Linked, IsDelta
  <2>. QED BY <2>2, <2>5, <2>6
<1>6. \A i \in DOMAIN entries : entries[i].owner \in Roots
  BY DEF TypeOK
<1>7. \E i \in DOMAIN entries : i > 0 /\ entries[i].owner = r
  BY <1>2, <1>3
<1>. QED BY <1>4, <1>5, <1>6, <1>7, KeepLinks

(* An edit that leaves no record: nothing is recorded, or its root is latched. *)
LEMMA UnrecordedEditKeepsInv ==
    ASSUME IInv, NEW r \in Roots, NEW c \in Payload(r), ~(Recording /\ ~Saved(r)),
           hook = "none", SaveStep(r, c)
    PROVE  KeepsInv
<1> USE DEF IInv
<1>1. /\ handle' = [handle EXCEPT ![r] = c]
      /\ UNCHANGED <<entries, found, states, object, generation, active, replaying, base,
                     checkpoint, hook, outcome>>
  BY DEF SaveStep, SaveHandle, NoRecord, Becomes, control
<1>2. /\ \A q \in Roots : handle'[q] = IF q = r THEN c ELSE handle[q]
      /\ handle' = [q \in Roots |-> handle'[q]]
  BY <1>1 DEF TypeOK
<1>3. TypeOK'
  <2>1. \A q \in Roots : {handle'[q], base'[q]} \subseteq {Na} \cup Payload(q)
    BY <1>1, <1>2 DEF TypeOK
  <2>. QED BY <1>1, <1>2, <2>1 DEF TypeOK
<1>4. ASSUME RecordsLinked PROVE RecordsLinked'
  <2>1. SUFFICES ASSUME active PROVE Links(entries, found, HeldNow', base)
    BY <1>1 DEF RecordsLinked
  <2>2. Saved(r)
    BY <2>1 DEF Recording, HooksInStep
  <2>3. /\ HeldNow'[r] = [object |-> object[r], data |-> c]
        /\ \A q \in Roots : q # r => HeldNow'[q] = HeldNow[q]
    BY <1>1, <1>2 DEF HeldNow, Held
  <2>. QED BY <1>4, <2>1, <2>2, <2>3, LatchedChangeKeepsLinks
<1>5. HooksInStep'
  BY <1>1 DEF HooksInStep
<1>. QED BY <1>1, <1>3, <1>4, <1>5, SameRecords DEF KeepsInv

(* A replace() without a checkpoint. *)
LEMMA UnrecordedReplaceKeepsInv ==
    ASSUME IInv, NEW r \in Roots, NEW c \in Payload(r), ~Recording, hook = "none", Replace(r, c)
    PROVE  KeepsInv
<1> USE DEF IInv
<1>1. /\ handle' = [handle EXCEPT ![r] = c] /\ object' = [object EXCEPT ![r] = 0]
      /\ UNCHANGED <<entries, found, states, generation, active, replaying, base,
                     checkpoint, hook, outcome>>
      /\ ~active
  BY DEF Replace, NewObject, NoRecord, control, Recording, HooksInStep
<1>2. /\ \A q \in Roots : handle'[q] = IF q = r THEN c ELSE handle[q]
      /\ handle' = [q \in Roots |-> handle'[q]]
      /\ object' \in [Roots -> Nat]
  BY <1>1 DEF TypeOK
<1>3. TypeOK'
  <2>1. \A q \in Roots : {handle'[q], base'[q]} \subseteq {Na} \cup Payload(q)
    BY <1>1, <1>2 DEF TypeOK
  <2>. QED BY <1>1, <1>2, <2>1 DEF TypeOK
<1>4. HooksInStep' /\ RecordsLinked'
  BY <1>1 DEF HooksInStep, RecordsLinked
<1>. QED BY <1>1, <1>3, <1>4, SameRecords DEF KeepsInv

(* Script code keeps the invariant. *)
LEMMA ScriptKeepsInv ==
    ASSUME IInv, RunScript
    PROVE  KeepsInv
<1>1. hook = "none" /\ TypeOK
  BY ScriptSteps DEF IInv
<1>2. ASSUME NEW r \in Roots, NEW c, Edit(r, c) PROVE KeepsInv
  <2>1. handle[r] \in Payload(r) /\ c \in Payload(r)
    BY <1>2 DEF Edit
  <2>2. CASE DeltaStep(r, c)
    BY <2>1, <2>2, DeltaStepKeepsInv
  <2>3. CASE SaveStep(r, c)
    BY <1>1, <2>1, <2>3, PreimageKeepsInv, UnrecordedEditKeepsInv
  <2>. QED BY <1>2, <2>2, <2>3 DEF Edit
<1>3. ASSUME NEW r \in Roots, NEW c \in Payload(r), Replace(r, c) PROVE KeepsInv
  BY <1>1, <1>3, RecordedReplaceKeepsInv, UnrecordedReplaceKeepsInv
<1>. QED BY <1>1, <1>2, <1>3, ScriptSteps

(* A snapshot begins with no record, and no state is of its generation. *)
LEMMA SnapshotKeepsInv ==
    ASSUME IInv, Snapshot
    PROVE  KeepsInv
<1> USE DEF IInv, Snapshot
<1>1. generation \in Nat /\ generation' = generation + 1 /\ generation' \in 0..MaxGeneration
  BY LimitsAreNat DEF TypeOK
<1>2. TypeOK'
  <2>1. /\ handle' = [r \in Roots |-> handle'[r]] /\ base' = [r \in Roots |-> base'[r]]
        /\ \A r \in Roots : {handle'[r], base'[r]} \subseteq {Na} \cup Payload(r)
        /\ object' \in [Roots -> Nat]
    BY DEF TypeOK
  <2>2. Len(found') = Len(entries') /\ DOMAIN entries' = {}
    OBVIOUS
  <2>3. /\ states' \in [Roots -> State] /\ replaying' \in BOOLEAN
        /\ checkpoint' \in [taken : {TRUE}, generation : Nat] /\ hook' \in {"none", "undo"}
    BY <1>1 DEF TypeOK, State
  <2>. QED BY <1>1, <2>1, <2>2, <2>3 DEF TypeOK, State
<1>3. RecordsInShape'
  <2>1. ASequence(<<>>)
    BY DEF ASequence
  <2>2. \A r \in Roots : states'[r].saved <= generation' /\ states'[r].generation <= generation'
    BY <1>1 DEF RecordsInShape, TypeOK
  <2>. QED BY <2>1, <2>2 DEF RecordsInShape
<1>4. HooksInStep'
  BY <1>1 DEF HooksInStep
<1>5. RecordsLinked'
  <2>1. \A r \in Roots : HeldNow'[r].data = base'[r]
    BY DEF HeldNow, Held
  <2>2. \A r \in Roots : \A h : After(<<>>, <<>>, HeldNow', r, 0, h) => h = HeldNow'[r]
    BY DEF After
  <2>. QED BY <2>1, <2>2 DEF RecordsLinked, Links
<1>6. LatchMatchesRecords'
  <2>1. ASSUME NEW r \in Roots PROVE LatchIn(<<>>, r, states[r], generation + 1)
    <3>1. DeltasIn(<<>>, r) = {} /\ PreimagesIn(<<>>, r) = {} /\ Cardinality({}) = 0
      BY FS_EmptySet DEF DeltasIn, PreimagesIn
    <3>2. states[r].saved # generation + 1 /\ states[r].generation # generation + 1
      BY <1>1 DEF RecordsInShape, TypeOK
    <3>. QED BY <3>1, <3>2 DEF LatchIn
  <2>. QED BY <1>1, <2>1, LatchByRootNext
<1>7. DeltasWithinPayload'
  BY DEF DeltasWithinPayload, Deltas, RecordsOf
<1>. QED BY <1>2, <1>3, <1>4, <1>5, <1>6, <1>7 DEF KeepsInv

(* A new run has no checkpoint; the states it leaves are of past generations. *)
LEMMA PrepareRunKeepsInv ==
    ASSUME IInv, PrepareRun
    PROVE  KeepsInv
<1> USE DEF IInv, PrepareRun
<1>1. TypeOK'
  <2>1. /\ handle' = [r \in Roots |-> handle'[r]] /\ base' = [r \in Roots |-> base'[r]]
        /\ \A r \in Roots : handle'[r] = Na /\ base'[r] = Na
        /\ object' \in [Roots -> Nat]
    BY DEF Unbound
  <2>2. Len(found') = Len(entries') /\ DOMAIN entries' = {}
    OBVIOUS
  <2>. QED BY <2>1, <2>2 DEF TypeOK
<1>2. RecordsInShape'
  <2>1. ASequence(<<>>)
    BY DEF ASequence
  <2>. QED BY <2>1 DEF RecordsInShape
<1>3. HooksInStep' /\ RecordsLinked' /\ LatchMatchesRecords'
  BY DEF HooksInStep, NoCheckpoint, RecordsLinked, LatchMatchesRecords
<1>4. DeltasWithinPayload'
  BY DEF DeltasWithinPayload, Deltas, RecordsOf
<1>. QED BY <1>1, <1>2, <1>3, <1>4 DEF KeepsInv

(* The last record, and what undoing it would make of its root: something of the
   root's type, unless the engine refuses. *)
LEMMA LastRecord ==
    ASSUME IInv, entries # <<>>
    PROVE  LET e == Last(entries)
               h == Undone(e, Held(e.owner))
           IN  /\ e = entries[Len(entries)] /\ Len(entries) \in DOMAIN entries
               /\ e.owner \in Roots
               /\ ~Refused(e) => /\ h.object \in Nat /\ h.data \in {Na} \cup Payload(e.owner)
                                 /\ h = [object |-> h.object, data |-> h.data]
<1> USE DEF IInv
<1>. DEFINE n == Len(entries)
            e == Last(entries)
            r == e.owner
            h == Undone(e, Held(r))
<1>1. e = entries[n] /\ n \in DOMAIN entries
  BY FrontASequence DEF RecordsInShape
<1>2. /\ r \in Roots /\ e.object \in Nat /\ ClosureFits(e.undo, r)
      /\ IsDelta(e.undo) \/ e.committed
  BY <1>1 DEF TypeOK, RecordsInShape
<1>3. /\ Held(r) = [object |-> object[r], data |-> handle[r]]
      /\ object[r] \in Nat /\ handle[r] \in {Na} \cup Payload(r)
  BY <1>2 DEF Held, TypeOK
<1>. HIDE DEF n, e, r
<1>4. ASSUME ~Refused(e)
      PROVE  \E o \in Nat, d \in {Na} \cup Payload(r) : h = [object |-> o, data |-> d]
  <2>1. \/ h = Held(r)
        \/ e.committed /\ e.undo.kind = "rebind" /\ h = [object |-> e.object, data |-> e.undo.old]
        \/ /\ e.committed /\ e.undo.kind # "rebind" /\ e.object = object[r]
           /\ h = [object |-> object[r], data |-> Apply(e.undo, handle[r])]
    BY <1>3 DEF Undone
  <2>. HIDE DEF h
  <2>2. CASE h = Held(r)
    BY <1>3, <2>2
  <2>3. CASE e.undo.kind = "rebind" /\ h = [object |-> e.object, data |-> e.undo.old]
    <3>1. e.undo.old \in {Na} \cup Payload(r)
      BY <1>2, <2>3 DEF ClosureFits
    <3>. QED BY <1>2, <2>3, <3>1
  <2>4. CASE /\ e.committed /\ e.undo.kind # "rebind" /\ e.object = object[r]
             /\ h = [object |-> object[r], data |-> Apply(e.undo, handle[r])]
    <3>1. Apply(e.undo, handle[r]) \in {Na} \cup Payload(r)
      <4>1. CASE IsDelta(e.undo)
        <5>1. Accepts(e.undo, handle[r])
          BY <1>4, <2>4, <4>1 DEF Refused, r
        <5>2. handle[r] \in Payload(r)
          BY <1>3, <5>1 DEF Accepts
        <5>. QED BY <1>2, <4>1, <5>1, <5>2 DEF ClosureFits, DeltaFits
      <4>2. CASE ~IsDelta(e.undo)
        <5>1. Apply(e.undo, handle[r]) = e.undo.old /\ e.undo.kind = "preimage"
          BY <2>4, <4>2 DEF Apply, IsDelta
        <5>. QED BY <1>2, <5>1 DEF ClosureFits
      <4>. QED BY <4>1, <4>2
    <3>. QED BY <1>3, <2>4, <3>1
  <2>. QED BY <2>1, <2>2, <2>3, <2>4
<1>. HIDE DEF h
<1>5. ~Refused(e) => /\ h.object \in Nat /\ h.data \in {Na} \cup Payload(r)
                     /\ h = [object |-> h.object, data |-> h.data]
  BY <1>4
<1>. QED BY <1>1, <1>2, <1>5 DEF n, e, r, h

(* What the last record undoes to is what its edit found, and the engine does not
   refuse it. *)
LEMMA LastRecordUndone ==
    ASSUME IInv, RecordsLinked, active, entries # <<>>
    PROVE  /\ Undone(Last(entries), Held(Last(entries).owner)) = found[Len(entries)]
           /\ ~Refused(Last(entries))
<1> USE DEF IInv
<1>. DEFINE n == Len(entries)
            e == Last(entries)
            h == Held(e.owner)
<1>1. e = entries[n] /\ n \in DOMAIN entries /\ n \in Nat \ {0} /\ DOMAIN entries = 1..n
  BY FrontASequence DEF RecordsInShape
<1>2. e.owner \in Roots
  BY <1>1 DEF TypeOK
<1>3. Linked(e, found[n], h)
  <2>1. HeldNow[e.owner] = h
    BY <1>2 DEF HeldNow
  <2>2. After(entries, found, HeldNow, e.owner, n, h)
    BY <1>1, <2>1 DEF After
  <2>. QED BY <1>1, <2>2 DEF RecordsLinked, Links
<1>. QED BY <1>3 DEF Linked, Refused, Held

(* Undoing the last record brings back what its edit found, and the state of its
   root summarises one record less. *)
LEMMA UndoLastKeepsInv ==
    ASSUME IInv, UndoLast
    PROVE  KeepsInv
<1> USE DEF IInv
<1>. DEFINE n == Len(entries)
            r == Last(entries).owner
            f == Undone(Last(entries), Held(r))
            t == states'[r]
<1>1. /\ active /\ entries # <<>>
      /\ UNCHANGED <<generation, active, replaying, base, checkpoint, hook, outcome>>
      /\ entries' = Front(entries) /\ found' = Front(found)
      /\ states' = StateAfterUndo(Last(entries))
  BY DEF UndoLast, control, HooksInStep
<1>2. PICK m \in Nat : n = m + 1 /\ m = n - 1
  BY <1>1, FrontASequence DEF RecordsInShape
<1>3. /\ ASequence(entries') /\ Len(entries') = m /\ DOMAIN entries = 1..m + 1 /\ DOMAIN entries' = 1..m
      /\ \A i \in 1..m : entries'[i] = entries[i]
      /\ Last(entries) = entries[m + 1]
  BY <1>1, <1>2, FrontASequence DEF RecordsInShape
<1>4. ASequence(found') /\ Len(found') = m /\ \A i \in 1..m : found'[i] = found[i]
  <2>1. Len(found) = m + 1 /\ found # <<>>
    BY <1>2 DEF TypeOK
  <2>2. ASequence(found)
    BY DEF RecordsInShape
  <2>. QED BY <1>1, <1>2, <2>1, <2>2, FrontASequence
<1>5. /\ r \in Roots /\ f.data \in {Na} \cup Payload(r)
      /\ f.object \in Nat /\ f = [object |-> f.object, data |-> f.data]
  BY <1>1, LastRecord DEF UndoLast
<1>6. handle' = [handle EXCEPT ![r] = f.data] /\ object' = [object EXCEPT ![r] = f.object]
  BY DEF UndoLast
<1>7. OneMore(entries, entries', m)
  BY <1>3 DEF OneMore
<1>. HIDE DEF n, f
<1>9. /\ \A q \in Roots : handle'[q] = IF q = r THEN f.data ELSE handle[q]
      /\ \A q \in Roots : object'[q] = IF q = r THEN f.object ELSE object[q]
      /\ handle' = [q \in Roots |-> handle'[q]]
      /\ object' \in [Roots -> Nat]
  BY <1>5, <1>6 DEF TypeOK
<1>10. generation \in Nat \ {0}
  BY <1>1, LimitsAreNat DEF TypeOK, HooksInStep
<1>11. /\ t = (IF ~Last(entries).committed \/ Last(entries).undo.kind = "rebind" THEN states[r]
               ELSE IF Last(entries).undo.kind = "preimage" THEN [states[r] EXCEPT !.saved = 0]
               ELSE [states[r] EXCEPT !.deltas = @ - 1])
       /\ \A q \in Roots : q # r => states'[q] = states[q]
       /\ states' = [q \in Roots |-> states'[q]]
  <2>1. states = [q \in Roots |-> states[q]] /\ DOMAIN states = Roots
    BY DEF TypeOK
  <2>. QED BY <1>1, <1>5, <2>1 DEF StateAfterUndo
<1>12. /\ LatchIn(entries', r, t, generation)
       /\ t \in State
       /\ t.generation = states[r].generation /\ (t.saved = states[r].saved \/ t.saved = 0)
  <2>1. LatchIn(entries, r, states[r], generation) /\ states[r] \in State
    BY <1>1, <1>5, LatchByRoot DEF TypeOK, State
  <2>2. /\ entries[m + 1].owner = r /\ entries[m + 1].committed \in BOOLEAN
        /\ ~IsDelta(entries[m + 1].undo) => entries[m + 1].committed
    BY <1>2, <1>3 DEF TypeOK, RecordsInShape
  <2>3. t = (IF ~entries[m + 1].committed \/ entries[m + 1].undo.kind = "rebind" THEN states[r]
             ELSE IF entries[m + 1].undo.kind = "preimage" THEN [states[r] EXCEPT !.saved = 0]
             ELSE [states[r] EXCEPT !.deltas = @ - 1])
    BY <1>3, <1>11
  <2>. DEFINE s == states[r]
              list == entries
  <2>4. s \in [generation : Nat, saved : Nat, deltas : Nat]
    BY <2>1 DEF State
  <2>5. OneMore(list, entries', m) /\ LatchIn(list, r, s, generation)
    BY <1>7, <2>1
  <2>6. /\ list[m + 1].owner = r /\ list[m + 1].committed \in BOOLEAN
        /\ ~IsDelta(list[m + 1].undo) => list[m + 1].committed
        /\ t = (IF ~list[m + 1].committed \/ list[m + 1].undo.kind = "rebind" THEN s
                ELSE IF list[m + 1].undo.kind = "preimage" THEN [s EXCEPT !.saved = 0]
                ELSE [s EXCEPT !.deltas = @ - 1])
    BY <2>2, <2>3
  <2>. HIDE DEF t, r, s, list, IInv
  <2>7. /\ LatchIn(entries', r, t, generation)
        /\ t \in [generation : Nat, saved : Nat, deltas : Nat]
        /\ t.generation = s.generation /\ (t.saved = s.saved \/ t.saved = 0)
    BY <1>10, <2>4, <2>5, <2>6, LatchAfterUndo
  <2>. QED BY <2>7 DEF State, s
<1>. HIDE DEF t
<1>13. TypeOK'
  <2>1. \A q \in Roots : {handle'[q], base'[q]} \subseteq {Na} \cup Payload(q)
    BY <1>1, <1>5, <1>9 DEF TypeOK
  <2>2. states' \in [Roots -> State]
    BY <1>11, <1>12 DEF TypeOK, State, t
  <2>3. \A i \in 1..m : i \in DOMAIN entries
    BY <1>3
  <2>. QED BY <1>1, <1>3, <1>4, <1>9, <2>1, <2>2, <2>3 DEF TypeOK, State
<1>14. RecordsInShape'
  <2>1. \A q \in Roots : states'[q].saved <= generation /\ states'[q].generation <= generation
    <3>1. TAKE q \in Roots
    <3>2. states[q].saved <= generation /\ states[q].generation <= generation
      BY DEF RecordsInShape
    <3>3. CASE q = r
      BY <1>10, <1>12, <3>2, <3>3 DEF t
    <3>4. CASE q # r
      BY <1>11, <3>2, <3>4
    <3>. QED BY <3>3, <3>4
  <2>2. \A i \in 1..m : i \in DOMAIN entries
    BY <1>3
  <2>. QED BY <1>1, <1>3, <1>4, <2>1, <2>2 DEF RecordsInShape
<1>15. HooksInStep'
  BY <1>1 DEF HooksInStep
<1>16. ASSUME RecordsLinked PROVE RecordsLinked'
  <2>0. f = found[n]
    BY <1>1, <1>16, LastRecordUndone DEF f, n
  <2>1. HeldNow'[r] = f /\ \A q \in Roots : q # r => HeldNow'[q] = HeldNow[q]
    BY <1>5, <1>9 DEF HeldNow, Held
  <2>2. Links(entries, found, HeldNow, base)
    BY <1>1, <1>16 DEF RecordsLinked
  <2>3. /\ ASequence(entries) /\ ASequence(found) /\ Len(found) = Len(entries)
        /\ \A i \in DOMAIN entries : entries[i].owner \in Roots
    BY DEF RecordsInShape, TypeOK
  <2>4. Links(Front(entries), Front(found), HeldNow', base)
    BY <1>1, <2>0, <2>1, <2>2, <2>3, DropLinks DEF n
  <2>. QED BY <1>1, <2>4 DEF RecordsLinked
<1>17. LatchMatchesRecords'
  <2>1. ASSUME NEW q \in Roots PROVE LatchIn(entries', q, states'[q], generation)
    <3>1. CASE q = r
      BY <1>12, <3>1 DEF t
    <3>2. CASE q # r
      <4>1. LatchIn(entries, q, states[q], generation) /\ states'[q] = states[q]
        BY <1>1, <1>11, <3>2, LatchByRoot
      <4>2. entries[m + 1].owner # q
        BY <1>3, <3>2
      <4>. QED BY <1>7, <4>1, <4>2, LatchOfOthers
    <3>. QED BY <3>1, <3>2
  <2>. QED BY <1>1, <2>1, LatchByRootNext
<1>18. DeltasWithinPayload'
  <2>1. \A q \in Roots : Deltas(q) = DeltasIn(entries, q) /\ Deltas(q)' = DeltasIn(entries', q)
    BY DEF Deltas, RecordsOf, DeltasIn
  <2>2. ASSUME NEW q \in Roots, NEW i \in DeltasIn(entries', q)
        PROVE  Cardinality({j \in DeltasIn(entries', q) : j <= i}) <= Size(q, found'[i].data)
    <3>1. i \in 1..m /\ i \in DeltasIn(entries, q)
      BY <1>3 DEF DeltasIn
    <3>2. {j \in DeltasIn(entries', q) : j <= i} = {j \in DeltasIn(entries, q) : j <= i}
      BY <1>3, <3>1 DEF DeltasIn
    <3>3. Cardinality({j \in DeltasIn(entries, q) : j <= i}) <= Size(q, found[i].data)
      BY <2>1, <3>1 DEF DeltasWithinPayload, Size
    <3>. QED BY <1>4, <3>1, <3>2, <3>3
  <2>. QED BY <2>1, <2>2 DEF DeltasWithinPayload, Size
<1>. QED BY <1>13, <1>14, <1>15, <1>16, <1>17, <1>18 DEF KeepsInv

(* The row an insertion leaves fits the matrix. *)
LEMMA TornRowsArePayloads ==
    ASSUME IInv, entries # <<>>
    PROVE  TornRows(Last(entries)) \subseteq Payload(Last(entries).owner)
<1>. DEFINE e == Last(entries)
            r == e.owner
            c == handle[r]
<1>1. SUFFICES ASSUME NEW d \in TornRows(e) PROVE d \in Payload(r)
  OBVIOUS
<1>2. r \in GenericRoots /\ e.undo.kind = "row" /\ Accepts(e.undo, c)
  BY <1>1 DEF TornRows
<1>3. PICK row \in [1..Columns(c) -> Val] : d = InsertAt(c, e.undo.at, row)
  BY <1>1, <1>2 DEF TornRows
<1>4. r \in Roots /\ Payload(r) = Matrices
  BY <1>2, RootsAreDisjoint DEF Roots, MatrixRoots, Payload
<1>5. c \in Matrices
  BY <1>2, <1>4 DEF Accepts, IInv, TypeOK
<1>. HIDE DEF c
<1>6. row \in Seq(Val) /\ Len(row) = Columns(c)
  BY <1>3, <1>5, RowsOfMatrix
<1>7. e.undo.at \in 1..Len(c) + 1
  BY <1>2 DEF Accepts
<1>. QED BY <1>3, <1>4, <1>5, <1>6, <1>7, AddedRowIsUndone

(* An undo that throws can have changed the payload if it restores a preimage,
   whose root is latched, or if it is an add_row that tears. *)
LEMMA UndoThrowsKeepsInv ==
    ASSUME IInv, UndoThrows
    PROVE  /\ IInv'
           /\ RecordsLinked /\ ~AddRowMayTear => RecordsLinked'
<1> USE DEF IInv
<1>1. /\ UNCHANGED <<object, entries, found, generation, active, states, checkpoint, base>>
      /\ hook = "undo" /\ hook' = "none" /\ replaying' = FALSE /\ outcome' = "threw"
      /\ entries # <<>> /\ active
  BY DEF UndoThrows, history, HooksInStep
<1>. DEFINE r == Last(entries).owner
<1>2. r \in Roots
  BY <1>1, LastRecord
<1>3. \/ handle' = handle
      \/ \E c \in Payload(r) : /\ handle' = [handle EXCEPT ![r] = c]
                               /\ Last(entries).undo.kind = "preimage" \/ AddRowMayTear
  <2>1. TornRows(Last(entries)) \subseteq Payload(r)
    BY <1>1, TornRowsArePayloads
  <2>2. TornRows(Last(entries)) # {} => AddRowMayTear
    BY DEF TornRows
  <2>3. Payloads(r) \subseteq Payload(r)
    BY BoundedPayloads DEF Payloads, Payload
  <2>. QED BY <2>1, <2>2, <2>3 DEF UndoThrows, AfterFailedUndo
<1>. HIDE DEF r
<1>4. HooksInStep'
  BY <1>1 DEF HooksInStep
<1>5. CASE handle' = handle
  <2>1. TypeOK' /\ (RecordsLinked => RecordsLinked')
    BY <1>1, <1>5 DEF TypeOK, RecordsLinked, HeldNow, Held
  <2>. QED BY <1>1, <1>4, <2>1, SameRecords
<1>6. ASSUME NEW c \in Payload(r), handle' = [handle EXCEPT ![r] = c],
             Last(entries).undo.kind = "preimage" \/ AddRowMayTear
      PROVE  IInv' /\ (RecordsLinked /\ ~AddRowMayTear => RecordsLinked')
  <2>1. /\ \A q \in Roots : handle'[q] = IF q = r THEN c ELSE handle[q]
        /\ handle' = [q \in Roots |-> handle'[q]]
    BY <1>2, <1>6 DEF TypeOK
  <2>2. TypeOK'
    <3>1. \A q \in Roots : {handle'[q], base'[q]} \subseteq {Na} \cup Payload(q)
      BY <1>1, <2>1 DEF TypeOK
    <3>. QED BY <1>1, <2>1, <3>1 DEF TypeOK
  <2>3. ASSUME RecordsLinked, ~AddRowMayTear PROVE RecordsLinked'
    <3>1. Saved(r)
      <4>1. Len(entries) \in PreimagesIn(entries, r)
        BY <1>1, <1>6, <2>3, LastRecord DEF PreimagesIn, r
      <4>2. LatchIn(entries, r, states[r], generation)
        BY <1>1, <1>2, LatchByRoot
      <4>. QED BY <4>1, <4>2 DEF LatchIn, Saved
    <3>2. /\ HeldNow'[r] = [object |-> object[r], data |-> c]
          /\ \A q \in Roots : q # r => HeldNow'[q] = HeldNow[q]
      BY <1>1, <1>2, <2>1 DEF HeldNow, Held
    <3>3. Links(entries, found, HeldNow', base)
      BY <1>1, <1>2, <2>3, <3>1, <3>2, LatchedChangeKeepsLinks
    <3>. QED BY <1>1, <3>3 DEF RecordsLinked
  <2>. QED BY <1>1, <1>4, <2>2, <2>3, SameRecords
<1>. QED BY <1>3, <1>5, <1>6

(* The hooks that leave the members and their records alone. *)
LEMMA OtherHooksKeepInv ==
    ASSUME IInv, SnapshotThrows \/ RestoreBegin \/ UndoDone
    PROVE  KeepsInv
<1> USE DEF IInv
<1>1. UNCHANGED <<handle, object, entries, found, generation, active, states, checkpoint, base>>
  BY DEF SnapshotThrows, RestoreBegin, UndoDone, roots, journal, history
<1>2. HooksInStep' /\ replaying' \in BOOLEAN /\ hook' \in {"none", "undo"} /\ outcome' \in {"ok", "threw"}
  <2>1. CASE SnapshotThrows
    <3>1. replaying' = replaying /\ hook' = hook /\ outcome' = "threw"
      BY <2>1 DEF SnapshotThrows, journal
    <3>. QED BY <1>1, <3>1 DEF HooksInStep, TypeOK
  <2>2. CASE RestoreBegin
    <3>1. active /\ checkpoint.generation = generation
      BY <2>2 DEF RestoreBegin, HooksInStep
    <3>2. replaying' = TRUE /\ hook' = "undo" /\ outcome' = outcome
      BY <2>2, <3>1 DEF RestoreBegin
    <3>. QED BY <1>1, <3>1, <3>2 DEF HooksInStep, TypeOK
  <2>3. CASE UndoDone
    <3>1. replaying' = FALSE /\ hook' = "none" /\ outcome' \in {"ok", "threw"}
      BY <2>3 DEF UndoDone
    <3>. QED BY <1>1, <3>1 DEF HooksInStep
  <2>. QED BY <2>1, <2>2, <2>3
<1>3. TypeOK' /\ (RecordsLinked => RecordsLinked')
  BY <1>1, <1>2 DEF TypeOK, RecordsLinked, HeldNow, Held
<1>. QED BY <1>1, <1>2, <1>3, SameRecords DEF KeepsInv

(* Every step keeps the invariant, and every step but a torn undo the links. *)
LEMMA NextKeepsInv ==
    ASSUME IInv, [Next]_vars
    PROVE  /\ IInv'
           /\ RecordsLinked /\ (UndoThrows => ~AddRowMayTear) => RecordsLinked'
<1>1. CASE RunScript
  BY <1>1, ScriptKeepsInv DEF KeepsInv
<1>2. CASE Snapshot
  BY <1>2, SnapshotKeepsInv DEF KeepsInv
<1>3. CASE UndoLast
  BY <1>3, UndoLastKeepsInv DEF KeepsInv
<1>4. CASE UndoThrows
  BY <1>4, UndoThrowsKeepsInv
<1>5. CASE SnapshotThrows \/ RestoreBegin \/ UndoDone
  BY <1>5, OtherHooksKeepInv DEF KeepsInv
<1>6. CASE PrepareRun
  BY <1>6, PrepareRunKeepsInv DEF KeepsInv
<1>7. CASE UNCHANGED vars
  <2>1. TypeOK' /\ HooksInStep' /\ (RecordsLinked => RecordsLinked')
    BY <1>7 DEF vars, IInv, TypeOK, HooksInStep, RecordsLinked, HeldNow, Held
  <2>. QED BY <1>7, <2>1, SameRecords DEF vars, IInv
<1>. QED BY <1>1, <1>2, <1>3, <1>4, <1>5, <1>6, <1>7 DEF Next

(* The inductive invariant holds in every reachable state. *)
THEOREM InductiveInvariant == Spec => []IInv
<1>1. Init => IInv
  BY InitInv
<1>2. IInv /\ [Next]_vars => IInv'
  BY NextKeepsInv
<1>. QED BY <1>1, <1>2, PTL DEF Spec

(* Nothing but an undo that throws can leave a record that does not lead back. *)
THEOREM OnlyFailedUndosUnlink ==
    Spec => [][RecordsLinked /\ ~UndoThrows => RecordsLinked']_vars
<1>1. IInv /\ [Next]_vars => [RecordsLinked /\ ~UndoThrows => RecordsLinked']_vars
  BY NextKeepsInv
<1>. QED BY <1>1, InductiveInvariant, PTL DEF Spec

(* With an add_row that leaves the matrix alone when it throws, none does. *)
LEMMA LinksInvariant ==
    ASSUME ~AddRowMayTear
    PROVE  Spec => []RecordsLinked
<1>1. Init => RecordsLinked
  BY InitInv
<1>2. IInv /\ RecordsLinked /\ [Next]_vars => RecordsLinked'
  BY NextKeepsInv
<1>. QED BY <1>1, <1>2, InductiveInvariant, PTL DEF Spec

-------------------------------------------------------------------------------
(* The results.                                                              *)

(* Every variable of the journal and the hooks keeps its type. *)
THEOREM TypeCorrect == Spec => []TypeOK
<1>1. IInv => TypeOK
  BY DEF IInv
<1>. QED BY <1>1, InductiveInvariant, PTL

(* handle_states_ agrees with the records it summarises, across checkpoints,
   replays, failed replays and runs. *)
THEOREM LatchAlwaysMatches == Spec => []LatchMatchesRecords
<1>1. IInv => LatchMatchesRecords
  BY DEF IInv
<1>. QED BY <1>1, InductiveInvariant, PTL

(* The k-th delta of a root was recorded of a payload of at least k elements. *)
THEOREM DeltasAlwaysWithinPayload == Spec => []DeltasWithinPayload
<1>1. IInv => DeltasWithinPayload
  BY DEF IInv
<1>. QED BY <1>1, InductiveInvariant, PTL

(* A set of positions that is not empty has a first one. *)
LEMMA FirstPosition ==
    ASSUME NEW T, T \subseteq Nat, T # {}
    PROVE  LET first == CHOOSE j \in T : \A n \in T : j <= n
           IN  first \in T /\ \A n \in T : first <= n
<1>1. PICK x \in T : \A y \in T : ~(<<y, x>> \in OpToRel(<, Nat))
  BY WFMin, NatLessThanWellFounded
<1>2. \A a, b \in T : ~(<<b, a>> \in OpToRel(<, Nat)) => a <= b
  BY DEF OpToRel
<1>3. \A y \in T : x <= y
  BY <1>1, <1>2
<1>. QED BY <1>3

(* The records of a root lead back, one by one, to what it held at the
   checkpoint, although a latched root changes without leaving any.  An add_row
   that throws must leave the matrix alone. *)
THEOREM RecordsAlwaysLink ==
    ASSUME ~AddRowMayTear
    PROVE  Spec => []RecordsLinkPayloads
<1>1. IInv /\ RecordsLinked => RecordsLinkPayloads
  <2> SUFFICES ASSUME IInv, RecordsLinked PROVE RecordsLinkPayloads
    OBVIOUS
  <2> USE DEF IInv
  <2>1. DOMAIN entries = 1..Len(entries) /\ Len(entries) \in Nat
    BY DEF RecordsInShape, ASequence
  <2>2. \A r \in Roots : RecordsOf(r) \subseteq Nat /\ \A i \in RecordsOf(r) : i > 0
    BY <2>1 DEF RecordsOf
  <2>3. ASSUME NEW i \in DOMAIN entries PROVE Undone(entries[i], Later(i)) = found[i]
    <3>. DEFINE r == entries[i].owner
                next == {j \in RecordsOf(r) : j > i}
    <3>1. r \in Roots /\ HeldNow[r] = Held(r)
      BY DEF TypeOK, HeldNow
    <3>2. After(entries, found, HeldNow, r, i, Later(i))
      <4>1. CASE next = {}
        <5>1. \A j \in DOMAIN entries : j > i => entries[j].owner # r
          BY <4>1 DEF RecordsOf
        <5>2. Later(i) = Held(r)
          BY <4>1 DEF Later
        <5>. QED BY <3>1, <5>1, <5>2 DEF After
      <4>2. CASE next # {}
        <5>. DEFINE first == CHOOSE j \in next : \A n \in next : j <= n
        <5>1. first \in next /\ \A n \in next : first <= n
          <6>1. next \subseteq Nat
            BY <2>2, <3>1
          <6>. HIDE DEF next
          <6>. QED BY <4>2, <6>1, FirstPosition
        <5>2. Later(i) = found[first]
          BY <4>2 DEF Later
        <5>. HIDE DEF first
        <5>3. FirstAfter(entries, r, i, first) /\ first \in DOMAIN entries
          BY <5>1 DEF FirstAfter, RecordsOf
        <5>. QED BY <5>2, <5>3 DEF After
      <4>. QED BY <4>1, <4>2
    <3>3. Links(entries, found, HeldNow, base)
      BY <2>1 DEF HooksInStep, RecordsLinked
    <3>. QED BY <3>2, <3>3 DEF Links, Linked
  <2>4. ASSUME active, NEW r \in Roots PROVE Oldest(r).data = base[r]
    <3>1. HeldNow[r] = Held(r)
      BY DEF HeldNow
    <3>2. After(entries, found, HeldNow, r, 0, Oldest(r))
      <4>1. CASE RecordsOf(r) = {}
        BY <3>1, <4>1 DEF After, Oldest, RecordsOf
      <4>2. CASE RecordsOf(r) # {}
        <5>. DEFINE first == CHOOSE j \in RecordsOf(r) : \A n \in RecordsOf(r) : j <= n
        <5>1. first \in RecordsOf(r) /\ \A n \in RecordsOf(r) : first <= n
          BY <2>2, <4>2, FirstPosition
        <5>2. Oldest(r) = found[first]
          BY <4>2 DEF Oldest
        <5>. HIDE DEF first
        <5>3. FirstAfter(entries, r, 0, first) /\ first \in DOMAIN entries
          BY <2>2, <5>1 DEF FirstAfter, RecordsOf
        <5>. QED BY <5>2, <5>3 DEF After
      <4>. QED BY <4>1, <4>2
    <3>. QED BY <2>4, <3>2 DEF RecordsLinked, Links
  <2>. QED BY <2>3, <2>4 DEF RecordsLinkPayloads
<1>. QED BY <1>1, InductiveInvariant, LinksInvariant, PTL

(* The engine accepts the next undo: the positions and lengths a closure holds fit
   the matrix that it finds.  An add_row that throws must leave the matrix alone. *)
THEOREM UndosAlwaysAccepted ==
    ASSUME ~AddRowMayTear
    PROVE  Spec => []UndosAccepted
<1>1. IInv /\ RecordsLinked => UndosAccepted
  BY LastRecordUndone DEF UndosAccepted, IInv, HooksInStep
<1>. QED BY <1>1, InductiveInvariant, LinksInvariant, PTL

-------------------------------------------------------------------------------
(* The contract of the hooks.                                                *)

(* What the members hold is data to the contract. *)
LEMMA LiveChanged ==
    ASSUME TypeOK'
    PROVE  Contract!Changed
BY DEF Contract!Changed, Contract!Members, TypeOK

(* Script code writes no checkpoint. *)
LEMMA ScriptFrame ==
    ASSUME IInv, RunScript
    PROVE  hook = "none" /\ UNCHANGED <<checkpoint, base, hook, outcome>>
<1>1. ASSUME NEW r \in Roots, NEW c, Edit(r, c) PROVE UNCHANGED <<checkpoint, base, hook, outcome>>
  BY <1>1 DEF Edit, DeltaStep, SaveStep, Becomes, control
<1>2. ASSUME NEW r \in Roots, NEW c, Replace(r, c) PROVE UNCHANGED <<checkpoint, base, hook, outcome>>
  BY <1>2 DEF Replace, control
<1>. QED BY <1>1, <1>2, ScriptSteps DEF IInv

(* With no record left, every root holds what it held at the checkpoint. *)
LEMMA EmptyJournalIsBase ==
    ASSUME IInv, RecordsLinked, checkpoint.taken, entries = <<>>
    PROVE  handle = base
<1>1. Links(entries, found, HeldNow, base)
  BY DEF IInv, HooksInStep, RecordsLinked
<1>2. ASSUME NEW r \in Roots PROVE handle[r] = base[r]
  <2>1. After(entries, found, HeldNow, r, 0, HeldNow[r])
    BY DEF After
  <2>2. HeldNow[r].data = base[r]
    BY <1>1, <2>1 DEF Links
  <2>. QED BY <2>2 DEF HeldNow, Held
<1>3. handle = [r \in Roots |-> handle[r]] /\ base = [r \in Roots |-> base[r]]
  BY DEF IInv, TypeOK
<1>. QED BY <1>2, <1>3

(* The journal and the hooks keep the promise of RollbackContract for maps and
   matrices: a restore that returns is exact, and one that throws can be tried
   again.  An add_row that throws must leave the matrix alone. *)
THEOREM HooksImplementContract ==
    ASSUME ~AddRowMayTear
    PROVE  Spec => ImplementsContract
<1>1. Init => Contract!Init
  BY DEF Init, Contract!Init, NoCheckpoint, Contract!NoCheckpoint
<1>2. IInv /\ IInv' /\ RecordsLinked /\ [Next]_vars => [Contract!Next]_(Contract!vars)
  <2> SUFFICES ASSUME IInv, IInv', RecordsLinked, [Next]_vars
               PROVE  Contract!Next \/ UNCHANGED Contract!vars
    OBVIOUS
  <2>0. Contract!Changed /\ Contract!Members = Roots
    BY LiveChanged DEF IInv, Contract!Members
  <2>1. CASE RunScript
    <3>1. hook = "none" /\ UNCHANGED <<checkpoint, base, hook, outcome>>
      BY <2>1, ScriptFrame
    <3>2. Contract!Run
      BY <2>0, <3>1 DEF Contract!Run
    <3>. QED BY <3>2 DEF Contract!Next
  <2>2. CASE Snapshot
    <3>1. checkpoint'.taken
      BY <2>2 DEF Snapshot
    <3>2. base' = [m \in Roots |-> handle[m]]
      BY <2>2 DEF Snapshot, IInv, TypeOK
    <3>3. Contract!Take
      BY <2>2, <3>1, <3>2 DEF Snapshot, Contract!Take, Contract!Checkpoint
    <3>. QED BY <3>3 DEF Contract!Next
  <2>3. CASE SnapshotThrows
    <3>1. Contract!TakeThrows
      BY <2>3 DEF SnapshotThrows, Contract!TakeThrows, roots, history
    <3>. QED BY <3>1 DEF Contract!Next
  <2>4. CASE RestoreBegin
    <3>1. active /\ checkpoint.generation = generation
      BY <2>4 DEF RestoreBegin, IInv, HooksInStep
    <3>2. Contract!BeginRestore
      BY <2>4, <3>1 DEF RestoreBegin, Contract!BeginRestore, roots, history
    <3>. QED BY <3>2 DEF Contract!Next
  <2>5. CASE UndoLast
    <3>1. hook # "none" /\ UNCHANGED <<checkpoint, base, hook, outcome>>
      BY <2>5 DEF UndoLast, control
    <3>2. Contract!RestoreStep
      BY <2>0, <3>1 DEF Contract!RestoreStep, Contract!KeptUnchanged
    <3>. QED BY <3>2 DEF Contract!Next
  <2>6. CASE UndoThrows
    <3>1. hook # "none" /\ hook' = "none" /\ outcome' = "threw" /\ UNCHANGED <<checkpoint, base>>
      BY <2>6 DEF UndoThrows, history
    <3>2. Contract!RestoreThrows
      BY <2>0, <3>1 DEF Contract!RestoreThrows, Contract!KeptUnchanged
    <3>. QED BY <3>2 DEF Contract!Next
  <2>7. CASE UndoDone
    <3>1. /\ hook # "none" /\ hook' = "none" /\ outcome' \in {"ok", "threw"}
          /\ UNCHANGED <<handle, checkpoint, base>> /\ entries = <<>>
      BY <2>7 DEF UndoDone, roots, history
    <3>2. checkpoint.taken
      BY <2>7 DEF UndoDone, IInv, HooksInStep
    <3>3. handle = base /\ handle = [m \in Roots |-> handle[m]]
      BY <3>1, <3>2, EmptyJournalIsBase DEF IInv, TypeOK
    <3>4. CASE outcome' = "ok"
      <4>1. handle' = [m \in Roots |-> base[m]]
        BY <3>1, <3>3
      <4>2. Contract!EndRestore
        BY <2>0, <3>1, <3>2, <3>4, <4>1 DEF Contract!EndRestore
      <4>. QED BY <4>2 DEF Contract!Next
    <3>5. CASE outcome' = "threw"
      <4>1. Contract!RestoreThrows
        BY <2>0, <3>1, <3>5 DEF Contract!RestoreThrows, Contract!KeptUnchanged
      <4>. QED BY <4>1 DEF Contract!Next
    <3>. QED BY <3>1, <3>4, <3>5
  <2>8. CASE PrepareRun
    <3>1. ~checkpoint'.taken
      BY <2>8 DEF PrepareRun, NoCheckpoint
    <3>2. Contract!PrepareRun
      BY <2>8, <3>1 DEF PrepareRun, Contract!PrepareRun, NoCheckpoint, Contract!NoCheckpoint
    <3>. QED BY <3>2 DEF Contract!Next
  <2>9. CASE UNCHANGED vars
    BY <2>9 DEF vars, Contract!vars
  <2>. QED BY <2>1, <2>2, <2>3, <2>4, <2>5, <2>6, <2>7, <2>8, <2>9 DEF Next
<1>. QED BY <1>1, <1>2, InductiveInvariant, LinksInvariant, PTL
         DEF Spec, ImplementsContract, Contract!Spec
===============================================================================
