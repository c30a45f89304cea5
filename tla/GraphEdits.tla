------------------------------ MODULE GraphEdits ------------------------------
(***************************************************************************)
(* The payload of a journaled map or matrix, and the inverse edits that    *)
(* the undo records of the generated _PFGraphJournal hold                  *)
(* (codegen/graph_journal.py).  PineMap keeps its pairs in insertion order *)
(* and an overwritten key keeps its place; a matrix is its rows.           *)
(* Positions are 1-based here and 0-based in the C++.                      *)
(***************************************************************************)
EXTENDS Integers, SequencesExt

CONSTANTS
    Keys,       \* the keys a map can hold
    Val,        \* the values of a map and the cells of a matrix
    Na,         \* the na handle: no payload
    MaxSize     \* bound of the model: pairs, rows and columns

Pair == [key : Keys, value : Val]
DistinctKeys(m) == \A i, j \in DOMAIN m : m[i].key = m[j].key => i = j
Rectangular(c) == \A i, j \in DOMAIN c : Len(c[i]) = Len(c[j])

Maps == {m \in Seq(Pair) : DistinctKeys(m)}
Matrices == {c \in Seq(Seq(Val)) : Rectangular(c)}

BoundedMaps == {m \in BoundedSeq(Pair, MaxSize) : DistinctKeys(m)}
BoundedMatrices ==
    {c \in BoundedSeq(BoundedSeq(Val, MaxSize), MaxSize) : Rectangular(c)}

ASSUME NaIsNoPayload == Na \notin Maps \cup Matrices
ASSUME MaxSizeIsNat == MaxSize \in Nat

(* A fresh matrix: every cell holds the initial value. *)
Constant(c) == \A i, j \in DOMAIN c : c[i] = c[j] /\ \A m, n \in DOMAIN c[i] : c[i][m] = c[i][n]

(* pineforge::PineMap. *)
HasKey(m, k) == \E i \in DOMAIN m : m[i].key = k
Position(m, k) == CHOOSE i \in DOMAIN m : m[i].key = k
PutIn(m, k, v) ==
    IF HasKey(m, k) THEN [m EXCEPT ![Position(m, k)] = [key |-> k, value |-> v]]
    ELSE Append(m, [key |-> k, value |-> v])
RemovePair(m, k) == IF HasKey(m, k) THEN RemoveAt(m, Position(m, k)) ELSE m

(* pineforge::PineMatrix and its generic counterpart. *)
Columns(c) == IF c = <<>> THEN 0 ELSE Len(c[1])
SetCell(c, i, j, v) == [c EXCEPT ![i] = [@ EXCEPT ![j] = v]]
Swapped(s, i, j) == [s EXCEPT ![i] = s[j], ![j] = s[i]]
SwapColumns(c, i, j) == [n \in DOMAIN c |-> Swapped(c[n], i, j)]
AddColumn(c, i, col) == [n \in DOMAIN c |-> InsertAt(c[n], i, col[n])]
RemoveColumn(c, i) == [n \in DOMAIN c |-> RemoveAt(c[n], i)]
Column(c, i) == [n \in DOMAIN c |-> c[n][i]]

(***************************************************************************)
(* The closures an undo record can hold, by the method that built them.    *)
(***************************************************************************)
PairBack(m, k)   == [kind |-> "pair", key |-> k,
                     old |-> IF HasKey(m, k) THEN <<m[Position(m, k)].value>> ELSE <<>>]
CellBack(c, i, j) == [kind |-> "cell", row |-> i, col |-> j, old |-> c[i][j]]
DropRow(i)       == [kind |-> "drop row", at |-> i]
DropColumn(i)    == [kind |-> "drop column", at |-> i]
RowBack(c, i)    == [kind |-> "row", at |-> i, old |-> c[i]]
ColumnBack(c, i) == [kind |-> "column", at |-> i, old |-> Column(c, i)]
RowsBack(i, j)   == [kind |-> "swap rows", at |-> i, with |-> j]
ColumnsBack(i, j) == [kind |-> "swap columns", at |-> i, with |-> j]
Preimage(c)      == [kind |-> "preimage", old |-> c]
Rebind(c)        == [kind |-> "rebind", old |-> c]

(* Whether the record counts against the delta budget of its root. *)
IsDelta(u) == u.kind \notin {"preimage", "rebind"}

(* What running the closure u makes of the payload c. *)
Apply(u, c) ==
    IF ~IsDelta(u) THEN u.old
    ELSE IF u.kind = "pair" THEN
        IF u.old = <<>> THEN RemovePair(c, u.key) ELSE PutIn(c, u.key, u.old[1])
    ELSE IF u.kind = "cell" THEN SetCell(c, u.row, u.col, u.old)
    ELSE IF u.kind = "drop row" THEN RemoveAt(c, u.at)
    ELSE IF u.kind = "drop column" THEN RemoveColumn(c, u.at)
    ELSE IF u.kind = "row" THEN InsertAt(c, u.at, u.old)
    ELSE IF u.kind = "column" THEN AddColumn(c, u.at, u.old)
    ELSE IF u.kind = "swap rows" THEN Swapped(c, u.at, u.with)
    ELSE SwapColumns(c, u.at, u.with)

(* The checks of the engine's methods, which throw before they change anything:
   whether the delta u can run on the payload c.  PineMap's take any key. *)
Accepts(u, c) ==
    /\ c # Na
    /\ u.kind = "cell" => u.row \in DOMAIN c /\ u.col \in 1..Columns(c)
    /\ u.kind = "drop row" => u.at \in DOMAIN c
    /\ u.kind = "drop column" => u.at \in 1..Columns(c)
    /\ u.kind = "row" => u.at \in 1..Len(c) + 1 /\ (c # <<>> => Len(u.old) = Columns(c))
    /\ u.kind = "column" => u.at \in 1..Columns(c) + 1 /\ Len(u.old) = Len(c)
    /\ u.kind = "swap rows" => {u.at, u.with} \subseteq DOMAIN c
    /\ u.kind = "swap columns" => {u.at, u.with} \subseteq 1..Columns(c)
===============================================================================
