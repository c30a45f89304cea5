------------------------ MODULE ClosedTradeFold_proofs ------------------------
(***************************************************************************)
(* The folded loop computes what the plain loop does, for any ledger: rows *)
(* before the newest run of exit times never change again.                 *)
(***************************************************************************)
EXTENDS ClosedTradeFold, SequenceTheorems, WellFoundedInduction, TLAPS

(* The saved rows are final for a ledger s. *)
Holds(s, count, rows, known) ==
    /\ known \in 0..Len(s)
    /\ count \in 0..RunStart(s, known)
    /\ rows = SubSeq(s, 1, count)

Good(s) ==
    /\ s \in Seq(Row)
    /\ Holds(s, settled, prefix, seen)
    /\ checkpoint.taken \in BOOLEAN
    /\ checkpoint.taken => Holds(s, checkpoint.settled, checkpoint.prefix, checkpoint.seen)

IInv == TypeOK /\ Good(trades)

(* A set of naturals that is not empty has a least element. *)
LEMMA LeastNat == ASSUME NEW T \in SUBSET Nat, T # {} PROVE \E x \in T : \A y \in T : x <= y
<1>1. \E x \in T : \A y \in T : ~ (<<y, x>> \in OpToRel(<, Nat))
  BY WFMin, NatLessThanWellFounded
<1>2. \A x, y \in T : ~(<<y, x>> \in OpToRel(<, Nat)) => x <= y
  BY DEF OpToRel
<1>. QED BY <1>1, <1>2

(* The run of the n-th row: it exists, and it is the only stretch of rows that
   answers its description. *)
LEMMA RunStartIs ==
    ASSUME NEW s \in Seq(Row), NEW n \in 1..Len(s)
    PROVE  /\ RunStart(s, n) \in 0..n - 1
           /\ \A i \in RunStart(s, n) + 1..n : s[i].time = s[n].time
           /\ RunStart(s, n) > 0 => s[RunStart(s, n)].time # s[n].time
<1>. DEFINE Same(k) == \A i \in k + 1..n : s[i].time = s[n].time
            Later == {k \in 0..n - 1 : s[k].time # s[n].time /\ k > 0}
<1>1. n \in Nat /\ n > 0
  BY LenProperties
<1>2. \E k \in 0..n - 1 : Same(k) /\ (k > 0 => s[k].time # s[n].time)
  <2>1. CASE Later = {}
    <3>1. Same(0)
      BY <1>1, <2>1
    <3>. QED BY <1>1, <3>1
  <2>2. CASE Later # {}
    <3>1. PICK k \in Later : \A j \in Later : j <= k
      <4>1. \A j \in Later : j \in Nat /\ j <= n - 1
        BY <1>1
      <4>. HIDE DEF Later
      <4>. DEFINE Above == {m \in Nat : \E j \in Later : m = n - 1 - j}
      <4>2. Above # {}
        <5>1. PICK j \in Later : TRUE
          BY <2>2 DEF Later
        <5>2. n - 1 - j \in Above
          BY <1>1, <4>1, <5>1
        <5>. QED BY <5>2
      <4>3. PICK m \in Above : \A x \in Above : m <= x
        BY <4>2, LeastNat
      <4>4. PICK j \in Later : m = n - 1 - j
        BY <4>3
      <4>5. ASSUME NEW i \in Later PROVE i <= j
        <5>1. n - 1 - i \in Above
          BY <1>1, <4>1
        <5>. QED BY <1>1, <4>1, <4>3, <4>4, <5>1
      <4>. QED BY <4>5
    <3>2. Same(k)
      BY <1>1, <3>1
    <3>. QED BY <3>1, <3>2
  <2>. QED BY <2>1, <2>2
<1>. QED BY <1>1, <1>2 DEF RunStart

LEMMA RunStartType == ASSUME NEW s \in Seq(Row), NEW n \in 0..Len(s) PROVE RunStart(s, n) \in 0..n
<1>1. CASE n = 0
  BY <1>1 DEF RunStart
<1>2. CASE n # 0
  BY <1>2, RunStartIs
<1>. QED BY <1>1, <1>2

(* Later rows can only move the beginning of the newest run on. *)
LEMMA RunStartMonotone ==
    ASSUME NEW s \in Seq(Row), NEW n \in 0..Len(s), NEW k \in 0..n
    PROVE  RunStart(s, k) <= RunStart(s, n)
<1>1. Len(s) \in Nat
  BY LenProperties
<1>2. CASE k = 0
  <2>1. RunStart(s, k) = 0
    BY <1>2 DEF RunStart
  <2>2. RunStart(s, n) \in 0..n
    BY RunStartType
  <2>. QED BY <1>1, <2>1, <2>2
<1>3. CASE k # 0
  <2>. DEFINE r == RunStart(s, n)  q == RunStart(s, k)
  <2>1. n \in 1..Len(s) /\ k \in 1..Len(s)
    BY <1>1, <1>3
  <2>2. r \in 0..n - 1 /\ \A i \in r + 1..n : s[i].time = s[n].time
    BY <2>1, RunStartIs
  <2>3. q \in 0..k - 1 /\ (q > 0 => s[q].time # s[k].time)
    BY <2>1, RunStartIs
  <2>4. ASSUME q > r PROVE FALSE
    <3>. HIDE DEF q, r
    <3>1. q \in r + 1..n /\ k \in r + 1..n /\ q > 0
      BY <1>1, <2>1, <2>2, <2>3, <2>4
    <3>. QED BY <2>2, <2>3, <3>1
  <2>. HIDE DEF q, r
  <2>5. q <= r
    BY <1>1, <2>1, <2>2, <2>3, <2>4
  <2>. QED BY <2>5 DEF q, r
<1>. QED BY <1>2, <1>3

(* It depends on the exit times of the rows alone. *)
LEMMA RunStartOfTimes ==
    ASSUME NEW s \in Seq(Row), NEW t \in Seq(Row), NEW n \in 0..Len(s), Len(s) <= Len(t),
           \A i \in 1..n : t[i].time = s[i].time
    PROVE  RunStart(t, n) = RunStart(s, n)
<1>1. Len(s) \in Nat /\ Len(t) \in Nat
  BY LenProperties
<1>2. CASE n = 0
  BY <1>2 DEF RunStart
<1>3. CASE n # 0
  <2>. DEFINE a == RunStart(s, n)  b == RunStart(t, n)
  <2>1. n \in 1..Len(s) /\ n \in 1..Len(t)
    BY <1>1, <1>3
  <2>2. /\ a \in 0..n - 1 /\ (\A i \in a + 1..n : s[i].time = s[n].time)
        /\ a > 0 => s[a].time # s[n].time
    BY <2>1, RunStartIs
  <2>3. /\ b \in 0..n - 1 /\ (\A i \in b + 1..n : t[i].time = t[n].time)
        /\ b > 0 => t[b].time # t[n].time
    BY <2>1, RunStartIs
  <2>. HIDE DEF a, b
  <2>4. ASSUME a < b PROVE FALSE
    <3>1. b \in a + 1..n /\ b > 0 /\ b \in 1..n /\ n \in 1..n
      BY <1>1, <2>1, <2>2, <2>3, <2>4
    <3>. QED BY <2>2, <2>3, <3>1
  <2>5. ASSUME b < a PROVE FALSE
    <3>1. a \in b + 1..n /\ a > 0 /\ a \in 1..n /\ n \in 1..n
      BY <1>1, <2>1, <2>2, <2>3, <2>5
    <3>. QED BY <2>2, <2>3, <3>1
  <2>6. a = b
    BY <1>1, <2>1, <2>2, <2>3, <2>4, <2>5
  <2>. QED BY <2>6 DEF a, b
<1>. QED BY <1>2, <1>3

(* What was folded stays folded when only the newest run moves and rows are
   added after it. *)
LEMMA HoldsOn ==
    ASSUME NEW s \in Seq(Row), NEW t \in Seq(Row), Len(s) <= Len(t),
           \A i \in 1..Len(s) : t[i].time = s[i].time,
           \A i \in 1..RunStart(s, Len(s)) : t[i] = s[i],
           NEW count, NEW rows, NEW known, Holds(s, count, rows, known)
    PROVE  Holds(t, count, rows, known)
<1>1. Len(s) \in Nat /\ Len(t) \in Nat /\ known \in 0..Len(s)
  BY LenProperties DEF Holds
<1>2. RunStart(t, known) = RunStart(s, known)
  BY <1>1, RunStartOfTimes
<1>3. RunStart(s, known) \in 0..known /\ RunStart(s, known) <= RunStart(s, Len(s))
  BY <1>1, RunStartType, RunStartMonotone
<1>4. RunStart(s, Len(s)) \in 0..Len(s)
  BY <1>1, RunStartType
<1>5. count \in 0..RunStart(s, known) /\ rows = SubSeq(s, 1, count)
  BY DEF Holds
<1>6. SubSeq(t, 1, count) = SubSeq(s, 1, count)
  <2>1. count \in Nat /\ count <= Len(s) /\ count <= Len(t) /\ count <= RunStart(s, Len(s))
    BY <1>1, <1>3, <1>4, <1>5
  <2>2. SubSeq(s, 1, count) = [i \in 1..count |-> s[i]]
    BY <2>1
  <2>3. SubSeq(t, 1, count) = [i \in 1..count |-> t[i]]
    BY <2>1
  <2>4. \A i \in 1..count : t[i] = s[i]
    BY <1>4, <2>1
  <2>. QED BY <2>2, <2>3, <2>4
<1>7. known \in 0..Len(t)
  BY <1>1
<1>. QED BY <1>2, <1>5, <1>6, <1>7 DEF Holds

-------------------------------------------------------------------------------
LEMMA InitGood == Init => IInv
<1> SUFFICES ASSUME Init PROVE IInv
  OBVIOUS
<1>1. <<>> \in Seq(Row) /\ Len(<<>>) = 0 /\ SubSeq(<<>>, 1, 0) = <<>>
  BY SubSeqEmpty
<1>2. RunStart(<<>>, 0) = 0
  BY DEF RunStart
<1>. QED BY <1>1, <1>2 DEF Init, IInv, TypeOK, Good, Holds, NoCheckpoint

(* The ledger may grow, and its newest run may move. *)
LEMMA LedgerGood ==
    ASSUME IInv, UNCHANGED <<script, checkpoint>>, trades' \in Seq(Row), Len(trades) <= Len(trades'),
           \A i \in 1..Len(trades) : trades'[i].time = trades[i].time,
           \A i \in 1..RunStart(trades, Len(trades)) : trades'[i] = trades[i]
    PROVE  IInv'
<1>1. /\ settled' = settled /\ seen' = seen /\ prefix' = prefix /\ total' = total
      /\ checkpoint' = checkpoint
  BY DEF script
<1>2. Holds(trades, settled, prefix, seen)
  BY DEF IInv, Good
<1>3. Holds(trades', settled, prefix, seen)
  BY <1>2, HoldsOn DEF IInv, TypeOK
<1>4. checkpoint.taken => Holds(trades', checkpoint.settled, checkpoint.prefix, checkpoint.seen)
  BY HoldsOn DEF IInv, TypeOK, Good
<1>5. Len(trades) \in Nat /\ Len(trades') \in Nat
  BY LenProperties DEF IInv, TypeOK
<1>6. TypeOK'
  BY <1>1, <1>5 DEF IInv, TypeOK
<1>. QED BY <1>1, <1>3, <1>4, <1>6 DEF IInv, Good

LEMMA CloseTradeGood == IInv /\ CloseTrade => IInv'
<1> SUFFICES ASSUME IInv, CloseTrade PROVE IInv'
  OBVIOUS
<1>1. trades \in Seq(Row)
  BY DEF IInv, TypeOK
<1>2. PICK t \in LastTime..MaxTime, v \in Value : trades' = Append(trades, [time |-> t, value |-> v])
  BY DEF CloseTrade
<1>3. LastTime \in 1..MaxTime \/ LastTime = 1
  <2>1. CASE trades = <<>>
    BY <2>1 DEF LastTime
  <2>2. CASE trades # <<>>
    <3>1. Len(trades) \in Nat /\ Len(trades) > 0
      BY <1>1, <2>2, EmptySeq, LenProperties
    <3>2. trades[Len(trades)] \in Row
      BY <1>1, <3>1, ElementOfSeq
    <3>. QED BY <2>2, <3>2 DEF LastTime, Row
  <2>. QED BY <2>1, <2>2
<1>4. [time |-> t, value |-> v] \in Row
  BY <1>3, TimesAreNat DEF Row
<1>5. trades' \in Seq(Row) /\ Len(trades') = Len(trades) + 1 /\ \A i \in 1..Len(trades) : trades'[i] = trades[i]
  BY <1>1, <1>2, <1>4, AppendProperties
<1>6. Len(trades) \in Nat
  BY <1>1, LenProperties
<1>7. RunStart(trades, Len(trades)) \in 0..Len(trades)
  BY <1>1, <1>6, RunStartType
<1>8. UNCHANGED <<script, checkpoint>>
  BY DEF CloseTrade
<1>. QED BY <1>5, <1>6, <1>7, <1>8, LedgerGood

LEMMA ReorderGood == IInv /\ Reorder => IInv'
<1> SUFFICES ASSUME IInv, Reorder PROVE IInv'
  OBVIOUS
<1>. DEFINE n == Len(trades)  r == RunStart(trades, n)
<1>1. trades \in Seq(Row) /\ n \in Nat /\ r \in 0..n
  BY LenProperties, RunStartType DEF IInv, TypeOK
<1>2. PICK p \in [1..n -> 1..n] :
        /\ IsInjective(p)
        /\ \A i \in 1..r : p[i] = i
        /\ trades' = [i \in 1..n |-> trades[p[i]]]
  BY DEF Reorder
<1>3. \A i \in 1..n : trades[p[i]] \in Row
  BY <1>1, <1>2, ElementOfSeq
<1>4. trades' \in Seq(Row) /\ Len(trades') = n
  BY <1>1, <1>2, <1>3, IsASeq
<1>5. \A i \in 1..r : trades'[i] = trades[i]
  BY <1>1, <1>2
<1>6. ASSUME NEW i \in 1..n PROVE trades'[i].time = trades[i].time
  <2>1. CASE i \in 1..r
    BY <1>5, <2>1
  <2>2. CASE i \notin 1..r
    <3>1. p[i] \notin 1..r
      <4>1. p[i] \in 1..r => p[p[i]] = p[i]
        BY <1>2
      <4>. QED BY <1>2, <2>2, <4>1 DEF IsInjective
    <3>2. n \in 1..Len(trades)
      BY <1>1
    <3>4. \A j \in r + 1..n : trades[j].time = trades[n].time
      BY <1>1, <3>2, RunStartIs
    <3>3. i \in r + 1..n /\ p[i] \in r + 1..n
      BY <1>1, <1>2, <2>2, <3>1
    <3>. QED BY <1>2, <3>3, <3>4
  <2>. QED BY <2>1, <2>2
<1>7. UNCHANGED <<script, checkpoint>>
  BY DEF Reorder
<1>. QED BY <1>1, <1>4, <1>5, <1>6, <1>7, LedgerGood

(* What an execution does, once the reasons to start again are seen to be one. *)
LEMMA Executed ==
    ASSUME IInv, Execute
    PROVE  /\ Limit \in 0..Len(trades) /\ Limit <= RunStart(trades, Len(trades))
           /\ Limit >= settled /\ settled' = Limit
           /\ prefix' = SubSeq(trades, 1, Limit)
           /\ total' = trades
<1>1. trades \in Seq(Row) /\ Len(trades) \in Nat
  BY LenProperties DEF IInv, TypeOK
<1>2. /\ seen \in 0..Len(trades) /\ settled \in 0..RunStart(trades, seen)
      /\ prefix = SubSeq(trades, 1, settled)
  BY DEF IInv, Good, Holds
<1>3. Final = seen /\ Limit = RunStart(trades, seen)
  BY <1>1, <1>2 DEF Final, Limit
<1>4. Limit \in 0..seen /\ Limit <= RunStart(trades, Len(trades)) /\ settled <= Limit
  BY <1>1, <1>2, <1>3, RunStartType, RunStartMonotone
<1>5. StartsAgain <=> settled = 0
  BY <1>1, <1>2, <1>4 DEF StartsAgain
<1>6. SubSeq(trades, 1, 0) = <<>>
  BY SubSeqEmpty
<1>. DEFINE from == IF StartsAgain THEN 0 ELSE settled
            saved == Step(IF StartsAgain THEN <<>> ELSE prefix, from, Limit)
            upto == IF Limit > from THEN Limit ELSE from
<1>7. settled' = upto /\ prefix' = saved /\ total' = Step(saved, upto, Len(trades))
  BY DEF Execute
<1>8. from = settled /\ (IF StartsAgain THEN <<>> ELSE prefix) = SubSeq(trades, 1, settled)
  BY <1>2, <1>5, <1>6
<1>9. saved = SubSeq(trades, 1, Limit)
  <2>1. SubSeq(trades, 1, settled) \o SubSeq(trades, settled + 1, Limit) = SubSeq(trades, 1, Limit)
    BY <1>1, <1>2, <1>4, ConcatAdjacentSubSeq
  <2>. QED BY <1>8, <2>1 DEF Step
<1>10. upto = Limit
  BY <1>2, <1>4, <1>8
<1>11. SubSeq(trades, 1, Limit) \o SubSeq(trades, Limit + 1, Len(trades)) = trades
  <2>1. Limit \in 1 - 1..Len(trades) /\ Len(trades) \in Limit..Len(trades) /\ 1 \in 1..Len(trades) + 1
    BY <1>1, <1>2, <1>4
  <2>2. SubSeq(trades, 1, Limit) \o SubSeq(trades, Limit + 1, Len(trades)) = SubSeq(trades, 1, Len(trades))
    BY <1>1, <2>1, ConcatAdjacentSubSeq
  <2>. QED BY <1>1, <2>2, SubSeqFull
<1>12. total' = trades
  <2>. HIDE DEF saved, upto
  <2>. QED BY <1>7, <1>9, <1>10, <1>11 DEF Step
<1>. QED BY <1>1, <1>2, <1>4, <1>7, <1>9, <1>10, <1>12

LEMMA ExecuteGood == IInv /\ Execute => IInv'
<1> SUFFICES ASSUME IInv, Execute PROVE IInv'
  OBVIOUS
<1>1. trades' = trades /\ checkpoint' = checkpoint /\ seen' = Len(trades)
  BY DEF Execute
<1>2. trades \in Seq(Row) /\ Len(trades) \in Nat
  BY LenProperties DEF IInv, TypeOK
<1>3. /\ Limit \in 0..Len(trades) /\ Limit <= RunStart(trades, Len(trades))
      /\ settled' = Limit /\ prefix' = SubSeq(trades, 1, Limit) /\ total' = trades
  BY Executed
<1>4. RunStart(trades, Len(trades)) \in 0..Len(trades)
  BY <1>2, RunStartType
<1>5. Holds(trades, settled', prefix', seen')
  BY <1>1, <1>2, <1>3, <1>4 DEF Holds
<1>6. prefix' \in Seq(Row)
  BY <1>2, <1>3, SubSeqProperties
<1>7. TypeOK'
  BY <1>1, <1>2, <1>3, <1>6 DEF IInv, TypeOK
<1>. QED BY <1>1, <1>5, <1>7 DEF IInv, Good

LEMMA HooksGood == IInv /\ (Snapshot \/ Restore \/ PrepareRun) => IInv'
<1>1. ASSUME IInv, Snapshot PROVE IInv'
  BY <1>1 DEF Snapshot, script, IInv, TypeOK, Good, Cursor, Holds
<1>2. ASSUME IInv, Restore PROVE IInv'
  <2>1. checkpoint \in Cursor
    BY <1>2 DEF Restore, IInv, TypeOK, NoCheckpoint
  <2>2. Len(trades) \in Nat /\ trades \in Seq(Row)
    BY <1>2, LenProperties DEF IInv, TypeOK
  <2>3. Holds(trades, checkpoint.settled, checkpoint.prefix, checkpoint.seen)
    BY <1>2 DEF IInv, Good, Restore
  <2>4. checkpoint.seen \in 0..Len(trades) /\ RunStart(trades, checkpoint.seen) \in 0..checkpoint.seen
    BY <2>2, <2>3, RunStartType DEF Holds
  <2>5. checkpoint.settled \in 0..Len(trades)
    BY <2>2, <2>3, <2>4 DEF Holds
  <2>6. TypeOK'
    BY <1>2, <2>1, <2>4, <2>5 DEF Restore, IInv, TypeOK, Cursor
  <2>. QED BY <1>2, <2>3, <2>6 DEF Restore, IInv, Good
<1>3. ASSUME IInv, PrepareRun PROVE IInv'
  <2>1. <<>> \in Seq(Row) /\ Len(<<>>) = 0 /\ SubSeq(<<>>, 1, 0) = <<>>
    BY SubSeqEmpty
  <2>2. RunStart(<<>>, 0) = 0
    BY DEF RunStart
  <2>. QED BY <1>3, <2>1, <2>2 DEF PrepareRun, IInv, TypeOK, Good, Holds, NoCheckpoint
<1>. QED BY <1>1, <1>2, <1>3

LEMMA Inductive == IInv /\ [Next]_vars => IInv'
<1>1. ASSUME IInv, UNCHANGED vars PROVE IInv'
  BY <1>1 DEF vars, script, IInv, TypeOK, Good
<1>. QED BY <1>1, CloseTradeGood, ReorderGood, ExecuteGood, HooksGood DEF Next

LEMMA InvariantHolds == Spec => []IInv
BY InitGood, Inductive, PTL DEF Spec

-------------------------------------------------------------------------------
(* The cursor stays within the ledger. *)
THEOREM TypeCorrect == Spec => []TypeOK
<1>1. IInv => TypeOK
  BY DEF IInv
<1>. QED BY <1>1, InvariantHolds, PTL

(* The saved prefix, and the one in the checkpoint, hold only rows whose order
   is final. *)
THEOREM PrefixAlwaysFinal == Spec => []PrefixIsFinal
<1>1. IInv => PrefixIsFinal
  <2> SUFFICES ASSUME IInv PROVE PrefixIsFinal
    OBVIOUS
  <2>1. Len(trades) \in Nat
    BY LenProperties DEF IInv, TypeOK
  <2>2. \A n \in 0..Len(trades) : RunStart(trades, n) \in 0..n
    BY RunStartType DEF IInv, TypeOK
  <2>. QED BY <2>1, <2>2 DEF IInv, Good, Holds, PrefixIsFinal, PrefixHolds
<1>. QED BY <1>1, InvariantHolds, PTL

(* However trades close and change order and however often the script is rolled
   back, the fold ends with the sums of the plain loop. *)
THEOREM AlwaysMatchesPlainLoop == Spec => MatchesPlainLoop
<1>1. IInv /\ [Next]_vars => [Execute => total' = trades]_vars
  BY Executed
<1>. QED BY <1>1, InvariantHolds, PTL DEF Spec, MatchesPlainLoop

(* The cursor only goes back with a rollback or a new run. *)
THEOREM AlwaysFoldsOnce == Spec => FoldsOnce
<1>1. IInv /\ [Next]_vars => [Execute => settled' >= settled]_vars
  BY Executed
<1>. QED BY <1>1, InvariantHolds, PTL DEF Spec, FoldsOnce
===============================================================================
