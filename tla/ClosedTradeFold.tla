--------------------------- MODULE ClosedTradeFold ---------------------------
(***************************************************************************)
(* The loop over all closed trades, as _emit_closed_trade_fold of          *)
(* codegen/visit_stmt.py rewrites it.  Rows that are final are folded once *)
(* into a saved prefix, and an execution folds the rest again.  The cursor *)
(* and the prefix are script state: a rollback brings them back, while the *)
(* engine's ledger goes on.                                                *)
(*                                                                         *)
(* The accumulators are sums of doubles, where the order of the rows shows *)
(* in the last bit.  Here an accumulator is the sequence of the rows that  *)
(* were added to it.                                                       *)
(***************************************************************************)
EXTENDS SequencesExt, Integers

CONSTANTS
    Value,      \* what the loop reads of a row
    MaxTime,    \* bounds of the model: exit times, rows of the ledger
    MaxRows

ASSUME TimesAreNat == MaxTime \in Nat

Row == [time: 1..MaxTime, value: Value]

VARIABLES
    trades,     \* trades_, the engine's ledger
    settled,    \* the stem's members: rows in the prefix
    seen,       \*   rows there were at the last execution
    prefix,     \*   the accumulators after the settled rows
    total,      \* the accumulators after the last execution
    checkpoint  \* the stem's members in the script's checkpoint

script == <<settled, seen, prefix, total>>
vars == <<trades, script, checkpoint>>

NoCheckpoint == [taken |-> FALSE]

Init ==
    /\ trades = <<>>
    /\ settled = 0 /\ seen = 0 /\ prefix = <<>> /\ total = <<>>
    /\ checkpoint = NoCheckpoint

-------------------------------------------------------------------------------
(* The engine.                                                               *)

LastTime == IF trades = <<>> THEN 1 ELSE trades[Len(trades)].time

(* A trade is closed, now or later than the last one. *)
CloseTrade ==
    /\ Len(trades) < MaxRows
    /\ \E t \in LastTime..MaxTime : \E v \in Value : trades' = Append(trades, [time |-> t, value |-> v])
    /\ UNCHANGED <<script, checkpoint>>

(* Where the run of rows that left at the same time as row n begins. *)
RunStart(s, n) ==
    IF n = 0 THEN 0
    ELSE CHOOSE k \in 0..n - 1 :
            /\ \A i \in k + 1..n : s[i].time = s[n].time
            /\ k > 0 => s[k].time # s[n].time

(* The orders of the exits of the newest rows are issued again. *)
Reorder ==
    /\ \E p \in [1..Len(trades) -> 1..Len(trades)] :
        /\ IsInjective(p)
        /\ \A i \in 1..RunStart(trades, Len(trades)) : p[i] = i
        /\ trades' = [i \in 1..Len(trades) |-> trades[p[i]]]
    /\ UNCHANGED <<script, checkpoint>>

-------------------------------------------------------------------------------
(* The script.                                                               *)

Step(accumulators, from, to) == accumulators \o SubSeq(trades, from + 1, to)

Final == IF Len(trades) < seen THEN Len(trades) ELSE seen

(* A bug: every row that was seen before is taken to be final. *)
LimitAtSeen == Final

Limit == RunStart(trades, Final)

StartsAgain == Len(trades) < seen \/ Limit < settled \/ settled = 0

Execute ==
    /\ Len(trades) > 0
    /\ LET from == IF StartsAgain THEN 0 ELSE settled
           saved == Step(IF StartsAgain THEN <<>> ELSE prefix, from, Limit)
           upto == IF Limit > from THEN Limit ELSE from
       IN /\ settled' = upto
          /\ prefix' = saved
          /\ total' = Step(saved, upto, Len(trades))
    /\ seen' = Len(trades)
    /\ UNCHANGED <<trades, checkpoint>>

(* A bug: the prefix is no member of the checkpoint. *)
RestoreCursor ==
    /\ checkpoint.taken
    /\ settled' = checkpoint.settled /\ seen' = checkpoint.seen
    /\ UNCHANGED <<trades, prefix, total, checkpoint>>

(* A bug: the number of rows seen is not put back but forgotten. *)
RestoreForgetsSeen ==
    /\ checkpoint.taken
    /\ settled' = checkpoint.settled /\ seen' = 0 /\ prefix' = checkpoint.prefix
    /\ total' = checkpoint.total
    /\ UNCHANGED <<trades, checkpoint>>

Snapshot ==
    /\ checkpoint' = [taken |-> TRUE, settled |-> settled, seen |-> seen, prefix |-> prefix, total |-> total]
    /\ UNCHANGED <<trades, script>>

Restore ==
    /\ checkpoint.taken
    /\ settled' = checkpoint.settled /\ seen' = checkpoint.seen /\ prefix' = checkpoint.prefix
    /\ total' = checkpoint.total
    /\ UNCHANGED <<trades, checkpoint>>

(* A bug: the members live through a new run. *)
PrepareRunKeepsPrefix ==
    /\ trades' = <<>>
    /\ total' = <<>>
    /\ checkpoint' = NoCheckpoint
    /\ UNCHANGED <<settled, seen, prefix>>

(* The engine clears its ledger and calls prepare_script_run. *)
PrepareRun ==
    /\ trades' = <<>>
    /\ settled' = 0 /\ seen' = 0 /\ prefix' = <<>> /\ total' = <<>>
    /\ checkpoint' = NoCheckpoint

Next == CloseTrade \/ Reorder \/ Execute \/ Snapshot \/ Restore \/ PrepareRun

Spec == Init /\ [][Next]_vars

-------------------------------------------------------------------------------
Cursor == [taken: {TRUE}, settled: Nat, seen: Nat, prefix: Seq(Row), total: Seq(Row)]

TypeOK ==
    /\ trades \in Seq(Row)
    /\ settled \in 0..Len(trades) /\ seen \in 0..Len(trades)
    /\ prefix \in Seq(Row) /\ total \in Seq(Row)
    /\ checkpoint \in Cursor \cup {NoCheckpoint}

(* The prefix is the fold of rows that can no longer change place, and so is
   the one that a rollback would bring back. *)
PrefixHolds(count, rows, known) ==
    /\ known <= Len(trades)
    /\ count <= RunStart(trades, known)
    /\ rows = SubSeq(trades, 1, count)

PrefixIsFinal ==
    /\ PrefixHolds(settled, prefix, seen)
    /\ checkpoint.taken => PrefixHolds(checkpoint.settled, checkpoint.prefix, checkpoint.seen)

(* Each execution ends with what the plain loop over all rows computes, whatever
   was closed, reordered and rolled back before it. *)
MatchesPlainLoop == [][Execute => total' = trades]_vars

(* "Settled closed trades are folded once" (CHANGELOG.md): no execution goes
   back behind the cursor it started with. *)
FoldsOnce == [][Execute => settled' >= settled]_vars
===============================================================================
