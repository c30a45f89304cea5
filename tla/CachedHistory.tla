----------------------------- MODULE CachedHistory -----------------------------
(***************************************************************************)
(* The history of the arrays HistorySharingPlan admits: the generated      *)
(* _PFCachedCollectionHistory closes a slot with the copy it made before   *)
(* whenever a content token says that the array has not been written since.*)
(* All histories of a strategy draw their tokens from one clock,           *)
(* _PFHistoryVersionClock, which a rollback does not rewind although it    *)
(* does bring back each history's tokens and cached copy.                  *)
(*                                                                         *)
(* cached_owner_ is left out: a history is only ever closed with the one   *)
(* member it belongs to, whose address does not change.                    *)
(***************************************************************************)
EXTENDS Naturals, Sequences

CONSTANTS
    Arrays,     \* the arrays the plan admits
    Contents,   \* what an array can hold
    Empty,      \* the contents of a reset array
    Unset,      \* the null pointer: an open slot, or no cached copy
    Capacity,   \* max_len
    MaxToken    \* std::numeric_limits<uint64_t>::max()

ASSUME EmptyIsContents == Empty \in Contents
ASSUME UnsetIsNotContents == Unset \notin Contents
ASSUME CapacityIsPositive == Capacity \in Nat \ {0}
ASSUME TokensExist == MaxToken \in Nat \ {0}

VARIABLES
    value,      \* the live arrays
    hist,       \* the live histories
    next,       \* next_ of the clock
    run,        \* run_ of the clock
    saved,      \* the checkpoint: arrays and histories, without the clock
    torn        \* a restore threw and has not been retried

clock == <<next, run>>
vars == <<value, hist, next, run, saved, torn>>

NoCheckpoint == [taken |-> FALSE]
NewHistory == [slots |-> <<>>, open |-> FALSE, content |-> 0,
               cached |-> Unset, cachedRun |-> 0, cachedContent |-> 0]

Init ==
    /\ value = [a \in Arrays |-> Empty]
    /\ hist = [a \in Arrays |-> NewHistory]
    /\ next = 1
    /\ run = 1
    /\ saved = NoCheckpoint
    /\ torn = FALSE

(* A bug: the clock runs on after its last token. *)
TickPastTheEnd == next' = next + 1

(* allocate(): zero, for ever, once the tokens are used up. *)
Token == IF next = MaxToken THEN 0 ELSE next + 1
Tick == next' = IF next = MaxToken THEN next ELSE next + 1

(* A bug: the tokens are not compared. *)
ReusableWithinRun(h) ==
    /\ next # MaxToken
    /\ h.content # 0
    /\ run # 0
    /\ h.cachedRun = run

(* The condition under which close() reuses the cached copy. *)
Reusable(h) ==
    /\ next # MaxToken
    /\ h.content # 0
    /\ run # 0
    /\ h.cachedRun = run
    /\ h.cachedContent = h.content

(* The history once its cached copy is one of the contents c. *)
Refreshed(h, c) ==
    IF Reusable(h) THEN h
    ELSE [h EXCEPT !.cached = c, !.cachedRun = run, !.cachedContent = h.content]

(* Series::push and Series::update. *)
PushSlot(s, x) == SubSeq(<<x>> \o s, 1, IF Len(s) < Capacity THEN Len(s) + 1 ELSE Capacity)
UpdateSlot(s, x) == <<x>> \o Tail(s)

Closed(h, c) ==
    IF h.open
    THEN [Refreshed(h, c) EXCEPT !.slots = UpdateSlot(@, Refreshed(h, c).cached),
                                 !.open = FALSE]
    ELSE h

Opened(h, new) ==
    [h EXCEPT !.slots = IF new \/ @ = <<>> THEN PushSlot(@, Unset) ELSE UpdateSlot(@, Unset),
              !.open = TRUE]

-------------------------------------------------------------------------------
(* Any method of Writer: dirty() comes first, so the step is the same whether
   the write then completes or throws part-way. *)
Mutate(a, c) ==
    /\ ~torn
    /\ hist' = [hist EXCEPT ![a].content = Token]
    /\ value' = [value EXCEPT ![a] = c]
    /\ Tick
    /\ UNCHANGED <<run, saved, torn>>

OpenSlot(a, new) ==
    /\ ~torn
    /\ hist' = [hist EXCEPT ![a] = Opened(Closed(@, value[a]), new)]
    /\ UNCHANGED <<value, saved, torn>> /\ UNCHANGED clock

Close(a) ==
    /\ ~torn
    /\ hist' = [hist EXCEPT ![a] = Closed(@, value[a])]
    /\ UNCHANGED <<value, saved, torn>> /\ UNCHANGED clock

(* snapshot_script_state. *)
Snapshot ==
    /\ ~torn
    /\ saved' = [taken |-> TRUE, value |-> value, hist |-> hist]
    /\ UNCHANGED <<value, hist, torn>> /\ UNCHANGED clock

(* A bug: the history's tokens and copy are left out of the rollback, like the
   clock. *)
RestoreKeepsTokens ==
    /\ saved.taken
    /\ value' = saved.value
    /\ hist' = [a \in Arrays |-> [hist[a] EXCEPT !.slots = saved.hist[a].slots,
                                                  !.open = saved.hist[a].open]]
    /\ torn' = FALSE
    /\ UNCHANGED saved /\ UNCHANGED clock

(* restore_script_state. *)
Restore ==
    /\ saved.taken
    /\ value' = saved.value
    /\ hist' = saved.hist
    /\ torn' = FALSE
    /\ UNCHANGED saved /\ UNCHANGED clock

(* A member assignment of restore_script_state throws.  What the strategy may
   do next is retry the restore or start another run. *)
RestoreThrows(V, H) ==
    /\ saved.taken
    /\ value' = [a \in Arrays |-> IF a \in V THEN saved.value[a] ELSE value[a]]
    /\ hist' = [a \in Arrays |-> IF a \in H THEN saved.hist[a] ELSE hist[a]]
    /\ torn' = TRUE
    /\ UNCHANGED saved /\ UNCHANGED clock

(* prepare_script_run; reset_for_run() gives the run an identity of its own. *)
PrepareRun ==
    /\ value' = [a \in Arrays |-> Empty]
    /\ hist' = [a \in Arrays |-> NewHistory]
    /\ saved' = NoCheckpoint
    /\ torn' = FALSE
    /\ run' = Token
    /\ Tick

Next ==
    \/ \E a \in Arrays :
         \/ \E c \in Contents : Mutate(a, c)
         \/ \E new \in BOOLEAN : OpenSlot(a, new)
         \/ Close(a)
    \/ Snapshot \/ Restore \/ PrepareRun
    \/ \E V, H \in SUBSET Arrays : RestoreThrows(V, H)

Spec == Init /\ [][Next]_vars

-------------------------------------------------------------------------------
(* Properties.                                                               *)

Slots == Seq(Contents \cup {Unset})
History == [slots : Slots, open : BOOLEAN, content : 0..MaxToken,
            cached : Contents \cup {Unset},
            cachedRun : 0..MaxToken, cachedContent : 0..MaxToken]

(* Every variable holds values of the type the code declares for it. *)
TypeOK ==
    /\ value \in [Arrays -> Contents]
    /\ hist \in [Arrays -> History]
    /\ next \in 1..MaxToken
    /\ run \in 0..MaxToken
    /\ saved \in {NoCheckpoint} \cup
         [taken : {TRUE}, value : [Arrays -> Contents], hist : [Arrays -> History]]
    /\ torn \in BOOLEAN

(* The cached copy that close() would reuse is what the array holds now: after
   any number of writes, rollbacks, runs and whatever tokens are left. *)
CacheIsCurrent ==
    ~torn => \A a \in Arrays : Reusable(hist[a]) => hist[a].cached = value[a]

Plain == INSTANCE FrozenHistory WITH
    hist  <- [a \in Arrays |-> [slots |-> hist[a].slots, open |-> hist[a].open]],
    saved <- IF saved.taken
             THEN [taken |-> TRUE, value |-> saved.value,
                   hist |-> [a \in Arrays |-> [slots |-> saved.hist[a].slots,
                                               open |-> saved.hist[a].open]]]
             ELSE saved

(* Sharing copies is invisible: the slots a script reads are those of the
   history that copies the array at every close. *)
ImplementsPlainHistory == Plain!Spec
===============================================================================
