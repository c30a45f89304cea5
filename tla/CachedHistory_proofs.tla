-------------------------- MODULE CachedHistory_proofs --------------------------
(***************************************************************************)
(* Proofs that sharing frozen copies is invisible, for every number of     *)
(* arrays, every set of contents, every capacity and every token width.    *)
(***************************************************************************)
EXTENDS CachedHistory, TLAPS

(* What holds of a history whatever its array holds: its tokens were issued by
   the clock, and an open history has a slot. *)
Issued(h) ==
    /\ h.content <= next
    /\ h.cachedContent <= next
    /\ h.open => h.slots # <<>>

(* Equal tokens mean that the cached copy is the contents c of the array. *)
Current(h, c) ==
    h.content # 0 /\ h.cachedContent = h.content => h.cached = c

(* The inductive invariant.  The checkpoint has to be current as well, because
   a restore makes it the live state; a torn state need not be. *)
IInv ==
    /\ TypeOK
    /\ \A a \in Arrays : Issued(hist[a])
    /\ ~torn => \A a \in Arrays : Current(hist[a], value[a])
    /\ saved.taken => \A a \in Arrays : /\ Issued(saved.hist[a])
                                        /\ Current(saved.hist[a], saved.value[a])

-------------------------------------------------------------------------------
(* A pushed slot leaves a non-empty sequence of copies and null pointers. *)
LEMMA PushSlotType ==
    ASSUME NEW s \in Slots, NEW x \in Contents \cup {Unset}
    PROVE  PushSlot(s, x) \in Slots /\ PushSlot(s, x) # <<>>
<1> DEFINE S == Contents \cup {Unset}
           long == <<x>> \o s
           n == IF Len(s) < Capacity THEN Len(s) + 1 ELSE Capacity
<1>1. s \in Seq(S) /\ x \in S
  BY DEF Slots
<1>2. long \in Seq(S) /\ Len(long) = Len(s) + 1
  BY <1>1
<1>3. n \in 1..Len(long)
  BY <1>1, <1>2, CapacityIsPositive
<1>4. SubSeq(long, 1, n) \in Seq(S) /\ Len(SubSeq(long, 1, n)) = n
  <2> HIDE DEF long, n
  <2> QED  BY <1>2, <1>3
<1>5. SubSeq(long, 1, n) # <<>>
  <2> HIDE DEF long, n
  <2> QED  BY <1>3, <1>4
<1> QED  BY <1>4, <1>5 DEF PushSlot, Slots

(* So does an updated one, when there was a slot to update. *)
LEMMA UpdateSlotType ==
    ASSUME NEW s \in Slots, s # <<>>, NEW x \in Contents \cup {Unset}
    PROVE  UpdateSlot(s, x) \in Slots /\ UpdateSlot(s, x) # <<>>
<1>1. Tail(s) \in Slots
  BY DEF Slots
<1>2. <<x>> \o Tail(s) \in Slots /\ Len(<<x>> \o Tail(s)) = Len(Tail(s)) + 1
  BY <1>1 DEF Slots
<1>3. Len(Tail(s)) \in Nat
  BY <1>1 DEF Slots
<1> QED  BY <1>2, <1>3 DEF UpdateSlot

(* A checkpoint that was taken holds an array and a history for each member. *)
LEMMA SavedType ==
    ASSUME TypeOK, saved.taken
    PROVE  /\ saved.taken = TRUE
           /\ saved.value \in [Arrays -> Contents]
           /\ saved.hist \in [Arrays -> History]
           /\ saved = [taken |-> TRUE, value |-> saved.value, hist |-> saved.hist]
<1>1. saved # NoCheckpoint
  BY DEF NoCheckpoint
<1>2. saved \in [taken : {TRUE}, value : [Arrays -> Contents], hist : [Arrays -> History]]
  BY <1>1 DEF TypeOK
<1> QED  BY <1>2

(* The token a write draws is a new one, or none. *)
LEMMA TokenIsNew ==
    ASSUME TypeOK, Tick
    PROVE  /\ Token \in 0..MaxToken
           /\ Token = 0 \/ Token > next
           /\ Token <= next'
           /\ next' \in 1..MaxToken
           /\ next <= next'
BY TokensExist DEF TypeOK, Token, Tick

(* Refreshing the cached copy makes it current. *)
LEMMA RefreshedIsCurrent ==
    ASSUME TypeOK, NEW h \in History, Issued(h), NEW c \in Contents, Current(h, c)
    PROVE  /\ Refreshed(h, c) \in History
           /\ Issued(Refreshed(h, c))
           /\ Current(Refreshed(h, c), c)
           /\ Refreshed(h, c).cached = c
           /\ Refreshed(h, c).slots = h.slots
<1>1. CASE Reusable(h)
  BY <1>1 DEF Refreshed, Reusable, Current
<1>2. CASE ~Reusable(h)
  <2>1. Refreshed(h, c) = [h EXCEPT !.cached = c, !.cachedRun = run,
                                    !.cachedContent = h.content]
    BY <1>2 DEF Refreshed
  <2> QED  BY <2>1 DEF Issued, Current, TypeOK, History
<1> QED  BY <1>1, <1>2

(* Closing a slot stores the array's contents, reused or copied. *)
LEMMA ClosedIsPlain ==
    ASSUME TypeOK, NEW h \in History, Issued(h), NEW c \in Contents, Current(h, c)
    PROVE  /\ Closed(h, c) \in History
           /\ Issued(Closed(h, c))
           /\ Current(Closed(h, c), c)
           /\ Closed(h, c).open = FALSE
           /\ Closed(h, c).slots = IF h.open THEN UpdateSlot(h.slots, c) ELSE h.slots
<1>1. CASE h.open
  <2> DEFINE r == Refreshed(h, c)
  <2>1. /\ r \in History /\ Issued(r) /\ Current(r, c)
        /\ r.cached = c /\ r.slots = h.slots
    BY RefreshedIsCurrent
  <2>2. h.slots \in Slots /\ h.slots # <<>>
    BY <1>1 DEF History, Issued
  <2>3. UpdateSlot(h.slots, c) \in Slots
    BY <2>2, UpdateSlotType
  <2>4. Closed(h, c) = [r EXCEPT !.slots = UpdateSlot(r.slots, r.cached), !.open = FALSE]
    BY <1>1 DEF Closed
  <2> HIDE DEF r
  <2> QED  BY <1>1, <2>1, <2>3, <2>4 DEF History, Issued, Current
<1>2. CASE ~h.open
  BY <1>2 DEF Closed, History
<1> QED  BY <1>1, <1>2

(* Opening a slot touches no token and no cached copy. *)
LEMMA OpenedIsPlain ==
    ASSUME NEW h \in History, Issued(h), NEW c, Current(h, c), NEW new \in BOOLEAN
    PROVE  /\ Opened(h, new) \in History
           /\ Issued(Opened(h, new))
           /\ Current(Opened(h, new), c)
           /\ Opened(h, new).open = TRUE
           /\ Opened(h, new).slots = IF new \/ h.slots = <<>> THEN PushSlot(h.slots, Unset)
                                                  ELSE UpdateSlot(h.slots, Unset)
<1> DEFINE s == IF new \/ h.slots = <<>> THEN PushSlot(h.slots, Unset)
                                          ELSE UpdateSlot(h.slots, Unset)
<1>1. h.slots \in Slots
  BY DEF History
<1>2. s \in Slots /\ s # <<>>
  BY <1>1, PushSlotType, UpdateSlotType
<1>3. Opened(h, new) = [h EXCEPT !.slots = s, !.open = TRUE]
  BY DEF Opened
<1> HIDE DEF s
<1>4. Opened(h, new).slots = s
  BY <1>3 DEF History
<1>5. Opened(h, new) \in History /\ Issued(Opened(h, new)) /\ Current(Opened(h, new), c)
  BY <1>2, <1>3 DEF History, Issued, Current
<1>6. Opened(h, new).open = TRUE
  BY <1>3 DEF History
<1> QED  BY <1>4, <1>5, <1>6 DEF s

-------------------------------------------------------------------------------
(* Init establishes the invariant. *)
LEMMA InitInv == Init => IInv
<1> SUFFICES ASSUME Init PROVE IInv
  OBVIOUS
<1>1. NewHistory \in History
  BY TokensExist DEF NewHistory, History, Slots
<1>2. TypeOK
  <2>1. value \in [Arrays -> Contents] /\ hist \in [Arrays -> History]
    BY <1>1, EmptyIsContents DEF Init
  <2>2. next \in 1..MaxToken /\ run \in 0..MaxToken
    BY TokensExist DEF Init
  <2>3. torn \in BOOLEAN
    BY DEF Init
  <2>4. saved = NoCheckpoint
    BY DEF Init
  <2> QED  BY <2>1, <2>2, <2>3, <2>4 DEF TypeOK
<1> QED
  BY <1>2 DEF Init, IInv, NewHistory, NoCheckpoint, Issued, Current

(* A write draws a token that no cached copy carries. *)
LEMMA MutateKeepsInv ==
    ASSUME IInv, NEW a \in Arrays, NEW c \in Contents, Mutate(a, c)
    PROVE  IInv'
<1> DEFINE h == [hist[a] EXCEPT !.content = Token]
<1>1. /\ Token \in 0..MaxToken /\ (Token = 0 \/ Token > next) /\ Token <= next'
      /\ next' \in 1..MaxToken /\ next <= next' /\ next \in 1..MaxToken
  BY TokenIsNew DEF IInv, Mutate, TypeOK
<1>2. hist[a] \in History /\ Issued(hist[a])
  BY DEF IInv, TypeOK
<1>3. hist' = [hist EXCEPT ![a] = h]
  BY DEF Mutate
<1>4. h \in History
  BY <1>1, <1>2 DEF History
<1>5. /\ h.content = Token /\ h.cachedContent = hist[a].cachedContent
      /\ h.open = hist[a].open /\ h.slots = hist[a].slots
  BY <1>2 DEF History
<1>6. Current(h, c)
  BY <1>1, <1>2, <1>5 DEF Issued, Current, History
<1> HIDE DEF h
<1>7. TypeOK'
  BY <1>1, <1>3, <1>4 DEF IInv, TypeOK, Mutate
<1>8. ASSUME NEW b \in Arrays
      PROVE  Issued(hist[b])' /\ Current(hist'[b], value'[b])
  <2>1. CASE b = a
    <3>1. hist'[b] = h /\ value'[b] = c
      BY <1>3, <2>1 DEF IInv, TypeOK, Mutate
    <3>2. h.content <= next' /\ h.cachedContent <= next'
      BY <1>1, <1>2, <1>5 DEF Issued, History
    <3> QED  BY <1>2, <1>5, <1>6, <3>1, <3>2 DEF Issued, Current
  <2>2. CASE b # a
    BY <1>1, <1>3, <2>2 DEF IInv, TypeOK, Mutate, Issued, Current, History
  <2> QED  BY <2>1, <2>2
<1>9. ASSUME saved.taken, NEW b \in Arrays
      PROVE  Issued(saved.hist[b])' /\ Current(saved.hist[b], saved.value[b])
  <2>1. saved.hist[b] \in History
    BY <1>9, SavedType DEF IInv
  <2> QED  BY <1>1, <1>9, <2>1 DEF IInv, Mutate, Issued, History
<1> QED
  BY <1>7, <1>8, <1>9 DEF IInv, Mutate, Current

(* Opening and closing a slot leave the clock and the arrays alone, and the
   history sound. *)
LEMMA SlotStepKeepsInv ==
    ASSUME IInv, ~torn, NEW a \in Arrays, NEW h \in History,
           Issued(h), Current(h, value[a]),
           hist' = [hist EXCEPT ![a] = h],
           UNCHANGED <<value, saved, torn>>, UNCHANGED clock
    PROVE  IInv'
<1>1. TypeOK'
  BY DEF IInv, TypeOK, clock
<1>2. ASSUME NEW b \in Arrays
      PROVE  Issued(hist[b])' /\ Current(hist'[b], value'[b])
  BY DEF IInv, TypeOK, Issued, Current, clock
<1> QED
  BY <1>1, <1>2 DEF IInv, Issued, Current, clock

(* open_slot() keeps the invariant. *)
LEMMA OpenSlotKeepsInv ==
    ASSUME IInv, NEW a \in Arrays, NEW new \in BOOLEAN, OpenSlot(a, new)
    PROVE  IInv'
<1>1. /\ TypeOK /\ hist[a] \in History /\ value[a] \in Contents
      /\ Issued(hist[a]) /\ Current(hist[a], value[a])
  BY DEF IInv, TypeOK, OpenSlot
<1> DEFINE k == Closed(hist[a], value[a])
           h == Opened(k, new)
<1>2. k \in History /\ Issued(k) /\ Current(k, value[a])
  BY <1>1, ClosedIsPlain
<1>3. h \in History /\ Issued(h) /\ Current(h, value[a])
  <2> HIDE DEF k
  <2> QED  BY <1>2, OpenedIsPlain
<1>4. ~torn /\ hist' = [hist EXCEPT ![a] = h] /\ UNCHANGED <<value, saved, torn>>
      /\ UNCHANGED clock
  BY DEF OpenSlot
<1> HIDE DEF h
<1> QED  BY <1>3, <1>4, SlotStepKeepsInv

(* So does close(). *)
LEMMA CloseKeepsInv ==
    ASSUME IInv, NEW a \in Arrays, Close(a)
    PROVE  IInv'
<1>1. /\ TypeOK /\ hist[a] \in History /\ value[a] \in Contents
      /\ Issued(hist[a]) /\ Current(hist[a], value[a])
  BY DEF IInv, TypeOK, Close
<1> DEFINE h == Closed(hist[a], value[a])
<1>2. h \in History /\ Issued(h) /\ Current(h, value[a])
  BY <1>1, ClosedIsPlain
<1>3. ~torn /\ hist' = [hist EXCEPT ![a] = h] /\ UNCHANGED <<value, saved, torn>>
      /\ UNCHANGED clock
  BY DEF Close
<1> HIDE DEF h
<1> QED  BY <1>2, <1>3, SlotStepKeepsInv

(* A snapshot copies a state that is not torn. *)
LEMMA SnapshotKeepsInv ==
    ASSUME IInv, Snapshot
    PROVE  IInv'
<1>1. saved'.taken /\ saved'.hist = hist /\ saved'.value = value
  BY DEF Snapshot
<1>2. TypeOK'
  BY DEF IInv, TypeOK, Snapshot, clock
<1> QED
  BY <1>1, <1>2 DEF IInv, Snapshot, clock, Issued, Current

(* A restore, complete or torn, only brings back tokens the clock issued. *)
LEMMA RestoresKeepInv ==
    ASSUME IInv,
           Restore \/ (\E V, H \in SUBSET Arrays : RestoreThrows(V, H))
    PROVE  IInv'
<1>1. saved.taken
  BY DEF Restore, RestoreThrows
<1>2. saved.value \in [Arrays -> Contents] /\ saved.hist \in [Arrays -> History]
  BY <1>1, SavedType DEF IInv
<1>3. \A a \in Arrays : Issued(saved.hist[a]) /\ Current(saved.hist[a], saved.value[a])
  BY <1>1 DEF IInv
<1>4. UNCHANGED <<next, run, saved>>
  BY DEF Restore, RestoreThrows, clock
<1>5. CASE Restore
  <2>1. TypeOK'
    BY <1>2, <1>4, <1>5 DEF IInv, TypeOK, Restore
  <2> QED  BY <1>3, <1>4, <1>5, <2>1 DEF IInv, Restore, Issued, Current
<1>6. ASSUME NEW V \in SUBSET Arrays, NEW H \in SUBSET Arrays, RestoreThrows(V, H)
      PROVE  IInv'
  <2>1. TypeOK'
    BY <1>2, <1>4, <1>6 DEF IInv, TypeOK, RestoreThrows
  <2>2. \A a \in Arrays : Issued(hist'[a])
    BY <1>3, <1>6 DEF IInv, RestoreThrows
  <2> QED  BY <1>3, <1>4, <1>6, <2>1, <2>2 DEF IInv, RestoreThrows, Issued, Current
<1> QED  BY <1>5, <1>6

(* A new run starts with fresh histories and no checkpoint. *)
LEMMA PrepareRunKeepsInv ==
    ASSUME IInv, PrepareRun
    PROVE  IInv'
<1>1. NewHistory \in History
  BY TokensExist DEF NewHistory, History, Slots
<1>2. Token \in 0..MaxToken /\ next' \in 1..MaxToken
  BY TokenIsNew DEF IInv, PrepareRun
<1>3. TypeOK'
  BY <1>1, <1>2, EmptyIsContents DEF IInv, TypeOK, PrepareRun
<1>4. ~saved'.taken
  BY DEF PrepareRun, NoCheckpoint
<1> QED
  BY <1>2, <1>3, <1>4 DEF IInv, PrepareRun, NewHistory, Issued, Current

(* Every step keeps the invariant. *)
LEMMA NextKeepsInv == IInv /\ [Next]_vars => IInv'
<1> SUFFICES ASSUME IInv, [Next]_vars PROVE IInv'
  OBVIOUS
<1>1. CASE \E a \in Arrays, c \in Contents : Mutate(a, c)
  BY <1>1, MutateKeepsInv
<1>2. CASE \E a \in Arrays, new \in BOOLEAN : OpenSlot(a, new)
  BY <1>2, OpenSlotKeepsInv
<1>3. CASE \E a \in Arrays : Close(a)
  BY <1>3, CloseKeepsInv
<1>4. CASE Snapshot
  BY <1>4, SnapshotKeepsInv
<1>5. CASE Restore \/ \E V, H \in SUBSET Arrays : RestoreThrows(V, H)
  BY <1>5, RestoresKeepInv
<1>6. CASE PrepareRun
  BY <1>6, PrepareRunKeepsInv
<1>7. CASE UNCHANGED vars
  BY <1>7 DEF vars, IInv, TypeOK, Issued, Current
<1> QED  BY <1>1, <1>2, <1>3, <1>4, <1>5, <1>6, <1>7 DEF Next

(* The inductive invariant holds in every reachable state. *)
THEOREM InductiveInvariant == Spec => []IInv
BY InitInv, NextKeepsInv, PTL DEF Spec

(* The variables of the generated history class and its clock keep the types
   their declarations give them, tokens within their width included. *)
THEOREM TypeCorrect == Spec => []TypeOK
<1>1. IInv => TypeOK
  BY DEF IInv
<1> QED  BY <1>1, InductiveInvariant, PTL

(* close() never reuses a stale copy: after any writes, rollbacks and runs,
   and however many tokens are left. *)
THEOREM CacheAlwaysCurrent == Spec => []CacheIsCurrent
<1>1. IInv => CacheIsCurrent
  BY DEF IInv, CacheIsCurrent, Current, Reusable
<1> QED  BY <1>1, InductiveInvariant, PTL

-------------------------------------------------------------------------------
(* The plain history's arrays start as the cached ones do. *)
LEMMA PlainInit == Init => Plain!Init
<1> SUFFICES ASSUME Init PROVE Plain!Init
  OBVIOUS
<1>1. saved.taken = FALSE /\ saved = NoCheckpoint
  BY DEF Init, NoCheckpoint
<1> QED
  BY <1>1 DEF Init, Plain!Init, NewHistory, Plain!NewHistory, NoCheckpoint,
              Plain!NoCheckpoint

(* What the plain history sees of a history. *)
Seen(h) == [slots |-> h.slots, open |-> h.open]

(* Closing the cached history looks like closing the plain one. *)
LEMMA ClosedSeen ==
    ASSUME TypeOK, NEW h \in History, Issued(h), NEW c \in Contents, Current(h, c)
    PROVE  Seen(Closed(h, c)) = Plain!Closed(Seen(h), c)
<1>1. /\ Closed(h, c).open = FALSE
      /\ Closed(h, c).slots = IF h.open THEN UpdateSlot(h.slots, c) ELSE h.slots
  BY ClosedIsPlain
<1>2. CASE h.open
  BY <1>1, <1>2 DEF Seen, Plain!Closed, Plain!UpdateSlot, UpdateSlot
<1>3. CASE ~h.open
  BY <1>1, <1>3 DEF Seen, Plain!Closed, History
<1> QED  BY <1>2, <1>3

(* And so does opening it. *)
LEMMA OpenedSeen ==
    ASSUME NEW h \in History, Issued(h), NEW new \in BOOLEAN
    PROVE  Seen(Opened(h, new)) = Plain!Opened(Seen(h), new)
<1>1. /\ Opened(h, new).open = TRUE
      /\ Opened(h, new).slots = IF new \/ h.slots = <<>> THEN PushSlot(h.slots, Unset)
                                                        ELSE UpdateSlot(h.slots, Unset)
  BY OpenedIsPlain, Current(h, h.cached) DEF Current
<1> DEFINE s == IF new \/ h.slots = <<>> THEN PushSlot(h.slots, Unset)
                                          ELSE UpdateSlot(h.slots, Unset)
<1>2. Plain!Opened(Seen(h), new) = [slots |-> s, open |-> TRUE]
  <2>1. /\ Plain!PushSlot(h.slots, Unset) = PushSlot(h.slots, Unset)
        /\ Plain!UpdateSlot(h.slots, Unset) = UpdateSlot(h.slots, Unset)
    BY DEF Plain!PushSlot, PushSlot, Plain!UpdateSlot, UpdateSlot
  <2>2. Plain!Opened(Seen(h), new) = [Seen(h) EXCEPT !.slots = s, !.open = TRUE]
    BY <2>1 DEF Plain!Opened, Seen
  <2> HIDE DEF s
  <2> QED  BY <2>2 DEF Seen
<1> QED  BY <1>1, <1>2 DEF Seen

(* What the plain history sees of the live state and of a checkpoint. *)
SeenHist == [a \in Arrays |-> Seen(hist[a])]

(* A step that changes one live history, as the plain history sees it. *)
LEMMA SeenStep ==
    ASSUME TypeOK, NEW a \in Arrays, NEW h, hist' = [hist EXCEPT ![a] = h],
           UNCHANGED saved
    PROVE  SeenHist' = [SeenHist EXCEPT ![a] = Seen(h)]
BY DEF TypeOK, SeenHist, Seen

(* open_slot() is open_slot(). *)
LEMMA OpenSlotRefines ==
    ASSUME IInv, NEW a \in Arrays, NEW new \in BOOLEAN, OpenSlot(a, new)
    PROVE  Plain!OpenSlot(a, new)
<1>1. /\ TypeOK /\ hist[a] \in History /\ value[a] \in Contents
      /\ Issued(hist[a]) /\ Current(hist[a], value[a])
  BY DEF IInv, TypeOK, OpenSlot
<1>2. /\ Closed(hist[a], value[a]) \in History
      /\ Issued(Closed(hist[a], value[a]))
      /\ Seen(Closed(hist[a], value[a])) = Plain!Closed(Seen(hist[a]), value[a])
  BY <1>1, ClosedIsPlain, ClosedSeen
<1>3. Seen(Opened(Closed(hist[a], value[a]), new)) =
        Plain!Opened(Plain!Closed(Seen(hist[a]), value[a]), new)
  BY <1>2, OpenedSeen
<1>4. hist' = [hist EXCEPT ![a] = Opened(Closed(hist[a], value[a]), new)]
  BY DEF OpenSlot
<1>5. SeenHist' = [SeenHist EXCEPT ![a] =
                     Plain!Opened(Plain!Closed(Seen(hist[a]), value[a]), new)]
  BY <1>1, <1>3, <1>4, SeenStep DEF OpenSlot
<1>6. SeenHist[a] = Seen(hist[a])
  BY DEF SeenHist
<1> QED
  BY <1>5, <1>6 DEF OpenSlot, Plain!OpenSlot, SeenHist, Seen

(* close() is close(): the reused copy is the copy that would be made. *)
LEMMA CloseRefines ==
    ASSUME IInv, NEW a \in Arrays, Close(a)
    PROVE  Plain!Close(a)
<1>1. /\ TypeOK /\ hist[a] \in History /\ value[a] \in Contents
      /\ Issued(hist[a]) /\ Current(hist[a], value[a])
  BY DEF IInv, TypeOK, Close
<1>2. Seen(Closed(hist[a], value[a])) = Plain!Closed(Seen(hist[a]), value[a])
  BY <1>1, ClosedSeen
<1>3. hist' = [hist EXCEPT ![a] = Closed(hist[a], value[a])]
  BY DEF Close
<1>4. SeenHist' = [SeenHist EXCEPT ![a] = Plain!Closed(Seen(hist[a]), value[a])]
  BY <1>1, <1>2, <1>3, SeenStep DEF Close
<1>5. SeenHist[a] = Seen(hist[a])
  BY DEF SeenHist
<1> QED
  BY <1>4, <1>5 DEF Close, Plain!Close, SeenHist, Seen

(* A write only changes tokens, which the plain history does not have. *)
LEMMA MutateRefines ==
    ASSUME IInv, NEW a \in Arrays, NEW c \in Contents, Mutate(a, c)
    PROVE  Plain!Mutate(a, c)
<1>1. \A b \in Arrays : hist'[b].slots = hist[b].slots /\ hist'[b].open = hist[b].open
  BY DEF IInv, TypeOK, History, Mutate
<1> QED
  BY <1>1 DEF Mutate, Plain!Mutate

(* The checkpoint holds what the plain checkpoint holds. *)
LEMMA SnapshotRefines ==
    ASSUME IInv, Snapshot
    PROVE  Plain!Snapshot
BY DEF Snapshot, Plain!Snapshot

(* And gives it back, whole or in part. *)
LEMMA RestoreRefines ==
    ASSUME IInv, Restore
    PROVE  Plain!Restore
<1>1. saved.hist \in [Arrays -> History]
  BY SavedType DEF IInv, Restore
<1> QED
  BY <1>1 DEF Restore, Plain!Restore

(* The same of a restore that throws. *)
LEMMA RestoreThrowsRefines ==
    ASSUME IInv, NEW V \in SUBSET Arrays, NEW H \in SUBSET Arrays, RestoreThrows(V, H)
    PROVE  Plain!RestoreThrows(V, H)
<1>1. saved.hist \in [Arrays -> History]
  BY SavedType DEF IInv, RestoreThrows
<1> QED
  BY <1>1 DEF RestoreThrows, Plain!RestoreThrows

(* A new run empties both. *)
LEMMA PrepareRunRefines ==
    ASSUME IInv, PrepareRun
    PROVE  Plain!PrepareRun
<1>1. saved' = NoCheckpoint /\ saved'.taken = FALSE
  BY DEF PrepareRun, NoCheckpoint
<1> QED
  BY <1>1 DEF PrepareRun, Plain!PrepareRun, NewHistory, Plain!NewHistory, NoCheckpoint,
              Plain!NoCheckpoint

(* For any arrays, contents, capacity and token width, the history that shares
   frozen copies is indistinguishable from the one that copies the array at
   every close. *)
THEOREM SharingIsInvisible == Spec => ImplementsPlainHistory
<1>1. IInv /\ [Next]_vars => [Plain!Next]_(Plain!vars)
  <2> SUFFICES ASSUME IInv, [Next]_vars PROVE Plain!Next \/ UNCHANGED Plain!vars
    OBVIOUS
  <2>1. CASE \E a \in Arrays, c \in Contents : Mutate(a, c)
    BY <2>1, MutateRefines DEF Plain!Next
  <2>2. CASE \E a \in Arrays, new \in BOOLEAN : OpenSlot(a, new)
    BY <2>2, OpenSlotRefines DEF Plain!Next
  <2>3. CASE \E a \in Arrays : Close(a)
    BY <2>3, CloseRefines DEF Plain!Next
  <2>4. CASE Snapshot
    BY <2>4, SnapshotRefines DEF Plain!Next
  <2>5. CASE Restore
    BY <2>5, RestoreRefines DEF Plain!Next
  <2>6. CASE \E V, H \in SUBSET Arrays : RestoreThrows(V, H)
    BY <2>6, RestoreThrowsRefines DEF Plain!Next
  <2>7. CASE PrepareRun
    BY <2>7, PrepareRunRefines DEF Plain!Next
  <2>8. CASE UNCHANGED vars
    BY <2>8 DEF vars, Plain!vars
  <2> QED  BY <2>1, <2>2, <2>3, <2>4, <2>5, <2>6, <2>7, <2>8 DEF Next
<1> QED
  BY <1>1, PlainInit, InductiveInvariant, PTL DEF Spec, ImplementsPlainHistory, Plain!Spec
===============================================================================
