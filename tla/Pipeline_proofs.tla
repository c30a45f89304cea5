---------------------------- MODULE Pipeline_proofs ----------------------------
(***************************************************************************)
(* What holds of a transpilation for any script and any time limit: how    *)
(* often it starts over, that the budget is one budget, and that what it   *)
(* returns is settled.  That it ends at all is left to TLC.                *)
(***************************************************************************)
EXTENDS Pipeline, Sequences, FiniteSetTheorems, TLAPS

(* A pass that is under way has been counted; the next one has room left. *)
Room == IF phase = "parse"
        THEN passes <= Cardinality(renamed) + Cardinality(clones)
        ELSE passes <= Cardinality(renamed) + Cardinality(clones) + 1

OneBudget ==
    /\ budget = NoBudget => clock = 0 /\ phase \in {"parse", "done"}
    /\ budget # NoBudget => budget = Seconds

IInv == TypeOK /\ Room /\ OneBudget /\ ReturnedIsSettled

(* A renamed declaration is the only one of its member. *)
LEMMA RenamedFits == ASSUME TypeOK, NEW d \in renamed \ shadowing PROVE Fits(d)
<1>1. d \in Declarations
  BY DEF TypeOK
<1>2. \A e \in Declarations : NameOf(e) = NameOf(d) => e = d
  <2> SUFFICES ASSUME NEW e \in Declarations, NameOf(e) = NameOf(d) PROVE e = d
    OBVIOUS
  <2>1. NameOf(d) = <<Name[d], d>> /\ Len(<<Name[d], d>>) = 2
    BY DEF NameOf
  <2>2. Len(<<Name[e]>>) = 1
    OBVIOUS
  <2>3. NameOf(e) = <<Name[e], e>>
    BY <2>1, <2>2 DEF NameOf
  <2>. QED BY <2>1, <2>3
<1>3. Sharing(d) = {d}
  BY <1>1, <1>2 DEF Sharing
<1>4. Min({d}) = d
  BY <1>1, DeclarationsAreOrdered DEF Min
<1>5. Sharing(d) \ nested # {} => Sharing(d) \ nested = {d}
  BY <1>3
<1>6. MemberType(d) = types[d]
  BY <1>3, <1>4, <1>5 DEF MemberType
<1>. QED BY <1>6 DEF Fits

LEMMA Sizes ==
    ASSUME TypeOK
    PROVE  /\ IsFiniteSet(renamed) /\ Cardinality(renamed) \in Nat
           /\ IsFiniteSet(clones) /\ Cardinality(clones) \in Nat
           /\ IsFiniteSet(nested) /\ IsFiniteSet(needed)
<1>1. IsFiniteSet(nested) /\ IsFiniteSet(needed) /\ IsFiniteSet(clones)
  BY DeclarationsAreOrdered, FunctionsAreFinite, FS_Subset DEF TypeOK
<1>2. IsFiniteSet(renamed)
  BY <1>1, FS_Subset DEF TypeOK
<1>. QED BY <1>1, <1>2, FS_CardinalityType

(* A set that takes in something new grows. *)
LEMMA Grows ==
    ASSUME NEW S, NEW T, IsFiniteSet(S), IsFiniteSet(T), ~(T \subseteq S)
    PROVE  Cardinality(S \cup T) >= Cardinality(S) + 1
<1>1. IsFiniteSet(S \cup T)
  BY FS_Union
<1>2. S \subseteq S \cup T /\ S # S \cup T
  OBVIOUS
<1>3. Cardinality(S) <= Cardinality(S \cup T) /\ Cardinality(S) # Cardinality(S \cup T)
  BY <1>1, <1>2, FS_Subset
<1>4. Cardinality(S) \in Nat /\ Cardinality(S \cup T) \in Nat
  BY <1>1, FS_CardinalityType
<1>. QED BY <1>3, <1>4

(* Whether a declaration fits depends on these alone. *)
LEMMA FitsUnchanged ==
    ASSUME nested' = nested, renamed' = renamed, types' = types, shadowing' = shadowing, NEW d
    PROVE  Fits(d)' <=> Fits(d)
<1>1. \A e : NameOf(e)' = NameOf(e)
  BY DEF NameOf
<1>2. Sharing(d)' = Sharing(d)
  BY <1>1 DEF Sharing
<1>3. MemberType(d)' = MemberType(d)
  BY <1>2 DEF MemberType
<1>. QED BY <1>3 DEF Fits

LEMMA InitHolds == Init => IInv
<1> SUFFICES ASSUME Init PROVE IInv
  OBVIOUS
<1>1. TypeOK
  BY DEF Init, TypeOK, Phases, Outcomes, NoBudget, NothingInferred
<1>2. Cardinality({}) = 0
  BY FS_EmptySet
<1>. QED BY <1>1, <1>2 DEF Init, IInv, Room, OneBudget, ReturnedIsSettled, NoBudget

(* Minimum of two naturals. *)
LEMMA MinOfTwo == ASSUME NEW m \in Nat, NEW n \in Nat PROVE Min({m, n}) \in Nat /\ Min({m, n}) <= m
<1>1. \E x \in {m, n} : \A y \in {m, n} : x <= y
  OBVIOUS
<1>2. Min({m, n}) \in {m, n} /\ \A y \in {m, n} : Min({m, n}) <= y
  BY <1>1 DEF Min
<1>. QED BY <1>2

LEMMA ParseHolds == IInv /\ Parse => IInv'
<1> SUFFICES ASSUME IInv, Parse PROVE IInv'
  OBVIOUS
<1>1. /\ nested' = nested /\ renamed' = renamed /\ clones' = clones /\ types' = types
      /\ shadowing' = shadowing /\ needed' = needed /\ clock' = clock
      /\ phase = "parse" /\ outcome = "running" /\ passes' = Min({passes + 1, MaxPasses})
  BY DEF Parse, Running, given, found
<1>2. MaxPasses \in Nat
  BY DeclarationsAreOrdered, FunctionsAreFinite, FS_CardinalityType DEF MaxPasses
<1>3. passes' \in Nat /\ passes' <= passes + 1
  BY <1>1, <1>2, MinOfTwo DEF IInv, TypeOK
<1>4. budget' = Seconds /\ budget' # NoBudget
  BY SecondsAreNat DEF Parse, StartBudget, IInv, OneBudget, NoBudget
<1>5. \/ phase' = "analyze" /\ outcome' = "running"
      \/ phase' = "done" /\ outcome' = "timeout"
  BY <1>1 DEF Parse, Checked, Ends
<1>6. TypeOK'
  BY <1>1, <1>3, <1>4, <1>5, SecondsAreNat DEF IInv, TypeOK, Phases, Outcomes
<1>7. Room'
  BY <1>1, <1>3, <1>5, Sizes DEF IInv, Room, TypeOK
<1>. QED BY <1>4, <1>5, <1>6, <1>7 DEF IInv, OneBudget, ReturnedIsSettled

LEMMA AnalyzeHolds == IInv /\ Analyze => IInv'
<1> SUFFICES ASSUME IInv, Analyze PROVE IInv'
  OBVIOUS
<1>1. /\ nested' = nested /\ renamed' = renamed /\ clones' = clones /\ passes' = passes
      /\ needed' = needed /\ clock' = clock /\ budget' = budget
      /\ phase = "analyze" /\ outcome = "running"
      /\ types' \in [Declarations -> Types \cup {Unknown}] /\ shadowing' \subseteq nested
  BY DEF Analyze, Running, given
<1>2. \/ phase' = "generate" /\ outcome' = "running"
      \/ phase' = "done" /\ outcome' = "timeout"
  BY <1>1 DEF Analyze, Checked, Ends
<1>3. TypeOK'
  BY <1>1, <1>2 DEF IInv, TypeOK, Phases, Outcomes
<1>. QED BY <1>1, <1>2, <1>3 DEF IInv, Room, OneBudget, ReturnedIsSettled

LEMMA GenerateHolds == IInv /\ Generate => IInv'
<1> SUFFICES ASSUME IInv, Generate PROVE IInv'
  OBVIOUS
<1>1. /\ nested' = nested /\ renamed' = renamed /\ clones' = clones /\ passes' = passes
      /\ types' = types /\ shadowing' = shadowing /\ clock' = clock /\ budget' = budget
      /\ phase = "generate" /\ outcome = "running"
  BY DEF Generate, Running, given
<1>2. needed' \subseteq Functions
  BY DEF Generate, Uncloned
<1>3. \/ phase' = "settle" /\ outcome' = "running"
      \/ phase' = "done" /\ outcome' = "timeout"
  BY <1>1 DEF Generate, Checked, Ends
<1>4. TypeOK'
  BY <1>1, <1>2, <1>3 DEF IInv, TypeOK, Phases, Outcomes
<1>. QED BY <1>1, <1>2, <1>3, <1>4 DEF IInv, Room, OneBudget, ReturnedIsSettled

LEMMA SettleHolds == IInv /\ Settle => IInv'
<1> SUFFICES ASSUME IInv, Settle PROVE IInv'
  OBVIOUS
<1>. DEFINE apart == NeedingNames \ renamed
<1>1. /\ nested' = nested /\ passes' = passes /\ clock' = clock /\ budget' = budget
      /\ phase = "settle" /\ outcome = "running"
  BY DEF Settle, Running, time
<1>2. CASE apart = {} /\ needed \subseteq clones
  <2>1. /\ phase' = "done" /\ outcome' = IF needed = {} THEN "cpp" ELSE "assertion"
        /\ renamed' = renamed /\ clones' = clones
        /\ types' = types /\ shadowing' = shadowing /\ needed' = needed
    BY <1>2 DEF Settle, Ends, given, found
  <2>2. TypeOK'
    BY <1>1, <2>1 DEF IInv, TypeOK, Phases, Outcomes
  <2>3. \A d \in nested \ shadowing : Fits(d)
    BY <1>2, RenamedFits DEF NeedingNames, IInv
  <2>4. ReturnedIsSettled'
    BY <1>1, <2>1, <2>3, FitsUnchanged DEF ReturnedIsSettled
  <2>. QED BY <1>1, <2>1, <2>2, <2>4 DEF IInv, Room, OneBudget
<1>3. CASE ~(apart = {} /\ needed \subseteq clones)
  <2>1. /\ renamed' = renamed \cup apart
        /\ clones' = IF apart = {} THEN clones \cup needed ELSE clones
        /\ phase' = "parse" /\ outcome' = "running"
        /\ types' = NothingInferred /\ shadowing' = {} /\ needed' = {}
    BY <1>1, <1>3 DEF Settle, StartOver
  <2>2. TypeOK'
    BY <1>1, <2>1 DEF IInv, TypeOK, Phases, Outcomes, NothingInferred, NeedingNames
  <2>3. IsFiniteSet(apart)
    BY Sizes, FS_Subset DEF IInv, NeedingNames
  <2>4. Cardinality(renamed') + Cardinality(clones') >= Cardinality(renamed) + Cardinality(clones) + 1
    <3>1. CASE apart = {}
      <4>1. Cardinality(clones \cup needed) >= Cardinality(clones) + 1
        BY <1>3, <3>1, Grows, Sizes DEF IInv
      <4>2. renamed' = renamed /\ clones' = clones \cup needed
        BY <2>1, <3>1
      <4>3. Cardinality(clones \cup needed) \in Nat
        BY Sizes, FS_Union, FS_CardinalityType DEF IInv
      <4>4. Cardinality(renamed) \in Nat /\ Cardinality(clones) \in Nat
        BY Sizes DEF IInv
      <4>. HIDE DEF apart
      <4>. QED BY <4>1, <4>2, <4>3, <4>4
    <3>2. CASE apart # {}
      <4>1. ~(apart \subseteq renamed)
        BY <3>2
      <4>2. Cardinality(renamed \cup apart) >= Cardinality(renamed) + 1
        BY <2>3, <4>1, Grows, Sizes DEF IInv
      <4>3. Cardinality(renamed \cup apart) \in Nat
        BY <2>3, Sizes, FS_Union, FS_CardinalityType DEF IInv
      <4>4. renamed' = renamed \cup apart /\ clones' = clones
        BY <2>1, <3>2
      <4>5. Cardinality(renamed) \in Nat /\ Cardinality(clones) \in Nat
        BY Sizes DEF IInv
      <4>. HIDE DEF apart
      <4>. QED BY <4>2, <4>3, <4>4, <4>5
    <3>. QED BY <3>1, <3>2
  <2>5. Room'
    <3>1. passes <= Cardinality(renamed) + Cardinality(clones) + 1
      BY <1>1 DEF IInv, Room
    <3>2. Cardinality(renamed') \in Nat /\ Cardinality(clones') \in Nat
      BY <2>1, <2>3, Sizes, FS_Union, FS_CardinalityType DEF IInv
    <3>. QED BY <1>1, <2>1, <2>4, <3>1, <3>2, Sizes DEF IInv, Room, TypeOK
  <2>. QED BY <1>1, <2>1, <2>2, <2>5 DEF IInv, OneBudget, ReturnedIsSettled
<1>. QED BY <1>2, <1>3

LEMMA Inductive == IInv /\ [Next]_vars => IInv'
<1> SUFFICES ASSUME IInv, [Next]_vars PROVE IInv'
  OBVIOUS
<1>1. CASE UNCHANGED vars
  <2>1. /\ nested' = nested /\ renamed' = renamed /\ clones' = clones /\ passes' = passes
        /\ types' = types /\ shadowing' = shadowing /\ needed' = needed
        /\ clock' = clock /\ budget' = budget /\ phase' = phase /\ outcome' = outcome
    BY <1>1 DEF vars, given, found, time
  <2>2. ReturnedIsSettled'
    BY <2>1, FitsUnchanged DEF IInv, ReturnedIsSettled
  <2>3. TypeOK' /\ Room' /\ OneBudget'
    BY <2>1 DEF IInv, TypeOK, Room, OneBudget
  <2>. QED BY <2>1, <2>2, <2>3 DEF IInv
<1>2. CASE Refuse
  <2>1. /\ nested' = nested /\ renamed' = renamed /\ clones' = clones /\ passes' = passes
        /\ types' = types /\ shadowing' = shadowing /\ needed' = needed
        /\ clock' = clock /\ budget' = budget /\ phase' = "done" /\ outcome' = "error"
    BY <1>2 DEF Refuse, Ends, given, found, time
  <2>2. TypeOK'
    BY <2>1 DEF IInv, TypeOK, Phases, Outcomes
  <2>3. Room'
    BY <2>1, Sizes DEF IInv, Room, TypeOK
  <2>. QED BY <2>1, <2>2, <2>3 DEF IInv, OneBudget, ReturnedIsSettled
<1>3. CASE Tick
  <2>1. /\ nested' = nested /\ renamed' = renamed /\ clones' = clones /\ passes' = passes
        /\ types' = types /\ shadowing' = shadowing /\ needed' = needed
        /\ clock' = clock + 1 /\ budget' = budget /\ phase' = phase /\ outcome' = outcome
        /\ budget # NoBudget /\ outcome = "running"
    BY <1>3 DEF Tick, given, found
  <2>2. TypeOK'
    BY <2>1 DEF IInv, TypeOK
  <2>. QED BY <2>1, <2>2 DEF IInv, Room, OneBudget, ReturnedIsSettled
<1>4. CASE Finished
  BY <1>1, <1>4 DEF Finished
<1>. QED BY <1>1, <1>2, <1>3, <1>4, ParseHolds, AnalyzeHolds, GenerateHolds, SettleHolds DEF Next

LEMMA InvariantHolds == Spec => []IInv
BY InitHolds, Inductive, PTL DEF Spec

-------------------------------------------------------------------------------
(* The state of a transpilation keeps its types; only nested declarations are
   ever renamed. *)
THEOREM TypeCorrect == Spec => []TypeOK
<1>1. IInv => TypeOK
  BY DEF IInv
<1>. QED BY <1>1, InvariantHolds, PTL

(* The pipeline starts over at most once for every nested declaration and every
   session reader, whatever the passes infer. *)
THEOREM RestartsAlwaysBounded == Spec => []RestartsBounded
<1>1. IInv => RestartsBounded
  BY Sizes DEF IInv, Room, RestartsBounded, TypeOK
<1>. QED BY <1>1, InvariantHolds, PTL

(* What is returned asked for nothing more. *)
THEOREM ReturnedAlwaysSettled == Spec => []ReturnedIsSettled
<1>1. IInv => ReturnedIsSettled
  BY DEF IInv
<1>. QED BY <1>1, InvariantHolds, PTL

(* The deadline of the first pass is the deadline of them all. *)
THEOREM LateWorkAlwaysStops == Spec => LateWorkStops
<1>1. IInv /\ [Next]_vars =>
        [clock >= Seconds /\ phase' # phase => phase = "settle" \/ outcome' # "running"]_vars
  <2> SUFFICES ASSUME IInv, Next, clock >= Seconds, phase' # phase, phase # "settle"
               PROVE  outcome' # "running"
    BY DEF vars
  <2>1. CASE Parse
    BY <2>1, SecondsAreNat DEF Parse, StartBudget, Checked, Ends, IInv, OneBudget
  <2>2. CASE Analyze
    BY <2>2 DEF Analyze, Running, Checked, Ends, IInv, OneBudget
  <2>3. CASE Generate
    BY <2>3 DEF Generate, Running, Checked, Ends, IInv, OneBudget
  <2>4. CASE Refuse
    BY <2>4 DEF Refuse, Ends
  <2>. QED BY <2>1, <2>2, <2>3, <2>4 DEF Next, Settle, Running, Tick, Finished, vars
<1>. QED BY <1>1, InvariantHolds, PTL DEF Spec, LateWorkStops
===============================================================================
