------------------------------- MODULE Pipeline -------------------------------
(***************************************************************************)
(* One transpilation: _generate of __init__.py.  A pass parses, analyses   *)
(* and generates from the source text.  What code generation finds it      *)
(* could not do -- declarations that cannot share a member, functions      *)
(* whose session reads need clones -- is added to what the next pass does, *)
(* and the passes start over.  All of them share one time budget.          *)
(*                                                                         *)
(* The script is known by its top-level declarations and by its functions  *)
(* that may read a session flag at an offset.  What a pass infers of them  *)
(* depends on the renames and clones it was given, in ways that are left   *)
(* open here.                                                              *)
(***************************************************************************)
EXTENDS Integers, FiniteSetsExt

CONSTANTS
    Declarations,   \* top-level declarations, as their positions in the source
    Name,           \* [Declarations -> names]
    Functions,
    Types, Unknown, \* C++ types of members; Unknown: not inferred
    Scalars,        \* _SHARED_MEMBER_TYPES
    Seconds,        \* MAX_TRANSPILE_SECONDS
    MaxClock        \* bound of the model

ASSUME DeclarationsAreOrdered == Declarations \subseteq Nat /\ IsFiniteSet(Declarations)
ASSUME FunctionsAreFinite == IsFiniteSet(Functions)
ASSUME SecondsAreNat == Seconds \in Nat

NoBudget == -1

(* Bound of the model: passes are counted as far as this. *)
MaxPasses == Cardinality(Declarations) + Cardinality(Functions) + 2

VARIABLES
    nested,     \* the declarations of the script that are in a block
    phase,      \* the next thing a pass does
    outcome,    \* "running", or how the transpilation ended
    renamed,    \* declarations that get a name of their own
    clones,     \* functions cloned for their session reads
    passes,     \* passes started, for the properties
    types,      \* what this pass infers of the declarations
    shadowing,  \* declarations with C++ storage in their block
    needed,     \* functions that asked this pass for clones
    clock,      \* time since the transpilation began
    budget      \* the deadline

given == <<renamed, clones>>
found == <<types, shadowing, needed>>
time == <<clock, budget>>
vars == <<nested, phase, outcome, given, passes, found, time>>

NothingInferred == [d \in Declarations |-> Unknown]

Init ==
    /\ nested \in SUBSET Declarations
    /\ \A d, e \in Declarations \ nested : Name[d] = Name[e] => d = e
    /\ phase = "parse" /\ outcome = "running"
    /\ renamed = {} /\ clones = {}
    /\ passes = 0
    /\ types = NothingInferred /\ shadowing = {} /\ needed = {}
    /\ clock = 0 /\ budget = NoBudget

-------------------------------------------------------------------------------
(* Members.                                                                  *)

(* A bug: the names made up for declarations of one name are the same name. *)
SharedNameOf(d) == IF d \in renamed THEN <<Name[d], 1>> ELSE <<Name[d]>>

(* A renamed declaration has a name nobody else spells. *)
NameOf(d) == IF d \in renamed THEN <<Name[d], d>> ELSE <<Name[d]>>

Sharing(d) == {e \in Declarations : NameOf(e) = NameOf(d) /\ e \notin nested \cap shadowing}

(* The member has the type of the direct declaration, else of the first. *)
MemberType(d) ==
    LET direct == Sharing(d) \ nested
    IN types[Min(IF direct # {} THEN direct ELSE Sharing(d))]

Fits(d) ==
    LET member == MemberType(d)
    IN \/ types[d] = Unknown \/ member = Unknown
       \/ types[d] = member
       \/ {types[d], member} \subseteq Scalars

NeedingNames == {d \in nested \ shadowing : ~Fits(d)}

-------------------------------------------------------------------------------
(* A pass.                                                                   *)

Running(p) == outcome = "running" /\ phase = p
Ends(how) == phase' = "done" /\ outcome' = how

(* A phase ends with a look at the clock. *)
Checked(next) ==
    IF clock >= budget'
    THEN Ends("timeout")
    ELSE phase' = next /\ UNCHANGED outcome

(* A bug: every pass gets a time budget of its own. *)
BudgetOfPass == budget' = clock + Seconds

(* The budget is made by the first pass and handed to the others. *)
StartBudget ==
    IF budget = NoBudget
    THEN budget' = clock + Seconds
    ELSE UNCHANGED budget

(* Lexing, parsing, libraries, overloads, renames and the support check. *)
Parse ==
    /\ Running("parse")
    /\ passes' = Min({passes + 1, MaxPasses})
    /\ StartBudget
    /\ Checked("analyze")
    /\ UNCHANGED <<nested, given, found, clock>>

(* The analysis clones the readers it was told to; the others may ask. *)
Uncloned(readers) == readers \ clones

Analyze ==
    /\ Running("analyze")
    /\ types' \in [Declarations -> Types \cup {Unknown}]
    /\ shadowing' \in SUBSET nested
    /\ UNCHANGED budget
    /\ Checked("generate")
    /\ UNCHANGED <<nested, given, passes, needed, clock>>

(* Those ask whose read is left in the C++. *)
Generate ==
    /\ Running("generate")
    /\ \E readers \in SUBSET Functions : needed' \in SUBSET Uncloned(readers)
    /\ UNCHANGED budget
    /\ Checked("settle")
    /\ UNCHANGED <<nested, given, passes, types, shadowing, clock>>

(* A bug: the clones of the pass before are forgotten. *)
StartOverForgetting(apart) ==
    /\ renamed' = renamed \cup apart
    /\ clones' = IF apart = {} THEN needed ELSE clones
    /\ phase' = "parse"

(* Clones are looked at once no declaration needs a name. *)
StartOver(apart) ==
    /\ renamed' = renamed \cup apart
    /\ clones' = IF apart = {} THEN clones \cup needed ELSE clones
    /\ phase' = "parse"

Settle ==
    /\ Running("settle")
    /\ LET apart == NeedingNames \ renamed
       IN IF apart = {} /\ needed \subseteq clones
          THEN /\ IF needed = {} THEN Ends("cpp") ELSE Ends("assertion")
               /\ UNCHANGED <<given, found>>
          ELSE /\ StartOver(apart)
               /\ types' = NothingInferred /\ shadowing' = {} /\ needed' = {}
               /\ UNCHANGED outcome
    /\ UNCHANGED <<nested, passes, time>>

(* A bug: the exception of code generation is noted and the loop goes on. *)
RefuseAndGoOn ==
    /\ outcome = "running"
    /\ phase' = "settle" /\ outcome' = "error"
    /\ UNCHANGED <<nested, given, passes, found, time>>

(* Any phase may refuse the script; the last one by the C++ allowlist. *)
Refuse ==
    /\ outcome = "running"
    /\ Ends("error")
    /\ UNCHANGED <<nested, given, passes, found, time>>

(* Time passes within the phases; between two looks at the clock any amount. *)
Tick ==
    /\ outcome = "running" /\ budget # NoBudget
    /\ clock < MaxClock
    /\ clock' = clock + 1
    /\ UNCHANGED <<nested, phase, outcome, given, passes, found, budget>>

Finished == outcome # "running" /\ UNCHANGED vars

Next == Parse \/ Analyze \/ Generate \/ Settle \/ Refuse \/ Tick \/ Finished

(* A phase is a finite computation: the interpreter carries it through. *)
Fairness == WF_vars(Parse \/ Analyze \/ Generate \/ Settle)

Spec == Init /\ [][Next]_vars /\ Fairness

-------------------------------------------------------------------------------
Phases == {"parse", "analyze", "generate", "settle", "done"}
Outcomes == {"running", "cpp", "error", "timeout", "assertion"}

TypeOK ==
    /\ phase \in Phases /\ outcome \in Outcomes
    /\ phase = "done" <=> outcome # "running"
    /\ nested \subseteq Declarations /\ renamed \subseteq nested /\ clones \subseteq Functions
    /\ passes \in Nat
    /\ types \in [Declarations -> Types \cup {Unknown}]
    /\ shadowing \subseteq nested /\ needed \subseteq Functions
    /\ clock \in Nat /\ budget \in Nat \cup {NoBudget}

(* Every pass but the first does something no pass before it did, so there are
   at most as many more passes as nested declarations and session readers. *)
RestartsBounded == passes <= Cardinality(renamed) + Cardinality(clones) + 1

(* Every script is translated or refused: the loop of _generate ends. *)
Terminates == <>(outcome # "running")

(* The C++ that is returned has no member that one of its declarations does not
   fit, and no session read without its clones. *)
ReturnedIsSettled == outcome = "cpp" => needed = {} /\ \A d \in nested \ shadowing : Fits(d)

(* Once the two minutes are over no pass gets on: starting over buys no time. *)
LateWorkStops ==
    [][clock >= Seconds /\ phase' # phase => phase = "settle" \/ outcome' # "running"]_vars
===============================================================================
