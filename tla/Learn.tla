------------------------------- MODULE Learn --------------------------------
(***************************************************************************)
(* Conflict analysis (solver/learn.go): learnClause walks down the trail,  *)
(* resolving the conflict clause with reasons until one literal of the     *)
(* current level is left, then drops literals the others imply.            *)
(*                                                                         *)
(* One step per turn of the outer loop.  The slice lits is the set of its  *)
(* literals of lower levels; lits[0], the asserting literal, is computed   *)
(* at the end.                                                             *)
(***************************************************************************)
EXTENDS Watcher

VARIABLES
    met,          \* variables already met
    metLvl,       \* variables of the current level to deal with, or dealt with
    nbLvl,        \* the counter of variables of the current level
    walk,         \* learnClause's ptr in the trail
    lits,         \* false literals of lower levels collected so far
    assumptions   \* variables whose binding is assumed

learnVars == <<met, metLvl, nbLvl, walk, lits>>

AtLvl(S) == {l \in S : Level(VarOf(l)) = lvl}

\* addClauseLits on the conflict clause.
StartLearn(c) ==
    LET falsified == {l \in clauses[c] : IsFalse(l)} IN
    /\ met' = VarsOf(falsified)
    /\ metLvl' = VarsOf(AtLvl(falsified))
    /\ nbLvl' = Cardinality(AtLvl(falsified))
    /\ lits' = falsified \ AtLvl(falsified)
    /\ walk' = Len(trail)

\* The position the inner loop stops at.
NextMet == Max({i \in 1 .. walk : VarOf(trail[i]) \in metLvl})

\* Variables of the current level the inner loop steps over.
SteppedOver ==
    {v \in Vars : Level(v) = lvl
        /\ \E i \in NextMet + 1 .. walk : VarOf(trail[i]) = v}

\* Variant for TLC: literals met before are counted again.
NewLitsAgain(v, seen) ==
    IF reason[v] = Nil THEN {} ELSE {l \in clauses[reason[v]] : IsFalse(l)} \ {Negation(trail[NextMet])}

\* Literals of the reason of v that are met for the first time.
NewLits(v, seen) ==
    IF reason[v] = Nil THEN {}
    ELSE {l \in clauses[reason[v]] : VarOf(l) \notin seen /\ IsFalse(l)}

ResolveVar == VarOf(trail[NextMet])

\* One turn of the loop, when the variable at hand is not an assumption.
Resolve ==
    LET seen == met \union SteppedOver
        new == NewLits(ResolveVar, seen)
    IN
    /\ pc = "learn" /\ nbLvl > 1
    /\ ResolveVar \notin assumptions
    /\ met' = seen \union VarsOf(new)
    /\ metLvl' = metLvl \union VarsOf(AtLvl(new))
    /\ nbLvl' = (nbLvl - 1) + Cardinality(AtLvl(new))
    /\ lits' = lits \union (new \ AtLvl(new))
    /\ walk' = NextMet - 1
    /\ UNCHANGED <<bindingVars, dbVars, wlist, wlistBin, ptr, todoBin, todo,
                   confl, lvl, pc, assumptions>>

\* "return nil, -1": only assumed literals are left.
OnlyAssumed == pc = "learn" /\ nbLvl > 1 /\ ResolveVar \in assumptions

\* lits[0]: the negation of the first literal of the trail in metLvl.  When
\* there is none it is whatever the shared buffer bufLits held before.
AssertingLits ==
    LET I == {i \in 1 .. Len(trail) : VarOf(trail[i]) \in metLvl} IN
    IF I = {} THEN Lits ELSE {Negation(trail[Min(I)])}

\* Variant for TLC: the reason is not looked at.
RedundantAny(l) == reason[VarOf(l)] # Nil

\* minimizeLearned drops a literal when every variable of its reason was met.
Redundant(l) ==
    /\ reason[VarOf(l)] # Nil
    /\ VarsOf(clauses[reason[VarOf(l)]]) \subseteq met

Minimized == {l \in lits : ~ Redundant(l)}

\* computeLbd on the literals sorted by level: one per distinct level.
ComputeLbd(C) == Cardinality({Level(VarOf(l)) : l \in C})

\* Variant for TLC: the literals are not sorted.
SecondLitsAny(C) == C

\* sortLiterals puts a literal of the highest level at index 1.
SecondLits(C) ==
    {l \in C : \A k \in C : Level(VarOf(k)) <= Level(VarOf(l))}

Learnt == pc = "learn" /\ nbLvl <= 1

EndLearn ==
    /\ met' = {} /\ metLvl' = {} /\ lits' = {}
    /\ nbLvl' = 0 /\ walk' = 0
=============================================================================
