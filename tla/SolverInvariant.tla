-------------------------- MODULE SolverInvariant ---------------------------
(***************************************************************************)
(* The inductive invariant behind UnsatSound.  What the search concludes   *)
(* is sound because every clause it holds follows from the clauses of the  *)
(* client, every binding of level 1 follows from them and the assumptions, *)
(* and conflict analysis only resolves such clauses with each other.       *)
(***************************************************************************)
EXTENDS SolverSafety

\* The client either appends clauses or makes assumptions: AppendClause drops
\* from the clause the literals that are false at level 1, assumed or not.
OneKindOfClient == Appendable = {} \/ Assumable = {}

ClientInv ==
    /\ Appendable = {} \/ assumed = {}
    /\ \A v \in assumptions : Level(v) = 1

\* The lists only hold watchers whose clause contains the falsified literal at
\* one of its first two positions, once per clause; a binary clause has the
\* blocking literal as its other one.
ListsInv ==
    /\ \A c \in ClauseIds :
        /\ watched[c][1] \in clauses[c] /\ watched[c][2] \in clauses[c]
        /\ watched[c][1] # watched[c][2]
    /\ \A l \in Lits : \A w \in wlistBin[l] :
        w[1] \in ClauseIds /\ clauses[w[1]] = {Negation(l), w[2]}
    /\ \A l \in Lits : \A w \in wlist[l] :
        /\ w[1] \in ClauseIds
        /\ Negation(l) \in {watched[w[1]][1], watched[w[1]][2]}
        /\ \A x \in wlist[l] : x[1] = w[1] => x = w

\* Propagation goes through the literals of the current level, and a conflict
\* has one of them.
VisitInv ==
    /\ pc \in {"propagate", "visit"} =>
        \A i \in DOMAIN trail : i >= ptr => Level(VarOf(trail[i])) = lvl
    /\ pc = "visit" =>
        /\ ptr \in 1 .. Len(trail)
        /\ todoBin \subseteq wlistBin[trail[ptr]]
        /\ todo \subseteq wlist[trail[ptr]]
    /\ pc = "conflict" =>
        /\ confl \in ClauseIds
        /\ \A l \in clauses[confl] : IsFalse(l)
        /\ \E l \in clauses[confl] : Level(VarOf(l)) = lvl

\* A level above 1 is opened by its decision: what has no reason comes first.
DecisionsFirst ==
    \A i, j \in DOMAIN trail :
        Level(VarOf(trail[i])) > 1 /\ reason[VarOf(trail[i])] = Nil /\ j < i =>
            Level(VarOf(trail[j])) < Level(VarOf(trail[i]))

LevelsInv ==
    /\ pc \in {"unify", "propagate", "visit", "conflict", "learn"} =>
        \A v \in Vars : Level(v) <= lvl
    /\ pc = "search" \/ (pc = "idle" /\ status # "Unsat") =>
        (\A v \in Vars : Level(v) <= 1) \/ queue = {}
    /\ pc \in {"propagate", "visit", "conflict"} /\ ret # "branch" => lvl = 1

\* The literal about to be bound: a decision of a new level, the consequence of
\* a clause, or a fact.
UnifyInv ==
    /\ pc = "unify" =>
        /\ lit \in Lits /\ model[VarOf(lit)] = 0
        /\ reason[VarOf(lit)] # Nil =>
            /\ lit \in clauses[reason[VarOf(lit)]]
            /\ \A l \in clauses[reason[VarOf(lit)]] \ {lit} : IsFalse(l)
        /\ reason[VarOf(lit)] = Nil /\ lvl > 1 => \A v \in Vars : Level(v) < lvl
        /\ reason[VarOf(lit)] = Nil /\ lvl = 1 => Entails(Question, {lit})
        /\ ret # "branch" => lvl = 1
    /\ \A v \in Vars : model[v] = 0 /\ reason[v] # Nil => pc = "unify" /\ v = VarOf(lit)

ClausesEntailed == \A c \in ClauseIds : Entails(formula, clauses[c])

FactsEntailed ==
    \A i \in DOMAIN trail :
        Level(VarOf(trail[i])) = 1 => Entails(Question, {trail[i]})

\* What the clause under construction follows from: resolving a fact away is
\* only possible at level 1.
Premises == IF lvl = 1 THEN Question ELSE formula

LearnInv ==
    pc = "learn" =>
        /\ ret = "branch"
        /\ walk \in 0 .. Len(trail)
        /\ nbLvl = Cardinality(Pending) /\ nbLvl >= 1
        /\ metLvl \subseteq met /\ \A v \in metLvl : Level(v) = lvl
        /\ \A l \in lits : IsFalse(l) /\ Level(VarOf(l)) < lvl
        /\ \A i \in 1 .. walk :
            VarOf(trail[i]) \in met => \/ VarOf(trail[i]) \in metLvl
                                       \/ Negation(trail[i]) \in lits
        /\ \A v \in met : model[v] # 0 /\ (Level(v) < lvl => \E l \in lits : VarOf(l) = v)
        /\ Entails(Premises, Resolvent)

UnsatInv == status = "Unsat" \/ result = "Unsat" => ~ Satisfiable(Question)

IInv ==
    /\ TypeOK
    /\ ClientInv /\ ListsInv /\ VisitInv
    /\ TrailMatchesModel /\ ReasonsImply /\ DecisionsFirst /\ LevelsInv /\ UnifyInv
    /\ ClausesEntailed /\ FactsEntailed /\ LearnInv /\ UnsatInv

-----------------------------------------------------------------------------
(* What makes the Sat answers right: no clause is forgotten by the lists,  *)
(* and a watcher left behind by propagation has a reason to be left alone  *)
(* that lasts as long as the literal it watches is false.                  *)

\* Assume undoes the level where the units of the problem are, which are not
\* clauses: nobody assumes, or there are none.
UnitsKept == Assumable = {} \/ \A pb \in Problems : pb.units = <<>>

\* A living clause is in the two lists it should be in, and there is no other
\* clause in the lists.
ListsComplete ==
    /\ \A c \in Alive :
        IF Cardinality(clauses[c]) = 2
        THEN \A l \in clauses[c] : \E w \in wlistBin[Negation(l)] : w[1] = c
        ELSE IsWatched(c)
    /\ \A l \in Lits : \A w \in wlistBin[l] : w[1] \in Alive
    /\ \A l \in Lits : \A w \in wlist[l] : w[1] \in Alive /\ w[2] \in clauses[w[1]]

\* The lists of the literal at index i of the trail were gone through.
GoneThrough(i) ==
    /\ pc \in {"propagate", "visit"} => i < ptr
    /\ pc \in {"conflict", "learn"} => Level(VarOf(trail[i])) < lvl

\* The literal b is true as long as l is, or is about to be.
Blocks(b, l) ==
    \/ LitStatus(b) = "Sat" /\ Level(VarOf(b)) <= Level(VarOf(l))
    \/ pc = "unify" /\ b = lit /\ lvl <= Level(VarOf(l))

\* The watchers of the literal at index i that were visited.
DoneBin(i) ==
    {w \in wlistBin[trail[i]] : GoneThrough(i) \/ (pc = "visit" /\ i = ptr /\ w \notin todoBin)}
Done(i) ==
    {w \in wlist[trail[i]] : GoneThrough(i) \/ (pc = "visit" /\ i = ptr /\ w \notin todo)}

\* Every watcher that was visited has a blocking literal that will be true as
\* long as the literal it watches is false.
WatchersBlocked ==
    status # "Unsat" =>
        \A i \in DOMAIN trail : \A w \in DoneBin(i) \union Done(i) : Blocks(w[2], trail[i])

\* Reasons are alive: long ones because they are locked, binary ones because
\* their LBD is too low for them to be removed.
LocksInv ==
    /\ ReasonsAlive
    /\ \A v \in Vars : reason[v] # Nil =>
        reason[v] \in locked \/ Cardinality(clauses[reason[v]]) = 2
    /\ \A c \in ClauseIds : Cardinality(clauses[c]) = 2 => lbd[c] <= 2

\* A clause of the client is held by the solver, may be shorter, or is true for
\* good.
Held(C) ==
    \/ \E c \in ClauseIds : lbd[c] = 0 /\ clauses[c] \subseteq C
    \/ /\ Assumable = {}
       /\ \/ status = "Unsat"
          \/ \E l \in C : LitStatus(l) = "Sat" /\ Level(VarOf(l)) = 1
          \/ pc = "unify" /\ ret = "append" /\ lit \in C

FormulaHeld == \A C \in formula : Held(C)

AssumedTrue == \A l \in assumed : LitStatus(l) = "Sat" /\ Level(VarOf(l)) = 1

\* The current level was opened by its decision, a new one is the next.
LevelsOpen ==
    /\ pc \in {"propagate", "visit", "conflict", "learn"} /\ lvl > 1 =>
        \E v \in Vars : Level(v) = lvl
    /\ pc = "unify" /\ lvl > 1 =>
        IF reason[VarOf(lit)] = Nil THEN lvl = 2 \/ \E v \in Vars : Level(v) = lvl - 1
        ELSE \E v \in Vars : Level(v) = lvl

\* The search starts when nothing refutes the question yet.
StatusInv ==
    /\ pc \in {"idle", "search"} => ret = "none"
    /\ pc # "idle" /\ ret \notin {"append", "assume"} => status = "Indet"

\* unwatchClause finds what it looks for: the only panic of reduceLearned is
\* that of an empty list of learned clauses.
PanicsWhenEmpty == pc = "panic" => learned = {}

CompleteInv ==
    /\ StatusInv /\ PanicsWhenEmpty
    /\ ListsComplete /\ WatchersBlocked /\ LocksInv /\ UnboundQueued
    /\ FormulaHeld /\ AssumedTrue /\ SatSound
    /\ OneDecisionPerLevel /\ LevelsOpen

Inv == IInv /\ CompleteInv

-----------------------------------------------------------------------------
(* What makes the certificate right.  A line may be added when no set of   *)
(* literals contradicts it that unit propagation of the lines before it    *)
(* leaves alone; all the solver knows holds in such sets.                  *)

\* What a checker may use: the clauses of the client and the lines so far.
Certified == formula \union Range(cert)

\* The sets of literals that unit propagation does not refute.
Unrefuted == {T \in SUBSET Lits : ~ Contradicts(Certified, T) /\ Closed(Certified, T)}

\* The set T does not falsify the clause C, and has what it implies.
Obeys(T, C) ==
    /\ \E l \in C : Negation(l) \notin T
    /\ \A l \in C : (\A k \in C \ {l} : Negation(k) \in T) => l \in T

\* They obey the clauses the solver holds, contain its facts and the one about
\* to be bound, and do not falsify the clause under construction.
RupInv ==
    \A T \in Unrefuted :
        /\ \A c \in ClauseIds : Obeys(T, clauses[c])
        /\ \A i \in DOMAIN trail : Level(VarOf(trail[i])) = 1 => trail[i] \in T
        /\ pc = "unify" /\ lvl = 1 /\ reason[VarOf(lit)] = Nil => lit \in T
        /\ pc = "learn" => \E l \in Resolvent : Negation(l) \notin T
=============================================================================
