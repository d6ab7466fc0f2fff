------------------------------ MODULE PBSafety ------------------------------
(***************************************************************************)
(* What makes the search of module PBSolver correct.                       *)
(***************************************************************************)
EXTENDS PBSolver, SolverInvariant

-----------------------------------------------------------------------------
(* Reference semantics: what an assignment of all the variables satisfies. *)

Meets(a, b) ==
    SumOf(b.weights, {i \in DOMAIN b.lits : Holds(a, b.lits[i])}) >= b.card

Solutions == {a \in Assignments : \A b \in problem : Meets(a, b)}

\* The weights of p for the literals that S does not contradict.
NotContradicted(p, S) ==
    SumOf([v \in Vars |-> Abs(p.weights[v])], {v \in Vars : Negation(LitOf(p, v)) \notin S})

MeetsCut(a, p) ==
    NotContradicted(p, {l \in Lits : Holds(a, l)}) >= p.card

-----------------------------------------------------------------------------
(* The answers.                                                            *)

\* When Solve answers Sat, the model it keeps binds every variable and
\* satisfies every clause and constraint given so far, with their weights.
SatMeetsAll ==
    result = "Sat" =>
        /\ \A v \in Vars : lastModel[v] # 0
        /\ [v \in Vars |-> lastModel[v] > 0] \in Solutions

\* Solve answers Unsat only when nothing satisfies them all: what setUnsat and
\* cuttingPlanes take for a conflict of the top level is one.
UnsatHasNoSolution == result = "Unsat" => Solutions = {}

\* This holds of a solver that learns clauses.  A cut that is falsified by the
\* decisions of several levels may be taken for a conflict of the top level.
ClausesUnsatSound == ~ cutting => UnsatHasNoSolution

\* A call ends: no wrong cut or restart makes the search go round for ever.
PBCallsReturn == [](pc # "idle" => <>(pc = "idle"))

-----------------------------------------------------------------------------
(* The watch lists.                                                        *)

\* A constraint is in the list of each of its watched literals, once, and in no
\* other: removeFrom and unwatchPB would run off the end of a list, or
\* propagation would miss a literal that becomes false.  A learned constraint
\* that was removed is in no list.
ConstraintsWatched ==
    \A c \in DOMAIN pbs, l \in Lits :
        Cardinality({k \in DOMAIN wlistPb[l] : wlistPb[l][k] = c}) =
            IF c \in Alive /\ Negation(l) \in LitsAt(c, Watched(pbs[c])) THEN 1 ELSE 0

\* When propagate returns nil, the constraints given can still be satisfied, and
\* a cardinality constraint that needs all its free literals has none unbound:
\* whatever was removed from the lists that were being visited.  (The conflict
\* that made the answer Unsat final stays on the trail.)
NothingMissed ==
    Propagated /\ status # "Unsat" =>
        \A c \in DOMAIN pbs : lbd[c] = 0 =>
            /\ Slack(c) >= 0
            /\ ~ pbs[c].pb /\ Slack(c) = 0 => UnboundIdx(c) = {}

-----------------------------------------------------------------------------
(* The bindings.                                                           *)

\* What was false before position i of the trail.
FalseBefore(i) == {Negation(trail[j]) : j \in 1 .. i - 1}

\* The literals T are enough for the constraint or clause c.
Enough(T, c) ==
    IF c \in DOMAIN pbs
    THEN Weight(c, {k \in Idx(c) : LitAt(c, k) \in T}) >= pbs[c].card
    ELSE T \cap clauses[c] # {}

\* It implies l once the literals F are false: without l, what is left is not
\* enough.
ImpliedBy(c, l, F) == l \in clauses[c] /\ ~ Enough(Lits \ (F \union {l}), c)

\* Units that contradict each other were bound one after the other.
Contradictory == \E i, j \in DOMAIN trail : trail[i] = Negation(trail[j])

\* The reason of a literal of the trail implied it, by what was false before.
\* Conflict analysis reads the constraint much later, when more literals are
\* false.
PBReasonsImply ==
    ~ Contradictory =>
        \A i \in DOMAIN trail :
            LET r == reason[VarOf(trail[i])] IN
            r # Nil => ImpliedBy(r, trail[i], FalseBefore(i))

-----------------------------------------------------------------------------
(* Cutting planes.                                                         *)

\* The constraint being computed follows from those given and is false under
\* what is left of the trail, after any number of roundings and clashes: or a
\* wrong constraint is learned, or the search for a literal it falsifies runs
\* past the start of the trail.
CutFollows ==
    pc = "cut" =>
        /\ \A a \in Solutions : MeetsCut(a, cut)
        /\ NotContradicted(cut, {trail[i] : i \in 1 .. cutPtr}) < cut.card

\* Once the search is back at a lower level, the constraint learned implies the
\* literal that is about to be bound.
CutAsserts ==
    pc = "unify" /\ ret = "cut" =>
        LET c == reason[VarOf(lit)] IN
        /\ LitStatus(lit) = "Indet"
        /\ Slack(c) >= 0
        /\ Weight(c, {i \in Idx(c) : LitAt(c, i) = lit}) > Slack(c)

\* Nothing is read past the end of a constraint or the start of the trail, and
\* no constraint is made of a cardinality below 1.
PBNoPanic == pc # "panic"

-----------------------------------------------------------------------------
(* The inductive invariant behind ClausesUnsatSound, PBReasonsImply and    *)
(* CutFollows: whatever the search holds follows from what was given.      *)

\* It says nothing of problems without solution: then units that contradict
\* each other may be bound.  Nor once Unsat was answered.
Live == Solutions # {} /\ status # "Unsat" /\ pc # "panic"

Follows(l) == \A a \in Solutions : Holds(a, l)

PBTypeOK ==
    /\ model \in [Vars -> Int] /\ trail \in Seq(Lits)
    /\ reason \in [Vars -> {Nil} \union ClauseIds]
    /\ polarity \in [Vars -> BOOLEAN] /\ queue \subseteq Vars
    /\ clauses \in Seq(Clauses)
    /\ watched \in Seq(Lits \X Lits) /\ Len(watched) = Len(clauses)
    /\ wlistBin \in [Lits -> SUBSET Watchers] /\ wlist \in [Lits -> SUBSET Watchers]
    /\ DOMAIN pbs \subseteq ClauseIds /\ pbs \in [DOMAIN pbs -> Constraints]
    /\ wlistPb \in [Lits -> Seq(DOMAIN pbs)]
    /\ visiting \in Seq(DOMAIN pbs) /\ pos \in Nat \ {0}
    /\ ptr \in Nat \ {0} /\ lvl \in Nat
    /\ todoBin \subseteq Watchers /\ todo \subseteq Watchers
    /\ lit \in {NoLit} \union Lits /\ pending \in Seq(Lits)
    /\ met \subseteq Vars /\ metLvl \subseteq Vars /\ lits \in Clauses
    /\ nbLvl \in Int /\ walk \in Int /\ assumptions = {}
    /\ cut \in [weights : [Vars -> Int], card : Int] /\ cutPtr \in Nat

\* The trail up to n is what is bound: oldest levels first, no variable twice
\* above level 1.  Cutting planes unbind the rest, down to a higher level.
TrailBound(n) ==
    /\ n \in 0 .. Len(trail)
    /\ \A i \in 1 .. n : LitStatus(trail[i]) = "Sat"
    /\ \A i \in n + 1 .. Len(trail) : model[VarOf(trail[i])] = 0
    /\ n < Len(trail) => n > 0 /\ Level(VarOf(trail[n])) > 1
    /\ \A v \in Vars : model[v] # 0 => \E i \in 1 .. n : VarOf(trail[i]) = v
    /\ \A i, j \in 1 .. n : i <= j => Level(VarOf(trail[i])) <= Level(VarOf(trail[j]))
    /\ \A i, j \in 1 .. n :
        VarOf(trail[i]) = VarOf(trail[j]) /\ i # j => Level(VarOf(trail[i])) = 1
    /\ \A i, j \in 1 .. n :
        Level(VarOf(trail[i])) > 1 /\ reason[VarOf(trail[i])] = Nil /\ j < i =>
            Level(VarOf(trail[j])) < Level(VarOf(trail[i]))

\* Only what was unbound since it was propagated, or is about to be bound, has a
\* reason without a level.
ReasonsBound(n) ==
    \A v \in Vars : model[v] = 0 /\ reason[v] # Nil =>
        \/ pc = "unify" /\ v = VarOf(lit)
        \/ \E i \in n + 1 .. Len(trail) : VarOf(trail[i]) = v

FactsFollow == \A i \in DOMAIN trail : Level(VarOf(trail[i])) = 1 => Follows(trail[i])

ReasonsHold ==
    \A i \in DOMAIN trail :
        reason[VarOf(trail[i])] # Nil =>
            ImpliedBy(reason[VarOf(trail[i])], trail[i], FalseBefore(i))

BindingsOK ==
    /\ \E n \in 0 .. Len(trail) :
        /\ TrailBound(n) /\ ReasonsBound(n)
        /\ pc \in {"cut", "learned"} => n = cutPtr
        /\ pc \notin {"cut", "learned", "bind"} => n = Len(trail)
    /\ FactsFollow /\ ReasonsHold

\* What the solver holds follows from what was given.
DatabaseOK ==
    /\ \A c \in DOMAIN pbs :
        LET b == pbs[c] IN
        /\ Len(b.weights) = Len(b.lits) /\ clauses[c] = Range(b.lits)
        /\ \A i, j \in DOMAIN b.lits : VarOf(b.lits[i]) = VarOf(b.lits[j]) => i = j
        /\ ~ b.pb => b.card + 1 <= Len(b.lits) /\ \A i \in DOMAIN b.weights : b.weights[i] = 1
    /\ \A c \in ClauseIds, a \in Solutions : Enough({l \in Lits : Holds(a, l)}, c)

\* What is in a list has the falsified literal; clauses as in ListsInv.
PBListsInv ==
    /\ \A c \in ClauseIds \ DOMAIN pbs :
        /\ watched[c][1] \in clauses[c] /\ watched[c][2] \in clauses[c]
        /\ watched[c][1] # watched[c][2]
    /\ \A l \in Lits : \A w \in wlistBin[l] :
        w[1] \notin DOMAIN pbs /\ clauses[w[1]] = {Negation(l), w[2]}
    /\ \A l \in Lits : \A w \in wlist[l] :
        /\ w[1] \notin DOMAIN pbs
        /\ Negation(l) \in {watched[w[1]][1], watched[w[1]][2]}
        /\ \A x \in wlist[l] : x[1] = w[1] => x = w
    /\ \A l \in Lits : \A c \in Range(wlistPb[l]) : Negation(l) \in clauses[c]

PBVisitInv ==
    /\ pc \in {"propagate", "visit", "pb"} =>
        \A i \in DOMAIN trail : i >= ptr => Level(VarOf(trail[i])) = lvl
    /\ pc \in {"visit", "pb"} => ptr \in DOMAIN trail
    /\ pc = "visit" => todoBin \subseteq wlistBin[trail[ptr]] /\ todo \subseteq wlist[trail[ptr]]
    /\ pc = "pb" => \A c \in Range(visiting) : Negation(trail[ptr]) \in clauses[c]
    /\ pc = "conflict" =>
        /\ confl \in ClauseIds
        /\ ~ Enough({l \in Lits : ~ IsFalse(l)}, confl)
        /\ \E l \in clauses[confl] : IsFalse(l) /\ Level(VarOf(l)) = lvl

PBLevelsInv ==
    /\ pc \in {"unify", "propagate", "visit", "pb", "conflict", "learn"} =>
        lvl >= 1 /\ \A v \in Vars : Level(v) <= lvl
    /\ pc \in {"search", "idle"} => (\A v \in Vars : Level(v) <= 1) \/ queue = {}
    /\ pc \in {"unify", "propagate", "visit", "pb", "conflict"} /\ ret \notin {"branch", "cut"} => lvl = 1

\* The literal about to be bound: a decision, a fact that may be bound already,
\* or the consequence of what was learned.
PBUnifyInv ==
    /\ pc = "unify" =>
        LET r == reason[VarOf(lit)] IN
        /\ lit \in Lits
        /\ model[VarOf(lit)] # 0 => lvl = 1
        /\ lvl = 1 /\ (r = Nil \/ model[VarOf(lit)] # 0) => Follows(lit)
        /\ lvl > 1 /\ r = Nil => \A v \in Vars : Level(v) < lvl
        /\ model[VarOf(lit)] = 0 /\ r # Nil => ImpliedBy(r, lit, {l \in Lits : IsFalse(l)})
    /\ pc = "bind" => pending # <<>>
    /\ \A k \in DOMAIN pending : Follows(pending[k])

\* As in LearnInv; a problem with solutions has no conflict at level 1.
PBLearnInv ==
    pc = "learn" =>
        /\ lvl > 1 /\ walk \in 0 .. Len(trail)
        /\ nbLvl = Cardinality(Pending) /\ nbLvl >= 1
        /\ metLvl \subseteq met /\ \A v \in metLvl : Level(v) = lvl
        /\ \A l \in lits : IsFalse(l) /\ Level(VarOf(l)) < lvl
        /\ \A i \in 1 .. walk :
            VarOf(trail[i]) \in met => VarOf(trail[i]) \in metLvl \/ Negation(trail[i]) \in lits
        /\ \A i \in walk + 1 .. Len(trail) : Level(VarOf(trail[i])) = lvl => VarOf(trail[i]) \in met
        /\ \A v \in met : model[v] # 0 /\ (Level(v) < lvl => \E l \in lits : VarOf(l) = v)
        /\ \A a \in Solutions : SatClause(a, Resolvent)

\* The constraint follows from those given and is false: before it is learned,
\* because of one literal above the level to go back to.
CutInv ==
    /\ pc \in {"cut", "learned"} =>
        /\ \A a \in Solutions : MeetsCut(a, cut)
        /\ NotContradicted(cut, {trail[i] : i \in 1 .. cutPtr}) < cut.card
    /\ pc = "learned" =>
        /\ lit \in Lits /\ lit = LitOf(cut, VarOf(lit)) /\ Abs(cut.weights[VarOf(lit)]) = 1
        /\ IsFalse(lit)
        /\ cutPtr > 0 /\ 1 <= lvl /\ lvl < Level(VarOf(trail[cutPtr]))
        /\ Level(VarOf(lit)) > lvl
        /\ \A v \in Vars \ {VarOf(lit)} :
            cut.weights[v] # 0 /\ IsFalse(LitOf(cut, v)) => Level(v) <= lvl

LiveInv ==
    /\ PBTypeOK /\ BindingsOK /\ DatabaseOK
    /\ PBListsInv /\ PBVisitInv /\ PBLevelsInv /\ PBUnifyInv /\ PBLearnInv /\ CutInv

StatusUnsat ==
    /\ result = "Unsat" => status = "Unsat"
    /\ status = "Unsat" => pc = "idle" \/ ret = "append"
    /\ status = "Unsat" /\ ~ cutting => Solutions = {}
    /\ pc \in {"idle", "search"} => ret = "none"
    /\ pc \in {"cut", "learned", "learn"} => ret \in {"branch", "cut"}
    /\ cutting \/ (pc \notin {"cut", "learned"} /\ ret \notin {"units", "cut"})

PBInv == StatusUnsat /\ (Live => LiveInv)
=============================================================================
