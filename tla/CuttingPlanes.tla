--------------------------- MODULE CuttingPlanes ----------------------------
(***************************************************************************)
(* Conflict analysis with cutting planes (solver/learn_pb.go, and          *)
(* SimplifyPB of solver/clause.go): the falsified constraint is added to   *)
(* the reasons of its false literals, the last one first, until only one   *)
(* literal of the current level is false.                                  *)
(*                                                                         *)
(* One step per turn of the outer loop.  A pbSet gives its weight to every *)
(* variable, negative when it stands for the negative literal.  On its way *)
(* down the trail the code unbinds variables in the model and leaves them  *)
(* on the trail, which cleanupBindings relies on.                          *)
(***************************************************************************)
EXTENDS PBWatcher

VARIABLES
    cut,        \* the constraint being computed: weights and card
    cutPtr      \* cuttingPlanes's ptr in the trail

cutVars == <<cut, cutPtr>>

NoCut == [weights |-> [v \in Vars |-> 0], card |-> 0]

\* The constraint c as a pbSet; a clause weighs 1 everywhere.
PbSet(c) ==
    LET weightOf(l) ==
            IF c \in DOMAIN pbs
            THEN Weight(c, {i \in Idx(c) : LitAt(c, i) = l})
            ELSE IF l \in clauses[c] THEN 1 ELSE 0
    IN [weights |-> [v \in Vars |-> weightOf(SignedLit(v, FALSE)) - weightOf(SignedLit(v, TRUE))],
        card |-> IF c \in DOMAIN pbs THEN pbs[c].card ELSE 1]

\* The negation of l appears in p.
Falsifies(p, l) ==
    IF IsPositive(l) THEN p.weights[VarOf(l)] < 0 ELSE p.weights[VarOf(l)] > 0

-----------------------------------------------------------------------------
(* Operations on pbSets.                                                   *)

\* Go divides towards zero.
Quotient(n, d) == IF n >= 0 THEN n \div d ELSE -((-n) \div d)

RoundedUp(n, d) == IF n % d = 0 THEN n \div d ELSE Quotient(n, d) + 1

\* Variant for TLC: the weights are not rounded.
DivideByDown(p, d) ==
    [weights |-> [v \in Vars |-> Quotient(p.weights[v], d)], card |-> RoundedUp(p.card, d)]

DivideBy(p, d) ==
    [weights |-> [v \in Vars |->
        IF p.weights[v] >= 0 THEN RoundedUp(p.weights[v], d) ELSE -RoundedUp(-p.weights[v], d)],
     card |-> RoundedUp(p.card, d)]

\* Variant for TLC: the bindings are not looked at.
WeakenedAll(p, d, m) == {v \in Vars : p.weights[v] % d # 0}

\* The variables roundToOne drops: their literal is not false.
Weakened(p, d, m) ==
    {v \in Vars : p.weights[v] % d # 0 /\ (m[v] = 0 \/ (m[v] > 0) = (p.weights[v] > 0))}

\* p under the bindings m, with a weight of 1 for v.
RoundToOne(p, v, m) ==
    LET d == Abs(p.weights[v])
        W == Weakened(p, d, m)
        weakened == [weights |-> [u \in Vars |-> IF u \in W THEN 0 ELSE p.weights[u]],
                     card |-> p.card - SumOf([u \in Vars |-> Abs(p.weights[u])], W)]
    IN IF d = 1 THEN p ELSE DivideBy(weakened, d)

\* The sum of p and q: what cancels out is taken from the cardinality.
Clash(p, q) ==
    LET opposite == {v \in Vars : p.weights[v] * q.weights[v] < 0}
        smaller == [v \in Vars |-> Min({Abs(p.weights[v]), Abs(q.weights[v])})]
    IN [weights |-> [v \in Vars |-> p.weights[v] + q.weights[v]],
        card |-> p.card + q.card - SumOf(smaller, opposite)]

-----------------------------------------------------------------------------
(* The loop of cuttingPlanes.                                              *)

\* The literals the cut falsifies among the last ones of the trail, down to the
\* first that is of another level.
LastFalsified ==
    {trail[i] : i \in {j \in 1 .. cutPtr :
        Falsifies(cut, trail[j]) /\ \A k \in j .. cutPtr : Level(VarOf(trail[k])) = lvl}}

OnlyFalsified == Cardinality(LastFalsified) = 1

Falsified == {i \in 1 .. cutPtr : Falsifies(cut, trail[i])}

StartCut(c) ==
    /\ cut' = PbSet(c)
    /\ cutPtr' = Len(trail)

\* lvl is lowered for each decision passed, down to any number; this bound for
\* TLC stops where nothing else changes any more.
LowerLvl(n) == IF lvl - n < 0 THEN 0 ELSE lvl - n

\* The inner loop goes down to the next literal the cut falsifies, and unbinds
\* the others.  What it does to the cut follows.
WalkDown(k) ==
    LET v == VarOf(trail[k])
        passed == {VarOf(trail[i]) : i \in k + 1 .. cutPtr}
        m == [u \in Vars |-> IF u \in passed THEN 0 ELSE model[u]]
        decided == {u \in passed \union {v} : reason[u] = Nil}
        rounded == RoundToOne(cut, v, m)
    IN
    /\ model' = m
    /\ lvl' = LowerLvl(Cardinality(decided))
    /\ cutPtr' = k
    /\ cut' = IF reason[v] = Nil THEN rounded
              ELSE Clash(rounded, RoundToOne(PbSet(reason[v]), v, m))

-----------------------------------------------------------------------------
(* The constraint learned.                                                 *)

\* Variant for TLC: the lowest of these levels.
LowestLevel(p, v) ==
    Min({lvl} \union {Level(u) : u \in {w \in Vars \ {v} : p.weights[w] # 0 /\ model[w] # 0}})

\* backtrackLevel: the highest level of the other variables but that of v.
BacktrackLevel(p, v) ==
    Max({1} \union {Level(u) : u \in {w \in Vars \ {v} : p.weights[w] # 0 /\ Level(w) # Level(v)}})

\* The literals of p, the heaviest first: NewPBClause sorts them.
LitOf(p, v) == SignedLit(v, p.weights[v] < 0)

Sorted(V, before(_, _)) ==
    [k \in 1 .. Cardinality(V) |->
        CHOOSE v \in V : Cardinality({u \in V \ {v} : before(u, v)}) = k - 1]

Heaviest(V, weight) ==
    Sorted(V, LAMBDA u, v : weight[u] > weight[v] \/ (weight[u] = weight[v] /\ u < v))

\* SimplifyPB, on the constraint made of p.
Threshold(p) == SumOf([v \in Vars |-> Abs(p.weights[v])], Vars) - p.card

Units(p) == {v \in Vars : Abs(p.weights[v]) > Threshold(p)}

UnitLits(p) ==
    LET vs == Heaviest(Units(p), [v \in Vars |-> Abs(p.weights[v])]) IN
    [i \in DOMAIN vs |-> LitOf(p, vs[i])]

\* The constraint that is kept when there are no units: only the first weight
\* is lowered to the cardinality.
Simplified(p) ==
    LET weight == [v \in Vars |-> Abs(p.weights[v])]
        present == {v \in Vars : weight[v] # 0}
        first == Heaviest(present, weight)[1]
        lowered == [weight EXCEPT ![first] = Min({@, p.card})]
        vs == Sorted(present, LAMBDA u, v :
                \/ lowered[u] > lowered[v]
                \/ lowered[u] = lowered[v] /\ v # first /\ (u = first \/ u < v))
    IN NewConstraint([i \in DOMAIN vs |-> LitOf(p, vs[i])],
                     [i \in DOMAIN vs |-> lowered[vs[i]]], p.card, TRUE)
=============================================================================
