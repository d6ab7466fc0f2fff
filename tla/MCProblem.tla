----------------------------- MODULE MCProblem ------------------------------
(***************************************************************************)
(* Instances of modules Problem, BoolFormula and MaxSat for TLC: sequences *)
(* of constraints out of small pools, formulas, and soft constraints.      *)
(***************************************************************************)
EXTENDS BoolFormula, MaxSat

Clause(lits) == [op |-> "AtLeast", lits |-> lits, weights |-> <<>>, n |-> 1]
Card(op, lits, n) == [op |-> op, lits |-> lits, weights |-> <<>>, n |-> n]
PB(op, weights, lits, n) == [op |-> op, lits |-> lits, weights |-> weights, n |-> n]

\* Repeated and opposite literals, units and the empty clause included.
ClausePool == {Clause(lits) : lits \in
    {<<>>, <<1>>, <<-1>>, <<3, 3>>, <<1, 2>>, <<-1, 2>>, <<-2, -3>>, <<2, -2, 3>>,
     <<2, 1, 2, 3, 1>>, <<-1, -2, -3>>, <<3, -1, 4>>}}

\* Chosen so that simplifyCard never meets a true literal in a constraint of
\* cardinality 2 that is not satisfied yet: TrueLiteral, below, shows why.
CardPool ==
    {Card("AtLeast", lits, 1) : lits \in {<<-1>>, <<-1, 4>>, <<-4, -3>>, <<-2, -2>>}}
    \union {Card("AtLeast", <<1, 2, 3>>, 2), Card("AtMost", <<-1, -2, -3>>, 1),
            Card("AtLeast", <<2, 3>>, 3), Card("AtLeast", <<-2, -3>>, 2), Card("AtMost", <<3, 4>>, 2),
            Card("AtLeast", <<4, -4, 1>>, 2)}

PBPool ==
    {PB("GtEq", <<3, 2, 2, 1>>, <<1, 2, 3, 4>>, 4), PB("GtEq", <<2, -1, 0, 1>>, <<-1, 2, 3, -4>>, 1),
     PB("GtEq", <<1, 1>>, <<-1, -2>>, 1), PB("GtEq", <<1, 1>>, <<1, 1>>, 2),
     PB("GtEq", <<1, 1>>, <<2, -2>>, 2),
     PB("LtEq", <<2, 3, -1>>, <<1, 3, 4>>, 2), PB("LtEq", <<1, 1, 1>>, <<2, 3, 4>>, 1),
     PB("Eq", <<1, 2, 1>>, <<2, 3, -4>>, 2), PB("Eq", <<1, -2>>, <<1, 4>>, -1),
     PB("AtMost", <<>>, <<1, 2, 3>>, 1), PB("AtLeast", <<>>, <<1, 2, 3, 4>>, 3)}

\* All the pairs, and the sequences of three out of some.
Given(parser, pool, core) ==
    {[parser |-> parser, constrs |-> cs, detect |-> FALSE] :
        cs \in UNION {[1 .. m -> pool] : m \in 0 .. 2} \union [1 .. 3 -> core]}

\* Two overlapping sets of pairs, found in an order in which removeBinaries
\* stops before the end; and pairs that make no set.
AtMostOnes ==
    {[parser |-> "cnf", detect |-> TRUE, constrs |-> cs] : cs \in
        {<<Clause(<<-1, -3>>), Clause(<<-2, -3>>), Clause(<<-1, 4>>), Clause(<<-1, -2>>),
           Clause(<<-2, 4>>)>>,
         <<Clause(<<1, 2>>), Clause(<<-1, -2>>), Clause(<<3, 4>>), Clause(<<1, 3, 4>>)>>}}

CoreClauses == {Clause(lits) : lits \in
    {<<-1>>, <<3, 3>>, <<1, 2>>, <<-2, -3>>, <<2, 1, 2, 3, 1>>}}

CorePB == {g \in PBPool : g.op # "GtEq" \/ Len(g.lits) = 4}

a == Variable(<<"var", "a">>)
b == Variable(<<"var", "b">>)
c == Variable(<<"var", "c">>)
d == Variable(<<"var", "d">>)
Op(op, f, g) == [op |-> op, subs |-> <<f, g>>]
Unique(names) == [op |-> "unique", names |-> [k \in DOMAIN names |-> <<"var", names[k]>>]]

\* Without constants as only operands, and without a disjunction that has a
\* conjunction in a disjunction in a conjunction: Nested, below, shows why.
FormulaPool ==
    {Op("eq", And(<<Or(<<a, Not(b)>>), Not(a)>>), b),
     Not(Op("implies", And(<<a, b>>), And(<<Or(<<c, Not(d)>>), Not(Op("xor", a, b))>>))),
     Op("xor", Op("xor", a, b), c),
     Not(Op("eq", a, Or(<<b, And(<<c, Not(Not(d))>>)>>))),
     And(<<Or(<<a, b, b>>), True, Not(Or(<<b, Not(a)>>)), Or(<<c, False, d>>)>>),
     Or(<<And(<<a, Not(a)>>), And(<<b, Not(Not(Not(b)))>>)>>),
     Or(<<a, True>>), And(<<False, b>>), Not(And(<<a, Or(<<b, And(<<c, d>>)>>)>>)),
     Unique(<<"a", "b">>),
     And(<<a, Unique(<<"a", "b", "c">>)>>),
     And(<<Op("implies", a, b), Op("xor", a, b), Unique(<<"a", "b", "c">>)>>),
     And(<<Not(Or(<<a, b, c>>)), Unique(<<"a", "b", "c">>)>>)}

x == NameLit("x")
y == NameLit("y")
z == NameLit("z")

\* Coefficients are positive: Negative, below, shows why.
MaxSatPool ==
    {<<HardClause(<<x, y>>), WeightedClause(<<NotName("x")>>, 2), WeightedClause(<<NotName("y"), z>>, 1)>>,
     <<WeightedClause(<<x>>, 1), WeightedClause(<<NotName("x")>>, 1), WeightedClause(<<x, x>>, 3)>>,
     <<Constr(<<x, y, z>>, <<3, 2, 1>>, 4, 0), Constr(<<NotName("x"), y>>, <<2, 1>>, 2, 3),
       Constr(<<NotName("y"), NotName("z")>>, <<1, 1>>, 2, 2)>>,
     <<HardClause(<<x>>), HardClause(<<NotName("x")>>), WeightedClause(<<y>>, 1)>>,
     <<Constr(<<x, NotName("y"), z>>, <<2, 2, 1>>, 3, 1), HardClause(<<NotName("x"), y>>),
       Constr(<<y, z>>, <<1, 2>>, 4, 2)>>}

MCInputs ==
    Given("cnf", ClausePool, CoreClauses) \union Given("slice", ClausePool, CoreClauses)
    \union Given("card", CardPool, CardPool \ {Card("AtMost", <<3, 4>>, 2)})
    \union Given("pb", PBPool, CorePB)
    \union {g \in Given("opb", PBPool, {}) :
               ~ Disagree(Parsed(g)) /\ \A k \in DOMAIN Constraints(g) : Constraints(g)[k].card > 0}
    \union AtMostOnes \union {FormulaInput(f) : f \in FormulaPool}
    \union {MaxSatInput(cs) : cs \in MaxSatPool}

\* 1, and two of 1, 2 and 3.
TrueLiteral ==
    {[parser |-> "card", detect |-> FALSE,
      constrs |-> <<Card("AtLeast", <<1>>, 1), Card("AtLeast", <<1, 2, 3>>, 2)>>]}

\* a, or b with (c, or both b and d): of the clauses for the latter only the
\* first depends on the whole.
Nested ==
    {FormulaInput(And(<<Or(<<a, And(<<b, Or(<<c, And(<<b, d>>)>>)>>)>>), Not(c), Not(d)>>))}

\* Preferably not both x and y.
Negative ==
    {MaxSatInput(<<HardClause(<<x>>), HardClause(<<y>>), Constr(<<x, y>>, <<-1, -1>>, -1, 1)>>)}

\* At most one of 1, 2 and 3, by pairs.
OnePerPair ==
    {[parser |-> "cnf", detect |-> TRUE,
      constrs |-> <<Clause(<<-1, -2>>), Clause(<<-1, -3>>), Clause(<<-2, -3>>)>>]}

\* Of each of these a constraint is lost.
Losing == TrueLiteral \union OnePerPair
=============================================================================
