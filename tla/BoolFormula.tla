---------------------------- MODULE BoolFormula -----------------------------
(***************************************************************************)
(* Package bf: any boolean formula, its negation normal form, and the      *)
(* clauses that are handed to ParseSlice, the models of which Solve        *)
(* returns.  Module Problem goes on from there.                            *)
(*                                                                         *)
(* A client's formula is a record of its operator and its operands; names  *)
(* are <<"var", name>>, the dummy variables of Unique and of the           *)
(* translation <<"line", ..>>, <<"col", ..>> and <<"dummy", index>>.       *)
(***************************************************************************)
EXTENDS Problem

CONSTANT SmallUnique    \* Unique compares all pairs up to this number, 4

RECURSIVE UniqueRec(_), Build(_), Nnf(_), CnfRec(_, _), Meaning(_, _)

True == [op |-> "true"]
False == [op |-> "false"]
Variable(v) == [op |-> "variable", v |-> v]
Literal(v, signed) == [op |-> "lit", v |-> v, signed |-> signed]
Not(f) == [op |-> "not", subs |-> <<f>>]
And(subs) == [op |-> "and", subs |-> subs]
Or(subs) == [op |-> "or", subs |-> subs]

-----------------------------------------------------------------------------
(* Constructors.                                                           *)

Implies(f, g) == Or(<<Not(f), g>>)

Equal(f, g) == And(<<Or(<<Not(f), g>>), Or(<<f, Not(g)>>)>>)

Xor(f, g) == And(<<Or(<<Not(f), Not(g)>>), Or(<<f, g>>)>>)

\* The pairs i < j, by i first.
Pairs(n) ==
    FoldLeft(LAMBDA s, a : s \o [b \in 1 .. n - a |-> <<a, a + b>>], <<>>, [a \in 1 .. n |-> a])

UniqueSmall(names) ==
    LET pair(p) == Or(<<Not(Variable(names[p[1]])), Not(Variable(names[p[2]]))>>)
        pairs == Pairs(Len(names))
    IN  And(<<Or([k \in DOMAIN names |-> Variable(names[k])])>>
            \o [k \in DOMAIN pairs |-> pair(pairs[k])])

\* int(sqrt(n) + 0.5) and ceil(sqrt(n)).
NbLines(n) == Max({k \in 1 .. n : (2 * k - 1) * (2 * k - 1) <= 4 * n})
NbCols(n) == Min({k \in 1 .. n : k * k >= n})

\* The names on line, or column, k of the grid.
OnLine(names, k) ==
    SelectSeq(names, LAMBDA x : \E m \in DOMAIN names :
        names[m] = x /\ (m - 1) \div NbCols(Len(names)) = k)
OnCol(names, k) ==
    SelectSeq(names, LAMBDA x : \E m \in DOMAIN names :
        names[m] = x /\ (m - 1) % NbCols(Len(names)) = k)

\* Exactly one line and one column of the grid have a true variable.
UniqueRec(names) ==
    LET n == Len(names)
        lines == [k \in 1 .. NbLines(n) |-> <<"line", k - 1, names>>]
        cols == [k \in 1 .. NbCols(n) |-> <<"col", k - 1, names>>]
        AnyOf(xs) == Or([k \in DOMAIN xs |-> Variable(xs[k])])
    IN  IF n <= SmallUnique THEN UniqueSmall(names)
        ELSE And([k \in DOMAIN lines |-> Equal(Variable(lines[k]), AnyOf(OnLine(names, k - 1)))]
                 \o [k \in DOMAIN cols |-> Equal(Variable(cols[k]), AnyOf(OnCol(names, k - 1)))]
                 \o <<UniqueRec(lines), UniqueRec(cols)>>)

\* The formula a client builds: its operators may also be "implies", "eq", "xor",
\* on two operands, and "unique", on names.
Build(f) ==
    CASE f.op \in {"true", "false", "variable"} -> f
      [] f.op \in {"not", "and", "or"} -> [f EXCEPT !.subs = [k \in DOMAIN @ |-> Build(@[k])]]
      [] f.op = "implies" -> Implies(Build(f.subs[1]), Build(f.subs[2]))
      [] f.op = "eq" -> Equal(Build(f.subs[1]), Build(f.subs[2]))
      [] f.op = "xor" -> Xor(Build(f.subs[1]), Build(f.subs[2]))
      [] f.op = "unique" -> UniqueRec(f.names)

-----------------------------------------------------------------------------
(* Negation normal form.                                                   *)

\* Operands with the same operator are joined, neutral constants left out; a
\* constant decides alone, and so does, in the code, having no operand left.
Joined(op, subs) ==
    LET neutral == IF op = "and" THEN "true" ELSE "false"
        decisive == IF op = "and" THEN False ELSE True
        kept == FoldLeft(LAMBDA s, f : s \o (IF f.op = op THEN f.subs
                                             ELSE IF f.op = neutral THEN <<>> ELSE <<f>>),
                         <<>>, subs)
    IN  IF kept = <<>> \/ Contains(subs, decisive) THEN decisive
        ELSE IF Len(kept) = 1 THEN kept[1]
        ELSE [op |-> op, subs |-> kept]

Dual(op) == IF op = "and" THEN "or" ELSE "and"

Nnf(f) ==
    CASE f.op \in {"true", "false", "lit"} -> f
      [] f.op = "variable" -> Literal(f.v, FALSE)
      [] f.op \in {"and", "or"} -> Joined(f.op, [k \in DOMAIN f.subs |-> Nnf(f.subs[k])])
      [] f.op = "not" ->
            LET g == f.subs[1] IN
            CASE g.op = "variable" -> Literal(g.v, TRUE)
              [] g.op = "lit" -> [g EXCEPT !.signed = ~ @]
              [] g.op = "not" -> Nnf(g.subs[1])
              [] g.op = "true" -> False
              [] g.op = "false" -> True
              [] g.op \in {"and", "or"} ->
                    Nnf([op |-> Dual(g.op),
                         subs |-> [k \in DOMAIN g.subs |-> Nnf(Not(g.subs[k]))]])

-----------------------------------------------------------------------------
(* Clauses.  vars.all is the sequence of the variables, an index being the *)
(* place in it; vars.pb has those that litValue added.                     *)

NoVars == [all |-> <<>>, pb |-> {}]

WithVar(vars_, v) ==
    IF Contains(vars_.all, v) THEN vars_
    ELSE [all |-> Append(vars_.all, v), pb |-> vars_.pb \union {v}]

IndexOfVar(vars_, v) == CHOOSE k \in DOMAIN vars_.all : vars_.all[k] = v

\* litValue, in the variables it leaves.
LitValue(vars_, l) ==
    IF l.signed THEN -IndexOfVar(vars_, l.v) ELSE IndexOfVar(vars_, l.v)

WithDummy(vars_) ==
    [vars_ EXCEPT !.all = Append(@, <<"dummy", Len(@) + 1>>)]

\* Variant for TLC: the dummy variable is not implied by anything.
GuardedNot(cnf, d) == cnf

\* cnf[0] = append(cnf[0], -d): what follows the first clause is not guarded.
Guarded(cnf, d) == [cnf EXCEPT ![1] = Append(@, -d)]

\* An operand of a disjunction: a literal, or a conjunction and its dummy.
Disjunct(acc, f) ==
    IF f.op = "lit"
    THEN LET v == WithVar(acc.vars, f.v)
         IN  [acc EXCEPT !.vars = v, !.lits = Append(@, LitValue(v, f))]
    ELSE LET v == WithDummy(acc.vars)
             d == Len(v.all)
             Step(a, g) == LET r == CnfRec(g, a.vars)
                           IN  [a EXCEPT !.clauses = @ \o Guarded(r.clauses, d), !.vars = r.vars]
         IN  FoldLeft(Step, [acc EXCEPT !.vars = v, !.lits = Append(@, d)], f.subs)

CnfRec(f, vars_) ==
    CASE f.op = "lit" ->
            LET v == WithVar(vars_, f.v) IN [clauses |-> << <<LitValue(v, f)>> >>, vars |-> v]
      [] f.op = "and" ->
            LET Step(acc, g) == LET r == CnfRec(g, acc.vars)
                                IN  [clauses |-> acc.clauses \o r.clauses, vars |-> r.vars]
            IN  FoldLeft(Step, [clauses |-> <<>>, vars |-> vars_], f.subs)
      [] f.op = "or" ->
            LET r == FoldLeft(Disjunct, [clauses |-> <<>>, lits |-> <<>>, vars |-> vars_], f.subs)
            IN  [clauses |-> Append(r.clauses, r.lits), vars |-> r.vars]
      [] f.op = "true" -> [clauses |-> <<>>, vars |-> vars_]
      [] f.op = "false" -> [clauses |-> << <<>> >>, vars |-> vars_]

AsCnf(f) == CnfRec(Nnf(Build(f)), NoVars)

\* What Solve gives to ParseSlice, and what it needs to name the bindings.
FormulaInput(f) ==
    LET cnf == AsCnf(f) IN
    [parser |-> "slice", detect |-> FALSE,
     constrs |-> [k \in DOMAIN cnf.clauses |->
        [op |-> "AtLeast", lits |-> cnf.clauses[k], weights |-> <<>>, n |-> 1]],
     formula |-> f, vars |-> cnf.vars]

-----------------------------------------------------------------------------
(* What a client relies on.                                                *)

RECURSIVE NamesIn(_)

NamesIn(f) ==
    CASE f.op \in {"true", "false"} -> {}
      [] f.op = "variable" -> {f.v}
      [] f.op = "unique" -> ToSet(f.names)
      [] OTHER -> UNION {NamesIn(f.subs[k]) : k \in DOMAIN f.subs}

\* The documented meaning, under m from names to BOOLEAN.
Meaning(f, m) ==
    CASE f.op = "true" -> TRUE
      [] f.op = "false" -> FALSE
      [] f.op = "variable" -> m[f.v]
      [] f.op = "not" -> ~ Meaning(f.subs[1], m)
      [] f.op = "and" -> \A k \in DOMAIN f.subs : Meaning(f.subs[k], m)
      [] f.op = "or" -> \E k \in DOMAIN f.subs : Meaning(f.subs[k], m)
      [] f.op = "implies" -> Meaning(f.subs[1], m) => Meaning(f.subs[2], m)
      [] f.op = "eq" -> Meaning(f.subs[1], m) <=> Meaning(f.subs[2], m)
      [] f.op = "xor" -> Meaning(f.subs[1], m) # Meaning(f.subs[2], m)
      [] f.op = "unique" -> Cardinality({k \in DOMAIN f.names : m[f.names[k]]}) = 1

ProblemModels ==
    {a \in [{k - 1 : k \in DOMAIN given.vars.all} -> BOOLEAN] :
        /\ status # "Unsat"
        /\ \A k \in DOMAIN units : Holds(a, units[k])
        /\ \A k \in DOMAIN clauses : SatConstr(a, clauses[k])}

\* Solve of package bf, on the problem simplified: whatever model the solver
\* finds, the bindings returned make the formula true, also when a name that
\* is not among them takes any value; and nil is only returned when nothing
\* makes the formula true.
FormulaSolved ==
    (pc = "done" /\ "formula" \in DOMAIN given) =>
        LET names == NamesIn(given.formula)
            Returned(a, m) == \A v \in names \intersect given.vars.pb :
                                m[v] = a[IndexOfVar(given.vars, v) - 1]
            ms == {m \in [names -> BOOLEAN] : Meaning(given.formula, m)}
            models == ProblemModels
        IN  /\ \A a \in models : \A m \in [names -> BOOLEAN] : Returned(a, m) => m \in ms
            /\ ms # {} => models # {}
=============================================================================
