------------------------------- MODULE MaxSat -------------------------------
(***************************************************************************)
(* Package maxsat: constraints on named variables, some of which are soft  *)
(* and have a weight, translated to the constraints of ParsePBConstrs and  *)
(* a cost function.  A soft constraint gets a blocking literal, which      *)
(* satisfies it alone and costs its weight.  Module Problem goes on with   *)
(* the constraints, and module Optimize with the cost function.            *)
(***************************************************************************)
EXTENDS Problem

\* A constraint, as the functions of constr.go build it: coeffs is empty when
\* all are 1, weight is 0 for a hard constraint.
Constr(lits, coeffs, atLeast, weight) ==
    [lits |-> lits, coeffs |-> coeffs, atLeast |-> atLeast, weight |-> weight]

HardClause(lits) == Constr(lits, <<>>, 1, 0)

WeightedClause(lits, weight) == Constr(lits, <<>>, 1, weight)

NameLit(v) == [name |-> <<"var", v>>, negated |-> FALSE]

NotName(v) == [name |-> <<"var", v>>, negated |-> TRUE]

-----------------------------------------------------------------------------
(* New.                                                                    *)

IsSoft(c) == c.weight # 0

\* The names met so far, in varInts, with those of one more constraint.
NamesMet(varInts, c) == FoldLeft(AddNew, varInts, [k \in DOMAIN c.lits |-> c.lits[k].name])

IntLit(varInts, l) ==
    LET k == CHOOSE x \in DOMAIN varInts : varInts[x] = l.name
    IN  IF l.negated THEN -k ELSE k

\* Variant for TLC: a blocking literal counts as one of the others.
BlockCoeffOne(c) == 1

\* The blocking literal weighs what is asked for.
BlockCoeff(c) == c.atLeast

\* One more constraint, numbered and given to GtEq.
AddConstr(pb, c) ==
    LET met == NamesMet(pb.varInts, c)
        block == Len(met) + 1
        lits == [k \in DOMAIN c.lits |-> IntLit(met, c.lits[k])]
        coeffs == IF c.coeffs = <<>> THEN Ones(c.lits) ELSE c.coeffs
        Given(ls, ws) == [op |-> "GtEq", lits |-> ls, weights |-> ws, n |-> c.atLeast]
    IN  IF IsSoft(c)
        THEN [varInts |-> Append(met, <<"block", block>>),
              blockWeights |-> Append(pb.blockWeights, [lit |-> block, weight |-> c.weight]),
              clauses |-> Append(pb.clauses,
                            Given(Append(lits, block),
                                  Append(coeffs, IF c.coeffs = <<>> THEN 1 ELSE BlockCoeff(c))))]
        ELSE [pb EXCEPT !.varInts = met, !.clauses = Append(@, Given(lits, coeffs))]

\* What New gives to ParsePBConstrs and SetCostFunc.
MaxSatInput(constrs) ==
    LET pb == FoldLeft(AddConstr, [varInts |-> <<>>, blockWeights |-> <<>>, clauses |-> <<>>], constrs)
    IN  [parser |-> "pb", detect |-> FALSE, constrs |-> pb.clauses,
         maxsat |-> constrs, varInts |-> pb.varInts, cost |-> pb.blockWeights]

-----------------------------------------------------------------------------
(* What a client relies on.                                                *)

NamesOf(constrs) ==
    UNION {{c.lits[k].name : k \in DOMAIN c.lits} : c \in ToSet(constrs)}

SatNamed(m, c) ==
    Sum([k \in DOMAIN c.lits |->
            IF m[c.lits[k].name] # c.lits[k].negated
            THEN (IF c.coeffs = <<>> THEN 1 ELSE c.coeffs[k]) ELSE 0]) >= c.atLeast

\* The weights of the soft constraints that m leaves aside.
Lost(m, constrs) ==
    Sum([k \in DOMAIN constrs |->
            IF IsSoft(constrs[k]) /\ ~ SatNamed(m, constrs[k]) THEN constrs[k].weight ELSE 0])

BlockCost(a) == Sum([k \in DOMAIN given.cost |->
                        IF a[given.cost[k].lit - 1] THEN given.cost[k].weight ELSE 0])

\* The models of the problem that the name bindings m extend to.
Extended(m) ==
    {a \in [{k - 1 : k \in DOMAIN given.varInts} -> BOOLEAN] :
        /\ status # "Unsat"
        /\ \A k \in DOMAIN given.varInts :
              given.varInts[k] \in DOMAIN m => a[k - 1] = m[given.varInts[k]]
        /\ \A k \in DOMAIN units : Holds(a, units[k])
        /\ \A k \in DOMAIN clauses : SatConstr(a, clauses[k])}

\* On the problem simplified, the cheapest way to extend bindings of the names
\* costs what the soft constraints they leave aside weigh, and bindings that
\* falsify a hard constraint do not extend: the model Minimize finds is one that
\* loses least.
LosesLeast ==
    (pc = "done" /\ "maxsat" \in DOMAIN given) =>
        \A m \in [NamesOf(given.maxsat) -> BOOLEAN] :
            IF \A k \in DOMAIN given.maxsat :
                  IsSoft(given.maxsat[k]) \/ SatNamed(m, given.maxsat[k])
            THEN /\ Extended(m) # {}
                 /\ Min({BlockCost(a) : a \in Extended(m)}) = Lost(m, given.maxsat)
            ELSE Extended(m) = {}
=============================================================================
