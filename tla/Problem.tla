------------------------------ MODULE Problem -------------------------------
(***************************************************************************)
(* From constraints to the problem given to New: the constructors of       *)
(* solver/pb.go and solver/card.go, the parsers ParseSlice, ParseCNF,      *)
(* ParseCardConstrs, ParsePBConstrs and ParseOPB, the simplification of    *)
(* solver/problem.go they end with, and DetectAtMostOne.                   *)
(*                                                                         *)
(* A constraint is a record of its literals, their weights and the least   *)
(* sum of the weights of true literals; in a clause or a cardinality       *)
(* constraint the weights are 1.  Literals keep their order, which the     *)
(* simplification changes by moving the last one over a removed one; the   *)
(* sort by weight of NewPBClause is left out, the instances have any order.*)
(***************************************************************************)
EXTENDS Lits, Sequences, SequencesExt, FiniteSetsExt

CONSTANT Inputs
    \* what is parsed: records [parser, constrs, detect], where constrs is a
    \* sequence of records [op, lits, weights, n] with CNF literals, and detect
    \* tells whether DetectAtMostOne is called on the result

VARIABLES
    given,      \* the input
    clauses,    \* pb.Clauses, up to nbClauses
    units,      \* pb.Units
    model,      \* pb.Model
    status,     \* pb.Status
    i, j,       \* the clause visited, and its literal
    nbSat,      \* simplifyCard: how often a true literal was met
    card, wSum, \* simplifyPB: the cardinality and the weights left
    again,      \* "restart" of simplify2 and simplifyCard, "modified" of simplifyPB
    considered, \* DetectAtMostOne: the literals that are in a constraint already,
    toRemove,   \* and the indices of the clauses to remove
    pc          \* "next" (clause), "lits" (of the clause), "detect" or "done"

scanVars == <<i, j, nbSat, card, wSum>>

detectVars == <<considered, toRemove>>

vars == <<given, clauses, units, model, status, scanVars, again, detectVars, pc>>

Sum(weights) ==
    LET sum[t \in 0 .. Len(weights)] == IF t = 0 THEN 0 ELSE sum[t - 1] + weights[t]
    IN  sum[Len(weights)]

Ones(lits) == [t \in DOMAIN lits |-> 1]

-----------------------------------------------------------------------------
(* Constructors.                                                           *)

Negated(lits) == [t \in DOMAIN lits |-> -lits[t]]

\* Terms of negative weight are turned round, those of weight 0 removed.
GtEq(lits, weights, n) ==
    LET kept == SelectSeq([t \in DOMAIN lits |-> t], LAMBDA t : weights[t] # 0)
        turned == {t \in DOMAIN lits : weights[t] < 0}
    IN  [lits |-> [k \in DOMAIN kept |->
                      IF kept[k] \in turned THEN -lits[kept[k]] ELSE lits[kept[k]]],
         weights |-> [k \in DOMAIN kept |->
                      IF kept[k] \in turned THEN -weights[kept[k]] ELSE weights[kept[k]]],
         card |-> n - Sum([t \in DOMAIN lits |-> IF t \in turned THEN weights[t] ELSE 0])]

LtEq(lits, weights, n) == GtEq(Negated(lits), weights, Sum(weights) - n)

Eq(lits, weights, n) ==
    SelectSeq(<<GtEq(lits, weights, n), LtEq(lits, weights, n)>>, LAMBDA c : c.card > 0)

AtLeast(lits, n) == [lits |-> lits, weights |-> Ones(lits), card |-> n]

AtMost(lits, n) == AtLeast(Negated(lits), Len(lits) - n)

Constructed(g) ==
    CASE g.op = "AtLeast" -> <<AtLeast(g.lits, g.n)>>
      [] g.op = "AtMost" -> <<AtMost(g.lits, g.n)>>
      [] g.op = "GtEq" -> <<GtEq(g.lits, g.weights, g.n)>>
      [] g.op = "LtEq" -> <<LtEq(g.lits, g.weights, g.n)>>
      [] g.op = "Eq" -> Eq(g.lits, g.weights, g.n)

\* The constraints of an input, with the literals of the solver.
Constraints(input) ==
    LET all == FoldLeft(LAMBDA s, g : s \o Constructed(g), <<>>, input.constrs)
    IN  [k \in DOMAIN all |->
            [all[k] EXCEPT !.lits = [t \in DOMAIN @ |-> IntToLit(@[t])]]]

-----------------------------------------------------------------------------
(* Parsing.                                                                *)

Empty == [clauses |-> <<>>, units |-> <<>>, status |-> "Indet"]

ParseClause(parser, pb, c) ==
    CASE parser = "cnf" \/ Len(c.lits) > 1 -> [pb EXCEPT !.clauses = Append(@, c)]
      [] parser = "slice" /\ c.lits = <<>> -> [pb EXCEPT !.status = "Unsat"]
      [] parser = "slice" /\ Len(c.lits) = 1 -> [pb EXCEPT !.units = Append(@, c.lits[1])]

AddNew(seq, l) == IF Contains(seq, l) THEN seq ELSE Append(seq, l)

\* ParseOPB has no case for card <= 0, the instances give it no such constraint,
\* and reads on when a line cannot be satisfied, for the same answer.
ParseConstr(parser, pb, c) ==
    CASE c.card <= 0 -> pb
      [] c.card > 0 /\ Sum(c.weights) < c.card -> [pb EXCEPT !.status = "Unsat"]
      [] c.card > 0 /\ Sum(c.weights) = c.card ->
            [pb EXCEPT !.units = IF parser = "pb" THEN FoldLeft(AddNew, @, c.lits)
                                 ELSE @ \o c.lits]
      [] c.card > 0 /\ Sum(c.weights) > c.card -> [pb EXCEPT !.clauses = Append(@, c)]

Parsed(input) ==
    LET Step(pb, c) ==
          CASE pb.status = "Unsat" -> pb
            [] pb.status # "Unsat" /\ input.parser \in {"cnf", "slice"} ->
                  ParseClause(input.parser, pb, c)
            [] pb.status # "Unsat" /\ input.parser \in {"card", "pb", "opb"} ->
                  ParseConstr(input.parser, pb, c)
    IN  FoldLeft(Step, Empty, Constraints(input))

\* The bindings of the units: ParseOPB keeps the last of two that disagree, the
\* others, which keep the first, stop there.
Bindings(pb) ==
    [v \in Vars |->
        LET sign == SelectSeq(pb.units, LAMBDA l : VarOf(l) = v)
        IN  IF sign = <<>> THEN 0 ELSE IF IsPositive(Last(sign)) THEN 1 ELSE -1]

Disagree(pb) == \E t, k \in DOMAIN pb.units : pb.units[t] = Negation(pb.units[k])

Init ==
    /\ given \in Inputs
    /\ LET pb == Parsed(given)
           stop == pb.status = "Unsat" \/ (given.parser # "opb" /\ Disagree(pb))
       IN  /\ clauses = pb.clauses /\ units = pb.units
           /\ model = Bindings(pb)
           /\ status = IF stop THEN "Unsat" ELSE "Indet"
           /\ pc = IF stop THEN "done" ELSE "next"
    /\ i = 1 /\ j = 1 /\ nbSat = 0 /\ card = 0 /\ wSum = 0 /\ again = FALSE
    /\ considered = {} /\ toRemove = <<>>

-----------------------------------------------------------------------------
(* Adding units.                                                           *)

IsTrueIn(m, l) == m[VarOf(l)] = IF IsPositive(l) THEN 1 ELSE -1

\* Variant for TLC: a unit that contradicts another one is ignored.
AddUnitAnyway(pb, l) ==
    IF IsTrueIn(pb.model, Negation(l)) THEN pb
    ELSE [pb EXCEPT !.model[VarOf(l)] = IF IsPositive(l) THEN 1 ELSE -1,
                    !.units = Append(@, l)]

\* addUnit; pb is any record with these three fields.
AddUnit(pb, l) ==
    IF IsTrueIn(pb.model, Negation(l)) THEN [pb EXCEPT !.status = "Unsat"]
    ELSE [pb EXCEPT !.model[VarOf(l)] = IF IsPositive(l) THEN 1 ELSE -1,
                    !.units = Append(@, l)]

Facts == [model |-> model, units |-> units, status |-> status]

-----------------------------------------------------------------------------
(* The loops on the clauses, and on the literals of one.                   *)

\* The last item takes the place of the k-th.
Removed(seq, k) == Front([seq EXCEPT ![k] = Last(seq)])

WithoutLit(c, k) == [c EXCEPT !.lits = Removed(@, k), !.weights = Removed(@, k)]

litsLeft == clauses[i].lits
lit == litsLeft[j]
unbound == model[VarOf(lit)] = 0

InLits(parsers) == pc = "lits" /\ given.parser \in parsers

StartClause ==
    /\ pc = "next" /\ i <= Len(clauses)
    /\ j' = 1 /\ nbSat' = 0
    /\ card' = clauses[i].card /\ wSum' = Sum(clauses[i].weights)
    /\ pc' = "lits"
    /\ UNCHANGED <<given, clauses, units, model, status, i, again, detectVars>>

NextLit ==
    /\ j' = j + 1
    /\ UNCHANGED <<given, clauses, units, model, status, i, nbSat, card, wSum, again, detectVars, pc>>

RemoveLit(k) ==
    /\ clauses' = [clauses EXCEPT ![i] = WithoutLit(@, k)]
    /\ UNCHANGED <<given, units, model, status, scanVars, again, detectVars, pc>>

\* Variant for TLC: the clause moved is skipped.
DropAndSkip ==
    /\ clauses' = Removed(clauses, i) /\ i' = i + 1 /\ pc' = "next"
    /\ UNCHANGED <<given, j, nbSat, card, wSum, detectVars>>

\* The last clause takes the place of the one visited.
DropClause ==
    /\ clauses' = Removed(clauses, i) /\ pc' = "next"
    /\ UNCHANGED <<given, scanVars, detectVars>>

Opposed == \E k \in j + 1 .. Len(litsLeft) : litsLeft[k] = Negation(lit)

Repeats == {k \in j + 1 .. Len(litsLeft) : litsLeft[k] = lit}

\* simplify2.
LitClause ==
    /\ InLits({"cnf", "slice"}) /\ j <= Len(litsLeft)
    /\ \/ Opposed /\ DropClause /\ UNCHANGED <<units, model, status, again>>
       \/ ~ Opposed /\ Repeats # {} /\ RemoveLit(Min(Repeats))
       \/ /\ ~ Opposed /\ Repeats = {}
          /\ \/ unbound /\ NextLit
             \/ IsTrueIn(model, lit) /\ DropClause /\ UNCHANGED <<units, model, status, again>>
             \/ IsTrueIn(model, Negation(lit)) /\ RemoveLit(j)

\* simplifyCard: a true literal is counted, and looked at again.
LitCard ==
    /\ InLits({"card"}) /\ j <= Len(litsLeft)
    /\ \/ unbound /\ NextLit
       \/ /\ IsTrueIn(model, lit) /\ nbSat + 1 = card
          /\ DropClause /\ UNCHANGED <<units, model, status, again>>
       \/ /\ IsTrueIn(model, lit) /\ nbSat + 1 # card
          /\ nbSat' = nbSat + 1
          /\ UNCHANGED <<given, clauses, units, model, status, i, j, card, wSum, again, detectVars, pc>>
       \/ IsTrueIn(model, Negation(lit)) /\ RemoveLit(j)

Unsatisfiable ==
    /\ status' = "Unsat" /\ pc' = "done"
    /\ UNCHANGED <<given, scanVars, again, detectVars>>

\* What follows the loop on literals in simplify2 and simplifyCard: the clause is
\* false, it forces the literals left, or it is kept.
EndClause ==
    /\ InLits({"cnf", "slice", "card"}) /\ j > Len(litsLeft)
    /\ \/ Len(litsLeft) < card /\ Unsatisfiable /\ UNCHANGED <<clauses, units, model>>
       \/ /\ Len(litsLeft) = card
          /\ LET pb == FoldLeft(AddUnit, Facts, litsLeft) IN
             /\ model' = pb.model /\ units' = pb.units
             /\ \/ pb.status = "Unsat" /\ Unsatisfiable /\ UNCHANGED clauses
                \/ pb.status # "Unsat" /\ DropClause /\ again' = TRUE /\ UNCHANGED status
       \/ /\ Len(litsLeft) > card
          /\ i' = i + 1 /\ pc' = "next"
          /\ UNCHANGED <<given, clauses, units, model, status, j, nbSat, card, wSum, again, detectVars>>

\* updateCardinality(-w): the stored cardinality never goes below 1.
Reduced(c, w) == IF w > c - 1 THEN 1 ELSE c - w

\* simplifyPB: a literal that must be true becomes a unit; it is removed, as
\* bound ones are.
LitPB ==
    LET w == clauses[i].weights[j]
        forced == unbound /\ wSum - w < card
        pb == IF forced THEN AddUnit(Facts, lit) ELSE Facts
        isTrue == IsTrueIn(pb.model, lit)
    IN
    /\ InLits({"pb", "opb"}) /\ j <= Len(litsLeft)
    /\ \/ unbound /\ ~ forced /\ NextLit
       \/ /\ ~ unbound \/ forced
          /\ model' = pb.model /\ units' = pb.units /\ status' = pb.status
          /\ clauses' = [clauses EXCEPT ![i] =
                [WithoutLit(@, j) EXCEPT !.card = IF isTrue THEN Reduced(@, w) ELSE @]]
          /\ card' = IF isTrue THEN card - w ELSE card
          /\ wSum' = wSum - w
          /\ again' = TRUE
          /\ UNCHANGED <<given, i, j, nbSat, detectVars, pc>>

EndPB ==
    /\ InLits({"pb", "opb"}) /\ j > Len(litsLeft)
    /\ UNCHANGED <<units, model>>
    /\ \/ card <= 0 /\ DropClause /\ again' = TRUE /\ UNCHANGED status
       \/ card > 0 /\ wSum < card /\ Unsatisfiable /\ clauses' = <<>>
       \/ /\ card > 0 /\ wSum >= card
          /\ i' = i + 1 /\ pc' = "next"
          /\ UNCHANGED <<given, clauses, status, j, nbSat, card, wSum, again, detectVars>>

NewPass == i' = 1 /\ again' = FALSE

\* The end of a pass; updateStatus after the last one.
EndPass ==
    /\ pc = "next" /\ i > Len(clauses)
    /\ IF again
       THEN NewPass /\ UNCHANGED <<status, pc, j>>
       ELSE /\ status' = IF clauses = <<>> THEN "Sat" ELSE status
            /\ pc' = IF given.detect THEN "detect" ELSE "done"
            /\ j' = 0
            /\ UNCHANGED <<i, again>>
    /\ UNCHANGED <<given, clauses, units, model, nbSat, card, wSum, detectVars>>

-----------------------------------------------------------------------------
(* DetectAtMostOne.                                                        *)

\* indexes[k]: the binary clauses by which k propagates, and what it propagates.
Indexes(k) ==
    SelectSeq([c \in DOMAIN clauses |-> c],
              LAMBDA c : Len(clauses[c].lits) = 2 /\ Contains(clauses[c].lits, Negation(k)))

Other(c, k) == CHOOSE o \in ToSet(clauses[c].lits) : o # Negation(k)

Propagates(k) == {Other(c, k) : c \in ToSet(Indexes(k))}

\* The literals at most one of which is false, found from k on, and the clauses
\* they come from.
Clique(k) ==
    LET Step(acc, c) ==
          LET o == Other(c, k)
              joined == \A m \in 2 .. Len(acc.lits) : o \in Propagates(Negation(acc.lits[m]))
          IN  IF o \notin considered /\ joined
              THEN [lits |-> Append(acc.lits, o), from |-> Append(acc.from, c)]
              ELSE acc
    IN  FoldLeft(Step, [lits |-> <<Negation(k)>>, from |-> <<>>], Indexes(k))

\* One turn of the loop on all the literals; binary clauses are those of the
\* start, a constraint that is added has at least three literals.
DetectFrom ==
    LET clique == Clique(j) IN
    /\ pc = "detect" /\ j < 2 * NbVars
    /\ j' = j + 1
    /\ \/ /\ j \in considered \/ Len(Indexes(j)) < 2
          /\ UNCHANGED <<clauses, considered, toRemove>>
       \/ /\ j \notin considered /\ Len(Indexes(j)) >= 2
          /\ toRemove' = toRemove \o clique.from
          /\ IF Len(clique.lits) > 2
             THEN /\ considered' = considered \union {Negation(k) : k \in ToSet(clique.lits)}
                  /\ clauses' = Append(clauses, [lits |-> clique.lits, weights |-> Ones(clique.lits),
                                                 card |-> Len(clique.lits) - 1])
             ELSE UNCHANGED <<considered, clauses>>
    /\ UNCHANGED <<given, units, model, status, i, nbSat, card, wSum, again, pc>>

\* removeBinaries: an index is only looked for after those before it in the list,
\* and nothing is kept after the last one.
RemoveBinaries(cs, gone) ==
    LET Step(acc, c) ==
          IF acc.left = <<>> THEN acc
          ELSE IF c = Head(acc.left) THEN [acc EXCEPT !.left = Tail(@)]
          ELSE [acc EXCEPT !.kept = Append(@, cs[c])]
    IN  IF gone = <<>> THEN cs
        ELSE FoldLeft(Step, [kept |-> <<>>, left |-> gone],
                      [c \in DOMAIN cs |-> c]).kept

EndDetect ==
    /\ pc = "detect" /\ j = 2 * NbVars
    /\ clauses' = RemoveBinaries(clauses, toRemove)
    /\ pc' = "done"
    /\ UNCHANGED <<given, units, model, status, scanVars, again, detectVars>>

Next ==
    \/ StartClause \/ LitClause \/ LitCard \/ EndClause \/ LitPB \/ EndPB \/ EndPass
    \/ DetectFrom \/ EndDetect

\* A parser runs to its end without waiting for anything.
Spec == Init /\ [][Next]_vars /\ WF_vars(Next)

-----------------------------------------------------------------------------
(* What the solver, and the client, rely on.                               *)

Weight(a, c) ==
    Sum([t \in DOMAIN c.lits |-> IF Holds(a, c.lits[t]) THEN c.weights[t] ELSE 0])

SatConstr(a, c) == Weight(a, c) >= c.card

\* The cardinality of the clause visited by simplifyPB is in the local variable.
Current(k) ==
    IF k = i /\ InLits({"pb", "opb"}) THEN [clauses[k] EXCEPT !.card = card] ELSE clauses[k]

\* The meaning of what the client wrote.
Meant(a, g) ==
    LET terms == [lits |-> [t \in DOMAIN g.lits |-> IntToLit(g.lits[t])],
                  weights |-> IF g.op \in {"AtLeast", "AtMost"} THEN Ones(g.lits) ELSE g.weights]
        sum == Weight(a, terms)
    IN  CASE g.op \in {"AtLeast", "GtEq"} -> sum >= g.n
          [] g.op \in {"AtMost", "LtEq"} -> sum <= g.n
          [] g.op = "Eq" -> sum = g.n

\* The variables of the constraints written.
Named == UNION {{VarOf(IntToLit(l)) : l \in ToSet(g.lits)} : g \in ToSet(given.constrs)}

\* From the first clause visited to the problem handed to New, the models are
\* those of the constraints written: what was a unit, what was removed and what
\* was found unsatisfiable is accounted for at each step.
Equivalent ==
    \A a \in [Named -> BOOLEAN] :
        (\A k \in DOMAIN given.constrs : Meant(a, given.constrs[k]))
        <=> /\ status # "Unsat"
            /\ \A k \in DOMAIN units : Holds(a, units[k])
            /\ \A k \in DOMAIN clauses : SatConstr(a, Current(k))

\* New sets watches without looking at the bindings: at the end no literal of a
\* constraint is bound, or forced by the constraint alone, no variable is twice in
\* a clause, and the bindings New starts from are those of the units.
NothingToPropagate ==
    (pc = "done" /\ status # "Unsat") =>
        /\ \A k \in DOMAIN clauses : \A t \in DOMAIN clauses[k].lits :
              /\ model[VarOf(clauses[k].lits[t])] = 0
              /\ Sum(clauses[k].weights) - clauses[k].weights[t] >= clauses[k].card
              /\ given.parser \in {"cnf", "slice"} =>
                    \A u \in DOMAIN clauses[k].lits :
                        VarOf(clauses[k].lits[u]) = VarOf(clauses[k].lits[t]) => u = t
        /\ \A v \in Vars : model[v] # 0 <=> \E k \in DOMAIN units : VarOf(units[k]) = v
        /\ \A k \in DOMAIN units : IsTrueIn(model, units[k])
=============================================================================
