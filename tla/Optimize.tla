------------------------------ MODULE Optimize ------------------------------
(***************************************************************************)
(* Optimal and Minimize (solver/solver.go): the problem is solved again    *)
(* and again, each time with a pseudo-boolean constraint asking for less   *)
(* than the last cost, until it is unsatisfiable.                          *)
(*                                                                         *)
(* The search is that of module Solver, taken here for what it answers: a  *)
(* call of Solve finds any model of what is left, and makes any of its     *)
(* consequences permanent, at level 1.  Minimize is Optimal without a      *)
(* channel of results.  The order in which the terms are sorted, and the   *)
(* activities and polarities the cost function sets, only guide Solve.     *)
(*                                                                         *)
(* The problem has clauses only.  One of its own constraints need not be   *)
(* watched at a literal it propagated, and a unit bound over the literal   *)
(* then meets no conflict (see MCPBUnits).  Nor need one be met later when *)
(* a unit was bound over its opposite; the model takes what Solve answers  *)
(* after that for right still.                                             *)
(***************************************************************************)
EXTENDS Lits, Sequences, SequencesExt, FiniteSetsExt

CONSTANT Goals
    \* problems with a cost function: records [formula, lits, weights, results]
    \* where results tells whether the caller gives a channel; no cost
    \* function is written as an empty one

ASSUME GoalsAssumption ==
    \A g \in Goals :
        /\ g.formula \subseteq Clauses
        /\ g.lits \in Seq(Lits) /\ g.weights \in Seq(Nat)
        /\ Len(g.lits) = Len(g.weights)
        /\ g.results \in BOOLEAN

VARIABLES
    goal,       \* the problem
    status,     \* s.status
    model,      \* s.model after a call of Solve
    bound,      \* the literals bound at level 1
    added,      \* the constraints given to AppendClause: the terms they keep
                \* of the cost function, negated, and their cardinality
    units,      \* the terms whose literals propagateUnits has still to bind
    res,        \* the result so far
    sent,       \* what the channel delivered
    pc          \* "solve", "found", "send", "append", "units" or "done"

vars == <<goal, status, model, bound, added, units, res, sent, pc>>

O == INSTANCE Optimum WITH best <- res.model, over <- (pc = "done")

NoModel == O!NoModel

Terms == DOMAIN goal.lits

Weight(T) == SumOf(goal.weights, T)

MaxCost == Weight(Terms)

Hypothesis(k) == Negation(goal.lits[k])

Cost(a) == Weight({k \in Terms : Holds(a, goal.lits[k])})

\* The models of the formula and the added constraints that have the literals B.
ModelsWith(B) ==
    {a \in Assignments :
        /\ SatAll(a, goal.formula)
        /\ \A c \in added : Weight({k \in c.terms : Holds(a, Hypothesis(k))}) >= c.card
        /\ \A l \in B : Holds(a, l)}

\* The models that are left by what is bound at level 1.
Left == ModelsWith(bound)

\* What level 1 may become, from B, while models are looked for among M.
Facts(B, M) == {B \union L : L \in SUBSET {l \in Lits : \A a \in M : Holds(a, l)}}

-----------------------------------------------------------------------------
(* AppendClause, of the terms T of the negated cost function.              *)

TrueTerms(T) == {k \in T : Hypothesis(k) \in bound}

FreeTerms(T) == {k \in T : bound \intersect {goal.lits[k], Hypothesis(k)} = {}}

\* Variant for TLC: the weight of the removed true literals stays due.
ReducedNot(card, minW) == card

\* updateCardinality never goes below 1.
Reduced(card, minW) == Max({1, card - minW})

\* When all the literals left are needed they are left to propagateUnits.
AppendClause(T, card) ==
    LET minW == Weight(TrueTerms(T))
        maxW == minW + Weight(FreeTerms(T))
    IN  IF minW >= card THEN UNCHANGED <<status, added, units>>
        ELSE IF maxW < card THEN status' = "Unsat" /\ UNCHANGED <<added, units>>
        ELSE IF maxW = card THEN units' = FreeTerms(T) /\ UNCHANGED <<status, added>>
        ELSE /\ added' = added \union {[terms |-> FreeTerms(T), card |-> Reduced(card, minW)]}
             /\ UNCHANGED <<status, units>>

\* The binding that goes when l is bound: an opposite unit, which was bound
\* without a reason.  A literal that was propagated has a clause as its reason,
\* which is in conflict when l is bound.
Overwritten(l) == {Negation(l)} \intersect {Hypothesis(k) : k \in Terms \ units}

\* One turn of the loop of propagateUnits, whatever the order of the terms: the
\* literal is bound over what its variable has, and may meet a conflict if
\* nothing is left.
BindUnit ==
    /\ pc = "units"
    /\ \E k \in units :
          LET l == Hypothesis(k)
              B == (bound \ Overwritten(l)) \union {l}
              M == ModelsWith(B)
          IN  \/ /\ bound' \in Facts(B, M) /\ ~Tautology(bound')
                 /\ units' = units \ {k}
                 /\ UNCHANGED status
              \/ /\ M = {} /\ status' = "Unsat"
                 /\ units' = {}
                 /\ UNCHANGED bound
    /\ pc' = IF units' = {} THEN "solve" ELSE "units"
    /\ UNCHANGED <<goal, model, added, res, sent>>

-----------------------------------------------------------------------------
NoResult == [status |-> "none", model |-> NoModel, weight |-> 0]

Init ==
    /\ goal \in Goals
    /\ status = "Indet" /\ model = NoModel
    /\ bound \in {B \in SUBSET Lits : (\A a \in O!Models(goal), l \in B : Holds(a, l)) /\ ~Tautology(B)}
    /\ added = {} /\ units = {} /\ res = NoResult /\ sent = <<>>
    /\ pc = "solve"

\* Solve finds a model, whatever it learns on the way.
SolveSat ==
    /\ pc = "solve" /\ status # "Unsat" /\ Left # {}
    /\ status' = "Sat" /\ model' \in Left
    /\ bound' \in Facts(bound, Left)
    /\ pc' = "found"
    /\ UNCHANGED <<goal, added, units, res, sent>>

\* It is known, or found, that there is none: the best so far is the result.
SolveUnsat ==
    /\ pc = "solve" /\ (status = "Unsat" \/ Left = {})
    /\ status' = "Unsat"
    /\ IF res # NoResult THEN pc' = "done" /\ UNCHANGED res
       ELSE /\ res' = [NoResult EXCEPT !.status = "Unsat"]
            /\ pc' = IF goal.results THEN "send" ELSE "done"
    /\ UNCHANGED <<goal, model, bound, added, units, sent>>

\* Nothing is left to gain, or nothing was to find.
Final(r) == r.weight = 0

\* Variant for TLC: leaves the loop before it sends the last result.
AfterFoundBreak(r) == IF Final(r) THEN "done" ELSE IF goal.results THEN "send" ELSE "append"

AfterFound(r) == IF goal.results THEN "send" ELSE IF Final(r) THEN "done" ELSE "append"

\* The model becomes the last model, and the result.
Found ==
    /\ pc = "found"
    /\ res' = [status |-> "Sat", model |-> model, weight |-> Cost(model)]
    /\ pc' = AfterFound(res')
    /\ UNCHANGED <<goal, status, model, bound, added, units, sent>>

\* results <- res, once the caller receives.
Send ==
    /\ pc = "send"
    /\ sent' = Append(sent, res)
    /\ pc' = IF Final(res) THEN "done" ELSE "append"
    /\ UNCHANGED <<goal, status, model, bound, added, units, res>>

\* Variants for TLC: the same cost is good enough; one more is asked for.
NewCardSame(cost) == MaxCost - cost
NewCardLess(cost) == MaxCost - cost + 2

NewCard(cost) == MaxCost - cost + 1

\* The constraint that asks for a smaller cost.
Tighten ==
    /\ pc = "append"
    /\ AppendClause(Terms, NewCard(res.weight))
    /\ pc' = IF units' = {} THEN "solve" ELSE "units"
    /\ UNCHANGED <<goal, model, bound, res, sent>>

Done == pc = "done" /\ UNCHANGED vars

Next == SolveSat \/ SolveUnsat \/ Found \/ Send \/ Tighten \/ BindUnit \/ Done

\* The loop never waits but for the caller to receive, who ranges over the
\* channel, and Solve returns.
Spec == Init /\ [][Next]_vars /\ WF_vars(Next)

-----------------------------------------------------------------------------
(* The inductive invariant.                                                *)

AnyModel == Assignments \union {NoModel}

Results == [status : {"none", "Sat", "Unsat"}, model : AnyModel, weight : Nat]

TypeOK ==
    /\ goal \in Goals
    /\ status \in {"Indet", "Sat", "Unsat"}
    /\ model \in AnyModel
    /\ bound \subseteq Lits
    /\ added \subseteq [terms : SUBSET Terms, card : Nat]
    /\ units \subseteq Terms
    /\ res \in Results /\ sent \in Seq(Results)
    /\ pc \in {"solve", "found", "send", "append", "units", "done"}

Cheaper == O!Better(goal, res.model)

\* What the result says, and when there is one.
ResultHolds ==
    /\ res = NoResult => pc \in {"solve", "found"} /\ sent = <<>>
    /\ res.status = "none" => res = NoResult
    /\ res.status = "Sat" => res.model \in O!Models(goal) /\ res.weight = Cost(res.model)
    /\ res.status = "Unsat" =>
          /\ O!Models(goal) = {} /\ res.model = NoModel /\ res.weight = 0
          /\ pc \in {"send", "done"}

\* No model that would be cheaper is lost between two constraints.
KeepsCheaper ==
    /\ pc = "solve" => (IF status = "Unsat" THEN {} ELSE Left) = Cheaper
    /\ pc = "found" => status # "Unsat" /\ Left = Cheaper /\ model \in Left
    /\ (pc \in {"send", "append"} /\ res.status = "Sat") => status # "Unsat" /\ Cheaper \subseteq Left
    /\ pc = "append" => ~Final(res)
    /\ pc = "units" =>
          /\ status # "Unsat"
          /\ {a \in Left : \A k \in units : Holds(a, Hypothesis(k))} = Cheaper
    /\ pc # "units" => units = {}
    /\ pc = "done" => Cheaper = {}

\* The channel got every result but the one being sent, which is cheaper.
ChannelHolds ==
    /\ \A k \in 2 .. Len(sent) : sent[k].weight < sent[k - 1].weight
    /\ ~goal.results => sent = <<>> /\ pc # "send"
    /\ (goal.results /\ pc # "send" /\ res # NoResult) => sent # <<>> /\ Last(sent) = res
    /\ (pc = "send" /\ sent # <<>>) => res.weight < Last(sent).weight

Inv == TypeOK /\ ResultHolds /\ KeepsCheaper /\ ChannelHolds

\* What the theorems about optimizing rest on.  They fail with a weight of 0,
PositiveWeights == \A g \in Goals : \A k \in DOMAIN g.weights : g.weights[k] > 0

\* and with a literal and its negation, of which one is bound over the other.
NoOpposites ==
    \A g \in Goals : \A j, k \in DOMAIN g.lits : g.lits[j] # Negation(g.lits[k])

-----------------------------------------------------------------------------
(* Properties.                                                             *)

\* What AppendClause leaves, whether it simplified the constraint, bound its
\* literals or gave up, are the models cheaper than the best one, and all.
OnlyCheaperLeft ==
    pc = "solve" =>
        (IF status = "Unsat" THEN {} ELSE Left) = O!Better(goal, res.model)

\* The channel delivers models that get cheaper, and ends with the result
\* that the call returns.
ResultsDelivered ==
    /\ \A k \in 2 .. Len(sent) : sent[k].weight < sent[k - 1].weight
    /\ (pc = "done" /\ goal.results) => (sent # <<>> /\ Last(sent) = res)

\* Optimal and Minimize do what optimizing promises.
RefinesOptimum == O!Spec

\* They return.
Returns == <>(pc = "done")

\* The documentation of Minimize: no other model with a smaller cost exists.
OptimumFound == pc = "done" => O!Better(goal, res.model) = {}
=============================================================================
