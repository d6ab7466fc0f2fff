------------------------------ MODULE Optimum -------------------------------
(***************************************************************************)
(* What optimizing promises: models are found, each cheaper than the one   *)
(* before, until none is cheaper than the last or there was none to find.  *)
(***************************************************************************)
EXTENDS Lits, Sequences

\* The weight of the literals of the cost function that a model makes true.
Cost(g, a) ==
    SumOf(g.weights, {k \in DOMAIN g.lits : Holds(a, g.lits[k])})

Models(g) == {a \in Assignments : SatAll(a, g.formula)}

\* No assignment of the variables, whatever their number.
NoModel == [v \in {-1} |-> FALSE]

VARIABLES
    goal,       \* the clauses and the cost function
    best,       \* the best model found, or NoModel
    over        \* the search for a better one is over

vars == <<goal, best, over>>

Better(g, a) ==
    IF a = NoModel THEN Models(g) ELSE {b \in Models(g) : Cost(g, b) < Cost(g, a)}

Init == best = NoModel /\ over = FALSE

\* Nothing may be left to improve at once, as with a model that costs nothing.
Improve ==
    /\ ~over /\ best' \in Better(goal, best)
    /\ over' \in BOOLEAN
    /\ over' => Better(goal, best') = {}
    /\ UNCHANGED goal

Finish ==
    /\ ~over /\ over'
    /\ Better(goal, best) = {}
    /\ UNCHANGED <<goal, best>>

Next == Improve \/ Finish

Spec == Init /\ [][Next]_vars
=============================================================================
