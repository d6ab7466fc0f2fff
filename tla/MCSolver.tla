------------------------------ MODULE MCSolver ------------------------------
(***************************************************************************)
(* Instances of module Solver for TLC.  Problems are written with CNF      *)
(* literals, as in the tests of the repository.                            *)
(***************************************************************************)
EXTENDS SolverInvariant

Parse(cnf, units) ==
    [clauses |-> [c \in DOMAIN cnf |-> [i \in DOMAIN cnf[c] |-> IntToLit(cnf[c][i])]],
     units |-> [i \in DOMAIN units |-> IntToLit(units[i])]]

LitSet(S) == {IntToLit(i) : i \in S}

\* Deciding -1, -2, -3 in this order learns (1 2 3), of LBD 3, then (1 2): the
\* first may be removed once it is not a reason any more.
Reducible == Parse(<< <<1, 3, 5>>, <<2, 3, -5>>, <<1, 4, 5>>, <<2, 4, -5>>, <<-3, -4>>,
                      <<-2, 3>>, <<-2, 4>> >>, <<>>)

\* Unsatisfiable: the eight clauses over three variables.
Eight == Parse(<< <<1, 2, 3>>, <<1, 2, -3>>, <<1, -2, 3>>, <<1, -2, -3>>,
                  <<-1, 2, 3>>, <<-1, 2, -3>>, <<-1, -2, 3>>, <<-1, -2, -3>> >>, <<4, -5>>)

\* Four variables, a chain of implications with a conflict at the end.
Chain == Parse(<< <<1, 2, 3>>, <<1, 2, -3>>, <<1, -2, 4>>, <<-1, 2, 4>>, <<-2, -4>> >>, <<5>>)

\* Deciding -4, -1 learns (4 1), of LBD 2; then -2, -3 learn (-1 2 3), of LBD 3,
\* which comes first when the clauses are reduced and is a reason.
Locking == Parse(<< <<4, 1, 2>>, <<4, 1, -2>>, <<-1, 2, 3, 5>>, <<-1, 2, 3, -5>> >>, <<>>)

\* Learning 1 leads to a conflict at the top level.
Pairs == Parse(<< <<1, 2>>, <<1, -2>>, <<-1, 3>>, <<-1, -3>> >>, <<>>)

SearchProblems == {Reducible, Locking, Eight, Chain, Pairs}

NoClauses == {}

\* Problems a client adds clauses to, or assumes literals of.
Growing == {Parse(<< <<1, 2, 3>>, <<1, 2, -3>>, <<-2, 3>> >>, <<>>),
            Parse(<< <<1, 2>> >>, <<3>>)}

MCAppendable == {LitSet(C) : C \in {{-1}, {-2, -3}, {1, -2, -3}, {2}}}

Assumed == {Parse(<< <<1, 2, 3>>, <<1, 2, -3>>, <<-1, 4, 3>>, <<-2, -4>>, <<-1, -3>> >>, <<>>)}

\* A unit clause and an assumption that contradicts it.
WithUnit == {Parse(<< <<2, 3>> >>, <<1>>)}

NegatedUnit == {LitSet({-1}), LitSet({-2})}

\* Three pairs of clauses that force 1, 3 and 5: every conflict learns a unit.
UnitsOnly == {Parse(<< <<1, 2>>, <<1, -2>>, <<3, 4>>, <<3, -4>>, <<5, 6>>, <<5, -6>> >>, <<>>)}

MCAssumable == {LitSet(L) : L \in {{}, {-1}, {-2, -3}, {-1, 4}}}
=============================================================================
