----------------------------- MODULE MCOptimize -----------------------------
(***************************************************************************)
(* Instances of module Optimize for TLC: the literals x, y, z and w are 0, *)
(* 2, 4 and 6, their negations 1, 3, 5 and 7.                              *)
(***************************************************************************)
EXTENDS Optimize

Formulas ==
    {{},                                        \* anything goes
     {{0, 2}, {0, 3}, {4, 1}},                  \* x and z, not seen at once
     {{0, 2}, {2, 4}, {0, 4}},                  \* two of the three
     {{0, 2, 4}, {1, 3}, {1, 5}},               \* some, but x alone
     {{0, 2}, {1, 2}, {0, 3}, {1, 3}}}          \* none

\* Equal and different weights, negative literals and a literal that comes
\* twice.
Costs ==
    {[lits |-> <<>>, weights |-> <<>>],
     [lits |-> <<0, 2, 4>>, weights |-> <<1, 1, 1>>],
     [lits |-> <<0, 2, 4>>, weights |-> <<1, 3, 2>>],
     [lits |-> <<1, 2>>, weights |-> <<2, 1>>],
     [lits |-> <<3, 0, 4>>, weights |-> <<1, 2, 2>>],
     [lits |-> <<5, 2, 0>>, weights |-> <<2, 1, 3>>],
     [lits |-> <<2, 0, 2>>, weights |-> <<1, 1, 1>>]}

Goal(formula, cost, results) ==
    [formula |-> formula, lits |-> cost.lits, weights |-> cost.weights, results |-> results]

MCGoals == {Goal(f, c, r) : f \in Formulas, c \in Costs, r \in BOOLEAN}

\* Two goals that Optimal and Minimize do not reach.  In the first w and z have
\* to be true, which takes a conflict on x each; x, which costs nothing, has then
\* become the most active variable and is decided first, false as it was last,
\* which makes y true.  In the second not z costs 1 and z costs 2: z is decided
\* false, then asked to be false and true for less, and stays true.
Losing ==
    {Goal({{6, 1}, {6, 0}, {4, 1}, {4, 0}, {0, 2}},
          [lits |-> <<6, 4, 2, 0>>, weights |-> <<5, 5, 1, 0>>], FALSE),
     Goal({{0, 2}}, [lits |-> <<5, 4>>, weights |-> <<1, 2>>], FALSE)}
=============================================================================
