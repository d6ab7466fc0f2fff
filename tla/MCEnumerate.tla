---------------------------- MODULE MCEnumerate -----------------------------
(***************************************************************************)
(* Instances of module Enumerate for TLC, written with CNF literals.       *)
(***************************************************************************)
EXTENDS Enumerate

Parse(cnf, units) ==
    [clauses |-> [c \in DOMAIN cnf |-> [i \in DOMAIN cnf[c] |-> IntToLit(cnf[c][i])]],
     units |-> [i \in DOMAIN units |-> IntToLit(units[i])]]

NoClauses == {}

\* With many models, few, one and none; clauses that are learned while there are
\* models left; units, of the problem and learned; models with unbound variables,
\* with one decision and with none.
FewModels ==
    {Parse(<< <<1, 2, 3>>, <<-1, -2>>, <<-3, 4>> >>, <<>>),
     Parse(<< <<1, 2>>, <<-2, 3, 4>>, <<-1, -3, -4>>, <<1, -3, 4>> >>, <<>>),
     Parse(<< <<1, 2, 3>>, <<1, -2, 3>>, <<-1, 2>>, <<-1, -2, 4>>, <<-3, -4>> >>, <<>>),
     Parse(<< <<1, 2>>, <<-2, 3>> >>, <<-4>>),
     Parse(<< <<1, 2>>, <<1, -2>>, <<-1, 3>>, <<2, -3>> >>, <<4>>),
     Parse(<< <<1, 2>>, <<1, -2>>, <<-1, 3>>, <<-1, -3>> >>, <<4>>)}

\* 1, 5, 4, 3 and 2 are decided in this order, all false.  The clause that
\* excludes -1, -5, -4, -3 is watched at 1 and 5; undoing -3 leads to learning
\* (1 5 -3), 3 is false again without 4 being decided, and the first model comes
\* back.
Twice == {Parse(<< <<5, -3, 2>>, <<1, -3, -2>> >>, <<>>)}
=============================================================================
