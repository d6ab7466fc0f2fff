-------------------------------- MODULE MCPB --------------------------------
(***************************************************************************)
(* Instances of module PBSolver for TLC.                                   *)
(***************************************************************************)
EXTENDS PBSafety

None == {}

CnfLits(c) == [i \in DOMAIN c |-> IntToLit(c[i])]

AtLeast(c, n) == NewConstraint(CnfLits(c), [i \in DOMAIN c |-> 1], n, FALSE)

\* The weights come in decreasing order.
Gt(c, w, n) == NewConstraint(CnfLits(c), w, n, TRUE)

Prob(cnf, units, constraints) ==
    [clauses |-> [c \in DOMAIN cnf |-> CnfLits(cnf[c])], units |-> CnfLits(units),
     constraints |-> constraints]

\* Clauses and cardinality constraints, as ParseCardConstrs gives them.
Cards1 == Prob(<< <<-3, -4>>, <<1, 2, 3>> >>, <<>>,
               << AtLeast(<<1, 2, -3, 4>>, 2), AtLeast(<<-4, 1, -2, -3>>, 3),
                  AtLeast(<<3, -1, -2>>, 2) >>)

Cards2 == Prob(<< <<-4, -2>>, <<1, 2>>, <<-3, 2>> >>, <<>>,
               << AtLeast(<<3, -1, -2, 4>>, 3), AtLeast(<<-3, 1, -4>>, 2) >>)

\* Pseudo-boolean constraints only, as ParsePBConstrs gives them.
Weighted1 == Prob(<<>>, <<>>,
                  << Gt(<<4, 1, 3, -2>>, <<3, 3, 1, 1>>, 1),
                     Gt(<<-2, 3, 1, 4>>, <<2, 2, 1, 1>>, 4),
                     Gt(<<1, -3, 2, -4>>, <<2, 2, 1, 1>>, 2),
                     Gt(<<-2, -3, -4, -1>>, <<2, 1, 1, 1>>, 1),
                     Gt(<<-1, 3, 4, 2>>, <<3, 2, 2, 1>>, 4),
                     Gt(<<-4, -1, 3>>, <<3, 2, 1>>, 2) >>)

Weighted2 == Prob(<<>>, <<>>,
                  << Gt(<<-3, 1, 4, 2>>, <<3, 3, 2, 2>>, 5), Gt(<<2, -4, 1, 3>>, <<3, 2, 1, 1>>, 2),
                     Gt(<<3, -1>>, <<1, 1>>, 1), Gt(<<1, 2, -3>>, <<1, 1, 1>>, 1) >>)

\* A unit was simplified away.
Unit1 == Prob(<< <<-2, 3>> >>, <<1>>, << AtLeast(<<2, -3, 4>>, 2) >>)

MCProblems == {Cards1, Cards2, Weighted1, Weighted2, Unit1}

\* Under Unit1 the first is satisfied, the second cannot be, the third becomes
\* a clause; elsewhere the second gives units.
MCAppended ==
    { Gt(<<1, 3, -4>>, <<2, 1, 1>>, 2), AtLeast(<<-1, 2>>, 2), AtLeast(<<1, -2, -3, -4>>, 2) }

\* Appending 1 /\ -5 makes 1 propagate 5, by way of -2 and -3.
UnitsProblems ==
    { Prob(<< <<-1, -2>>, <<-1, -3>> >>, <<>>, << AtLeast(<<2, 3, 4, 5>>, 2) >>) }
UnitsAppended == { AtLeast(<<1, -5>>, 2) }

\* Two of three true and two of three false.
CutProblems == { Prob(<<>>, <<>>, << AtLeast(<<1, 2, 3>>, 2), AtLeast(<<-1, -2, -3>>, 2) >>) }

\* The same unless 4 is true: the conflict of two decisions is no matter of the
\* top level.
CutUnsatProblems ==
    { Prob(<<>>, <<>>, << Gt(<<4, 1, 2, 3>>, <<2, 1, 1, 1>>, 2), Gt(<<4, -1, -2, -3>>, <<2, 1, 1, 1>>, 2) >>) }
=============================================================================
