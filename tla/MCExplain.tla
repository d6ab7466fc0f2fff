------------------------------ MODULE MCExplain ------------------------------
(***************************************************************************)
(* Instances of module Explain for TLC: the literals x, y and z are 0, 2   *)
(* and 4, their negations 1, 3 and 5.                                      *)
(***************************************************************************)
EXTENDS Explain

\* Every clause on x and y is needed, the one on z is not.
Square == <<<<0, 2>>, <<0, 4>>, <<1, 2>>, <<0, 3>>, <<1, 3>>>>

\* Two minimal subsets that share two clauses.
Overlap == <<<<0, 2>>, <<0, 3>>, <<1, 4>>, <<1, 5>>, <<1, 2>>, <<1, 3>>>>

\* Unit propagation is not enough although there is a unit clause.
Chain == <<<<0>>, <<1, 2, 4>>, <<2, 5>>, <<3, 4>>, <<1, 3, 5>>>>

\* What the last clauses imply is needed for the first.
Backwards == <<<<1, 4>>, <<1, 5>>, <<0, 2>>, <<0, 3>>>>

\* Two conflicts of unit clauses, and a unit clause that leads to one.
Pairs == <<<<0>>, <<1>>, <<2>>, <<3>>>>
Trivial == <<<<0>>, <<1, 2>>, <<3>>, <<2, 4>>>>

\* The first clause is left when the two others are enough.
Late == <<<<2>>, <<0>>, <<1>>>>

Possible == <<<<0, 2>>, <<1, 2>>>>

MCInputs == {Square, Overlap, Chain, Backwards, Pairs, Trivial, Late, Possible}

MCLines == {<<>>, <<0>>, <<2>>, <<3>>, <<4, 2>>}

\* What the violation runs need of them.
PairsOnly == {Pairs}
PossibleOnly == {Possible}
=============================================================================
