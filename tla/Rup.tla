--------------------------------- MODULE Rup ---------------------------------
(***************************************************************************)
(* Reverse unit propagation, the reference for certificates: a clause has  *)
(* the property when unit propagation of the negations of its literals     *)
(* reaches a conflict.  It models no code: module Solver writes lines that *)
(* have it and module Checker looks for it.                                *)
(***************************************************************************)
EXTENDS Lits

\* With the literals T, propagation in F finds nothing more.
Closed(F, T) ==
    \A C \in F : \A l \in C : (\A k \in C \ {l} : Negation(k) \in T) => l \in T

\* The literals T are contradictory, or falsify a clause of F.
Contradicts(F, T) ==
    \/ \E l \in T : Negation(l) \in T
    \/ \E C \in F : \A l \in C : Negation(l) \in T

\* What unit propagation makes of S in F, the least closed set with S, clashes:
\* then so does every one.
Refutes(F, S) ==
    \A T \in SUBSET Lits : S \subseteq T /\ Closed(F, T) => Contradicts(F, T)

IsRup(F, C) == Refutes(F, {Negation(l) : l \in C})
=============================================================================
