-------------------------------- MODULE Lits --------------------------------
(***************************************************************************)
(* Variables, literals and clauses (solver/types.go), and the meaning of a *)
(* set of clauses.                                                         *)
(*                                                                         *)
(* A Var is a number starting at 0 and a Lit is twice its variable, plus 1 *)
(* when it is negative: the CNF literal -3 is 2 * (3 - 1) + 1 = 5.  The    *)
(* second half of the module is the reference semantics the solver is      *)
(* measured against; it models no code.                                    *)
(***************************************************************************)
EXTENDS Integers, FiniteSets

CONSTANT NbVars     \* number of variables of the problem

ASSUME NbVarsAssumption == NbVars \in Nat

Vars == 0 .. NbVars - 1
Lits == 0 .. 2 * NbVars - 1

\* "No literal" and "no clause": the -1 and the nil of the code.
NoLit == -1
Nil == 0

-----------------------------------------------------------------------------
(* The methods of Var and Lit.                                             *)

SignedLit(v, signed) == IF signed THEN 2 * v + 1 ELSE 2 * v

VarOf(l) == l \div 2

IsPositive(l) == l % 2 = 0

\* l ^ 1: only the lowest bit, the sign, is flipped.
Negation(l) == IF l % 2 = 0 THEN l + 1 ELSE l - 1

IntToLit(i) == IF i < 0 THEN 2 * (-i - 1) + 1 ELSE 2 * (i - 1)

LitToInt(l) == IF l % 2 = 1 THEN -((l \div 2) + 1) ELSE (l \div 2) + 1

VarsOf(C) == {VarOf(l) : l \in C}

-----------------------------------------------------------------------------
(* Reference semantics.  A clause is the set of its literals.              *)

Clauses == SUBSET Lits

Assignments == [Vars -> BOOLEAN]

Holds(a, l) == a[VarOf(l)] = IsPositive(l)

SatClause(a, C) == \E l \in C : Holds(a, l)

SatAll(a, F) == \A C \in F : SatClause(a, C)

Entails(F, C) == \A a \in Assignments : SatAll(a, F) => SatClause(a, C)

Satisfiable(F) == \E a \in Assignments : SatAll(a, F)

UnitClauses(L) == {{l} : l \in L}

Tautology(C) == \E l \in C : Negation(l) \in C

\* The sum of the natural numbers f[i], for i in I: a count of pairs.
SumOf(f, I) == Cardinality(UNION {{i} \X (1 .. f[i]) : i \in I})
=============================================================================
