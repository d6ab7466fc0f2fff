----------------------------- MODULE SatService -----------------------------
(***************************************************************************)
(* What a client of the solver is promised, whatever happens inside: a     *)
(* call of Solve answers the question asked, which is whether the clauses  *)
(* given so far and the literals assumed last can be satisfied together,   *)
(* and giving clauses or making assumptions never answers anything.        *)
(***************************************************************************)
EXTENDS Lits

VARIABLES
    formula,    \* the clauses given
    assumed,    \* the literals assumed
    call,       \* the call being served: "none", "solve" or "update"
    result      \* the last answer, "none" when there is none

vars == <<formula, assumed, call, result>>

Question == formula \union UnitClauses(assumed)

Init ==
    /\ formula \in SUBSET Clauses
    /\ assumed = {}
    /\ call = "none" /\ result = "none"

\* A clause is given; binding its last literal may take time.
Give(C) ==
    /\ call = "none" /\ call' \in {"none", "update"}
    /\ formula' = formula \union {C}
    /\ result' = "none"
    /\ UNCHANGED assumed

\* New assumptions replace the former ones.
Assume(L) ==
    /\ call = "none" /\ call' = "update"
    /\ assumed' = L
    /\ result' = "none"
    /\ UNCHANGED formula

\* The end of a call that gives clauses or assumptions.
Updated ==
    /\ call = "update" /\ call' = "none"
    /\ UNCHANGED <<formula, assumed, result>>

Ask ==
    /\ call = "none" /\ call' = "solve"
    /\ result' = "none"
    /\ UNCHANGED <<formula, assumed>>

\* The answer, which may come at once.
Answer ==
    /\ call \in {"none", "solve"} /\ call' = "none"
    /\ result' = IF Satisfiable(Question) THEN "Sat" ELSE "Unsat"
    /\ UNCHANGED <<formula, assumed>>

Next ==
    \/ \E C \in Clauses : Give(C)
    \/ \E L \in Clauses : Assume(L)
    \/ Updated \/ Ask \/ Answer

Spec == Init /\ [][Next]_vars
=============================================================================
