--------------------------------- MODULE Mus ---------------------------------
(***************************************************************************)
(* What extracting a minimal unsatisfiable subset (MUS) promises: of an    *)
(* unsatisfiable problem, a subset that is unsatisfiable and of which no   *)
(* clause can be left out; otherwise, that the problem is satisfiable.     *)
(* Clauses are told apart by their index.                                  *)
(***************************************************************************)
EXTENDS Lits, Sequences, SequencesExt

VARIABLES
    problem,    \* the clauses, a sequence of sequences of literals
    candidates, \* indices of the clauses that may still be in the subset
    needed,     \* indices of those known to be in it
    result      \* [kind |-> "none", "mus" or "satisfiable", ids |-> the subset]

vars == <<problem, candidates, needed, result>>

ClausesAt(cs, I) == {Range(cs[i]) : i \in I}

All == DOMAIN problem

NoResult == [kind |-> "none", ids |-> {}]

\* The subset I of the clauses is unsatisfiable, each strict subset of it is not.
IsMus(cs, I) ==
    /\ ~ Satisfiable(ClausesAt(cs, I))
    /\ \A i \in I : Satisfiable(ClausesAt(cs, I \ {i}))

Init == candidates = All /\ needed = {} /\ result = NoResult

\* A question is asked, again maybe.
Begin ==
    /\ candidates' = All /\ needed' = {} /\ result' = NoResult
    /\ UNCHANGED problem

\* Clauses are left out, as long as the others are unsatisfiable, and some are
\* found to be needed for that.
Narrow ==
    /\ result = NoResult
    /\ candidates' \in SUBSET candidates /\ ~ Satisfiable(ClausesAt(problem, candidates'))
    /\ needed' \in SUBSET candidates' /\ needed \subseteq needed'
    /\ \A i \in needed' \ needed : Satisfiable(ClausesAt(problem, candidates' \ {i}))
    /\ UNCHANGED <<problem, result>>

Return ==
    /\ result = NoResult /\ needed = candidates
    /\ ~ Satisfiable(ClausesAt(problem, candidates))
    /\ result' = [kind |-> "mus", ids |-> candidates]
    /\ UNCHANGED <<problem, candidates, needed>>

Refuse ==
    /\ result = NoResult /\ Satisfiable(ClausesAt(problem, All))
    /\ result' = [kind |-> "satisfiable", ids |-> {}]
    /\ UNCHANGED <<problem, candidates, needed>>

Next == Begin \/ Narrow \/ Return \/ Refuse

Spec == Init /\ [][Next]_vars

-----------------------------------------------------------------------------
\* What is returned is right.
ResultRight ==
    /\ result.kind = "mus" => IsMus(problem, result.ids)
    /\ result.kind = "satisfiable" => Satisfiable(ClausesAt(problem, All))

\* The clauses known to be needed stay so when others are left out.
MusInv ==
    /\ needed \subseteq candidates
    /\ \A i \in needed : Satisfiable(ClausesAt(problem, candidates \ {i}))
    /\ ResultRight
=============================================================================
