------------------------------ MODULE Bindings ------------------------------
(***************************************************************************)
(* The current partial assignment of the solver (solver/solver.go): the    *)
(* signed decision levels, the trail, the reasons, the saved polarities    *)
(* and the queue of variables to decide.                                   *)
(*                                                                         *)
(* The activity heap is abstracted to the set of the variables it holds:   *)
(* which unbound variable comes out first is a choice.  Bound variables in *)
(* the heap are skipped by chooseLit and tested by nothing else, so they   *)
(* are dropped as soon as chooseLit runs.                                  *)
(***************************************************************************)
EXTENDS Lits, Sequences, FiniteSetsExt

VARIABLES
    model,      \* signed decision level of each variable, 0 when unbound
    trail,      \* literals made true, oldest first
    reason,     \* the clause that propagated each variable, or Nil
    locked,     \* clauses whose locked bit is set
    polarity,   \* last sign of each variable
    queue       \* the variables in varQueue

bindingVars == <<model, trail, reason, locked, polarity, queue>>

Abs(n) == IF n < 0 THEN -n ELSE n

Level(v) == Abs(model[v])

LvlToSignedLvl(l, lvl) == IF IsPositive(l) THEN lvl ELSE -lvl

\* litStatus: "Indet", "Sat" or "Unsat" under the current bindings.
LitStatus(l) ==
    IF model[VarOf(l)] = 0 THEN "Indet"
    ELSE IF (model[VarOf(l)] > 0) = IsPositive(l) THEN "Sat" ELSE "Unsat"

IsFalse(l) == LitStatus(l) = "Unsat"

-----------------------------------------------------------------------------
(* cleanupBindings(lvl), as the values it leaves in each variable.  The    *)
(* trail is cut at the first literal of a higher level.                    *)

\* Variant for TLC: never undoes level 1.
AboveTop(lvl) == {i \in 1 .. Len(trail) : Level(VarOf(trail[i])) > lvl /\ lvl > 0}

\* Variant for TLC: keeps one level too many.
AboveNext(lvl) == {i \in 1 .. Len(trail) : Level(VarOf(trail[i])) > lvl + 1}

Above(lvl) == {i \in 1 .. Len(trail) : Level(VarOf(trail[i])) > lvl}

KeptLen(lvl) == IF Above(lvl) = {} THEN Len(trail) ELSE Min(Above(lvl)) - 1

Dropped(lvl) == {VarOf(trail[i]) : i \in KeptLen(lvl) + 1 .. Len(trail)}

CleanTrail(lvl) == SubSeq(trail, 1, KeptLen(lvl))

CleanModel(lvl) ==
    [v \in Vars |-> IF v \in Dropped(lvl) THEN 0 ELSE model[v]]

CleanReason(lvl) ==
    [v \in Vars |-> IF v \in Dropped(lvl) THEN Nil ELSE reason[v]]

CleanLocked(lvl) == locked \ {reason[v] : v \in Dropped(lvl)}

\* The saved sign is the sign the variable had on the trail.
CleanPolarity(lvl) ==
    [v \in Vars |-> IF v \in Dropped(lvl) THEN SignedLit(v, FALSE) \in Range(trail)
                    ELSE polarity[v]]

\* Variant for TLC: the variables are not put back.
CleanQueueKept(lvl) == queue

CleanQueue(lvl) == queue \union Dropped(lvl)

\* rebuildOrderHeap: the slice starts with nbVars zeroes, so that variable 0
\* is in the heap whether or not it is bound.
OrderHeap(m) == {v \in Vars : v = 0 \/ m[v] = 0}
=============================================================================
