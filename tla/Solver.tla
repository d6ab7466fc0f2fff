------------------------------- MODULE Solver -------------------------------
(***************************************************************************)
(* The CDCL search loop of solver/solver.go and the calls a client makes:  *)
(* New, Solve, AppendClause and Assume, on propositional problems.         *)
(*                                                                         *)
(* Abstracted data: activities (which unbound variable is decided, which   *)
(* of two clauses of equal LBD is removed first), the averages mustRestart *)
(* compares once its window of LbdWindow values is full, statistics and    *)
(* messages.  The variables declared last are history variables: they say  *)
(* what the client asked and what it was told.                             *)
(***************************************************************************)
EXTENDS Learn

CONSTANTS
    Problems,     \* simplified problems: [clauses : sets, units : literals]
    Appendable,   \* clauses the client may append
    Assumable,    \* sets of literals the client may assume
    MaxCalls,   \* bound: calls of AppendClause and Assume
    LbdWindow     \* nbMaxRecent, 50 in the code

\* What ParseSlice hands over: the clauses as slices of at least two literals,
\* none of them repeated, negated in the same clause, or bound by a unit.
WellFormed(pb) ==
    /\ pb.clauses \in Seq(Seq(Lits)) /\ pb.units \in Seq(Lits)
    /\ \A c \in DOMAIN pb.clauses :
        LET C == pb.clauses[c] IN
        /\ Len(C) >= 2
        /\ \A i, j \in DOMAIN C : VarOf(C[i]) = VarOf(C[j]) => i = j
        /\ \A i \in DOMAIN C, j \in DOMAIN pb.units : VarOf(C[i]) # VarOf(pb.units[j])
    /\ \A i, j \in DOMAIN pb.units : VarOf(pb.units[i]) = VarOf(pb.units[j]) => i = j

ASSUME ProblemsAssumption == \A pb \in Problems : WellFormed(pb)

ASSUME ClientAssumption ==
    /\ Appendable \subseteq Clauses /\ \A C \in Appendable : ~ Tautology(C)
    /\ Assumable \subseteq Clauses /\ \A L \in Assumable : ~ Tautology(L)
    /\ MaxCalls \in Nat
    /\ LbdWindow \in Nat \ {0}

VARIABLES
    lit,          \* the literal to unify
    ret,          \* the caller of unifyLiteral or propagate
    status,       \* s.status
    nbConflicts,  \* s.Stats.NbConflicts
    recent,       \* lbdStats.lbdData.nbRecent
    lastModel,    \* s.lastModel
    cert,         \* history: the lines written to the certificate
    formula,      \* history: the clauses given by the client
    assumed,      \* history: the literals assumed by the client
    nbCalls,    \* history: calls of AppendClause and Assume so far
    result        \* history: what the last call of Solve returned, if any

ctlVars == <<lit, ret, status, nbConflicts, recent>>
clientVars == <<lastModel, formula, assumed, nbCalls, result>>
propVars == <<ptr, todoBin, todo, confl>>

vars == <<bindingVars, dbVars, wlist, wlistBin, propVars, lvl, pc, learnVars,
          assumptions, ctlVars, cert, clientVars>>

-----------------------------------------------------------------------------
(* New: the units are on the trail at level 1, every clause is watched at  *)
(* its first two literals, every variable is in the queue.                 *)

\* The lists with every clause in P watched at its two first literals.
WatchLists(P) ==
    [l \in Lits |-> {w \in P \X Lits :
        watched[w[1]] \in {<<Negation(l), w[2]>>, <<w[2], Negation(l)>>}}]

BinaryIds == {c \in ClauseIds : Cardinality(clauses[c]) = 2}

New(pb) ==
    /\ clauses = [c \in 1 .. Len(pb.clauses) |-> Range(pb.clauses[c])]
    /\ watched = [c \in 1 .. Len(pb.clauses) |-> <<pb.clauses[c][1], pb.clauses[c][2]>>]
    /\ lbd = [c \in 1 .. Len(pb.clauses) |-> 0]
    /\ trail = pb.units
    /\ model = [v \in Vars |-> IF SignedLit(v, FALSE) \in Range(pb.units) THEN 1
                               ELSE IF SignedLit(v, TRUE) \in Range(pb.units) THEN -1
                               ELSE 0]
    /\ formula = Range(clauses) \union UnitClauses(Range(pb.units))

Init ==
    /\ \E pb \in Problems : New(pb)
    /\ wlistBin = WatchLists(BinaryIds)
    /\ wlist = WatchLists(ClauseIds \ BinaryIds)
    /\ reason = [v \in Vars |-> Nil]
    /\ locked = {} /\ learned = {}
    /\ polarity = [v \in Vars |-> FALSE]
    /\ queue = Vars
    /\ nbMax = InitNbMax /\ idxReduce = 1
    /\ ptr = 1 /\ todoBin = {} /\ todo = {} /\ confl = Nil
    /\ lvl = 1 /\ pc = "idle"
    /\ met = {} /\ metLvl = {} /\ lits = {} /\ nbLvl = 0 /\ walk = 0
    /\ assumptions = {}
    /\ lit = NoLit /\ ret = "none" /\ status = "Indet"
    /\ nbConflicts = 0 /\ recent = 0
    /\ lastModel = [v \in Vars |-> 0]
    /\ cert = <<>> /\ assumed = {} /\ nbCalls = 0 /\ result = "none"

-----------------------------------------------------------------------------
(* Pieces of the search loop.                                              *)

\* chooseLit on the queue q under the bindings m: Sat is answered when no
\* variable is left, otherwise an unbound one is decided at the given level.
\* Solve keeps the model it found.
ChooseLit(q, m, pol, level) ==
    LET unbound == {v \in q : m[v] = 0} IN
    \/ /\ unbound = {}
       /\ queue' = {}
       /\ status' = "Sat" /\ result' = "Sat" /\ lastModel' = m
       /\ pc' = "idle" /\ lit' = NoLit /\ ret' = "none"
       /\ UNCHANGED lvl
    \/ \E v \in unbound :
       /\ queue' = unbound \ {v}
       /\ lit' = SignedLit(v, ~ pol[v])
       /\ lvl' = level
       /\ pc' = "unify" /\ ret' = "branch"
       /\ UNCHANGED <<status, result, lastModel>>

\* cleanupBindings(level); the queue is left to the caller.
CleanupBindings(level) ==
    /\ model' = CleanModel(level)
    /\ trail' = CleanTrail(level)
    /\ polarity' = CleanPolarity(level)

\* addLbd: the window of recent values fills up.
AddLbd(n) == IF n < LbdWindow THEN n + 1 ELSE n

\* Variant for TLC: the window stays full.
ClearLbdNot == recent

\* clear.
ClearLbd == 0

\* addConflict may clear the window, which postpones the restart.
AfterConflict == {recent} \union {n \in {ClearLbd} : recent = LbdWindow}

\* setUnsat, from propagateAndSearch: Solve returns.
SetUnsat ==
    /\ status' = "Unsat" /\ result' = "Unsat"
    /\ cert' = Append(cert, {})
    /\ pc' = "idle" /\ ret' = "none" /\ confl' = Nil /\ lit' = NoLit

-----------------------------------------------------------------------------
(* The client's calls.                                                     *)

Solve ==
    /\ pc = "idle"
    /\ IF status = "Unsat"
       THEN result' = "Unsat" /\ UNCHANGED <<status, pc>>
       ELSE status' = "Indet" /\ result' = "none" /\ pc' = "search"
    /\ UNCHANGED <<bindingVars, dbVars, wlist, wlistBin, propVars, lvl, learnVars,
                   assumptions, lit, ret, nbConflicts, recent, cert, lastModel,
                   formula, assumed, nbCalls>>

\* Variant for TLC: literals that are false stay.
SimplifiedLitsAll(C, m) == C

\* What is left of an appended clause once the level-1 bindings are removed.
SimplifiedLits(C, m) == {l \in C : m[VarOf(l)] = 0}

\* Variant for TLC: the sign of the binding is not looked at.
SatisfiedByBound(C, m) == \E l \in C : m[VarOf(l)] # 0

SatisfiedBy(C, m) == \E l \in C : m[VarOf(l)] # 0 /\ (m[VarOf(l)] > 0) = IsPositive(l)

AppendClause(C) ==
    LET m == CleanModel(1)
        rest == SimplifiedLits(C, m)
    IN
    /\ pc = "idle" /\ nbCalls < MaxCalls
    /\ nbCalls' = nbCalls + 1
    /\ formula' = formula \union {C}
    /\ result' = "none"
    /\ CleanupBindings(1)
    /\ reason' = CleanReason(1) /\ locked' = CleanLocked(1)
    /\ \/ /\ SatisfiedBy(C, m)
          /\ queue' = CleanQueue(1)
          /\ UNCHANGED <<clauses, watched, lbd, wlist, wlistBin, lvl, lit, ret, pc,
                         status, recent>>
       \/ /\ ~ SatisfiedBy(C, m) /\ rest = {}
          /\ status' = "Unsat"
          /\ queue' = CleanQueue(1)
          /\ UNCHANGED <<clauses, watched, lbd, wlist, wlistBin, lvl, lit, ret, pc,
                         recent>>
       \/ /\ ~ SatisfiedBy(C, m) /\ Cardinality(rest) = 1
          /\ \E l \in rest : lit' = l            \* propagateUnits
          /\ lvl' = 1 /\ ret' = "append" /\ pc' = "unify"
          /\ recent' = AddLbd(recent)
          /\ queue' = CleanQueue(1)
          /\ UNCHANGED <<clauses, watched, lbd, wlist, wlistBin, status>>
       \/ /\ ~ SatisfiedBy(C, m) /\ Cardinality(rest) > 1
          /\ \E f, s \in rest : f # s /\ AddClause(rest, f, s, 0)
          /\ queue' = CleanQueue(1)
          /\ UNCHANGED <<lvl, lit, ret, pc, status, recent>>
    /\ UNCHANGED <<learned, nbMax, idxReduce, propVars, learnVars, assumptions,
                   nbConflicts, cert, lastModel, assumed>>

\* Assume: every binding is undone, then the literals are bound at level 1
\* and propagated together.
Assume(L) ==
    /\ pc = "idle" /\ nbCalls < MaxCalls
    /\ nbCalls' = nbCalls + 1
    /\ assumed' = L /\ result' = "none"
    /\ assumptions' = VarsOf(L)
    /\ trail' \in {f \in [1 .. Cardinality(L) -> L] : Range(f) = L}
    /\ model' = [v \in Vars |-> IF SignedLit(v, FALSE) \in L THEN 1
                                ELSE IF SignedLit(v, TRUE) \in L THEN -1
                                ELSE CleanModel(0)[v]]
    /\ reason' = CleanReason(0) /\ locked' = CleanLocked(0)
    /\ polarity' = CleanPolarity(0) /\ queue' = CleanQueue(0)
    /\ cert' = cert \o [i \in 1 .. Cardinality(L) |-> {trail'[i]}]
    /\ status' = "Indet"
    /\ ptr' = 1 /\ lvl' = 1 /\ ret' = "assume" /\ pc' = "propagate"
    /\ UNCHANGED <<dbVars, wlist, wlistBin, todoBin, todo, confl, learnVars, lit,
                   nbConflicts, recent, lastModel, formula>>

-----------------------------------------------------------------------------
(* The search.                                                             *)

Search ==
    /\ pc = "search"
    /\ ChooseLit(queue, model, polarity, 2)
    /\ UNCHANGED <<model, trail, reason, locked, polarity, dbVars, wlist, wlistBin,
                   propVars, learnVars, assumptions, nbConflicts, recent, cert,
                   formula, assumed, nbCalls>>

UnifyLiteral ==
    /\ pc = "unify"
    /\ model' = [model EXCEPT ![VarOf(lit)] = LvlToSignedLvl(lit, lvl)]
    /\ trail' = Append(trail, lit)
    /\ ptr' = Len(trail) + 1
    /\ pc' = "propagate"
    /\ lit' = NoLit
    /\ UNCHANGED <<reason, locked, polarity, queue, dbVars, wlist, wlistBin, todoBin,
                   todo, confl, lvl, learnVars, assumptions, ret, status,
                   nbConflicts, recent, cert, clientVars>>

Propagate ==
    /\ PropagateStep
    /\ UNCHANGED <<learnVars, assumptions, ctlVars, cert, clientVars>>

\* No conflict, mustRestart: search returns Indet and is called again, with heap.
Restarted(heap) ==
    /\ Propagated /\ ret = "branch"
    /\ recent = LbdWindow
    /\ recent' = ClearLbd
    /\ CleanupBindings(1)
    /\ reason' = CleanReason(1) /\ locked' = CleanLocked(1)
    /\ queue' = heap
    /\ pc' = "search" /\ ret' = "none"
    /\ UNCHANGED <<dbVars, wlist, wlistBin, propVars, lvl, learnVars, assumptions, lit,
                   status, nbConflicts, cert, clientVars>>

\* Solve rebuilds the heap.
Restart == Restarted(OrderHeap(CleanModel(1)))

MustReduce == nbConflicts >= idxReduce * nbMax

\* No conflict, no restart: the learned clauses are reduced when it is time,
\* and a new literal is decided at the next level.
Branch ==
    /\ Propagated /\ ret = "branch"
    /\ \/ /\ ~ MustReduce
          /\ ChooseLit(queue, model, polarity, lvl + 1)
          /\ UNCHANGED <<learned, nbMax, idxReduce, wlist>>
       \/ /\ MustReduce
          /\ \E H \in FirstHalves :
             IF ReducePanics(H)
             THEN /\ pc' = "panic"
                  /\ UNCHANGED <<queue, status, result, lastModel, lvl, lit, ret,
                                 learned, nbMax, idxReduce, wlist>>
             ELSE /\ ReduceLearned(H, nbConflicts)
                  /\ ChooseLit(queue, model, polarity, lvl + 1)
    /\ UNCHANGED <<model, trail, reason, locked, polarity, clauses, watched, lbd,
                   wlistBin, propVars, learnVars, assumptions, nbConflicts, recent,
                   cert, formula, assumed, nbCalls>>

\* A conflict during the search.
Conflict ==
    /\ pc = "conflict" /\ ret = "branch"
    /\ nbConflicts' = nbConflicts + 1
    /\ recent' \in AfterConflict
    /\ StartLearn(confl)
    /\ pc' = "learn"
    /\ UNCHANGED <<bindingVars, dbVars, wlist, wlistBin, propVars, lvl, assumptions, lit,
                   ret, status, cert, clientVars>>

ResolveReason ==
    /\ Resolve
    /\ UNCHANGED <<ctlVars, cert, clientVars>>

\* The empty clause, or a literal that is false at the top level, was learned.
LearnFalse ==
    /\ \/ OnlyAssumed
       \/ /\ Learnt /\ Minimized = {}
          /\ \E u \in AssertingLits : Level(VarOf(u)) = 1 /\ IsFalse(u)
    /\ SetUnsat
    /\ EndLearn
    /\ UNCHANGED <<bindingVars, dbVars, wlist, wlistBin, ptr, todoBin, todo, lvl,
                   assumptions, nbConflicts, recent, formula, assumed, nbCalls,
                   lastModel>>

\* A unit clause was learned: it is bound and propagated at level 1.
LearnUnit(u) ==
    /\ Learnt /\ Minimized = {}
    /\ ~ (Level(VarOf(u)) = 1 /\ IsFalse(u))
    /\ recent' = AddLbd(recent)
    /\ CleanupBindings(1)
    /\ reason' = CleanReason(1) /\ locked' = CleanLocked(1) /\ queue' = CleanQueue(1)
    /\ cert' = Append(cert, {u})
    /\ lit' = u /\ lvl' = 1 /\ ret' = "unit" /\ pc' = "unify"
    /\ confl' = Nil
    /\ EndLearn
    /\ UNCHANGED <<dbVars, wlist, wlistBin, ptr, todoBin, todo, assumptions, status,
                   nbConflicts, clientVars>>

\* A longer clause was learned: backtrack to the level of its second literal,
\* where the first one is propagated.
LearnClause(u, s) ==
    LET C == {u} \union Minimized
        c == Len(clauses) + 1
        btLevel == Level(VarOf(s))
    IN
    /\ Learnt /\ Minimized # {}
    /\ recent' = AddLbd(recent)
    /\ AddClause(C, u, s, ComputeLbd(C))
    /\ learned' = learned \union {c}
    /\ cert' = Append(cert, C)
    /\ CleanupBindings(btLevel)
    /\ reason' = [CleanReason(btLevel) EXCEPT ![VarOf(u)] = c]
    /\ locked' = CleanLocked(btLevel) \union {c}
    /\ queue' = CleanQueue(btLevel)
    /\ lit' = u /\ lvl' = btLevel /\ pc' = "unify"
    /\ confl' = Nil
    /\ EndLearn
    /\ UNCHANGED <<nbMax, idxReduce, ptr, todoBin, todo, assumptions, ret, status,
                   nbConflicts, clientVars>>

\* The learned unit was propagated without conflict: search on from level 2.
UnitPropagated ==
    /\ Propagated /\ ret = "unit"
    /\ ChooseLit(OrderHeap(model), model, polarity, 2)
    /\ UNCHANGED <<model, trail, reason, locked, polarity, dbVars, wlist, wlistBin,
                   propVars, learnVars, assumptions, nbConflicts, recent, cert,
                   formula, assumed, nbCalls>>

\* The learned unit leads to a conflict at the top level.
UnitConflict ==
    /\ pc = "conflict" /\ ret = "unit"
    /\ SetUnsat
    /\ UNCHANGED <<bindingVars, dbVars, wlist, wlistBin, ptr, todoBin, todo, lvl,
                   learnVars, assumptions, nbConflicts, recent, formula, assumed,
                   nbCalls, lastModel>>

\* End of propagateUnits, for AppendClause, and of Assume.
CallReturns ==
    /\ ret \in {"append", "assume"}
    /\ \/ /\ Propagated
          /\ queue' = IF ret = "append" THEN OrderHeap(model) ELSE queue
          /\ UNCHANGED status
       \/ /\ pc = "conflict"
          /\ status' = "Unsat"
          /\ UNCHANGED queue
    /\ pc' = "idle" /\ ret' = "none" /\ confl' = Nil
    /\ UNCHANGED <<model, trail, reason, locked, polarity, dbVars, wlist, wlistBin, ptr,
                   todoBin, todo, lvl, learnVars, assumptions, lit, nbConflicts,
                   recent, cert, clientVars>>

\* The steps of a call but its restarts.
CallStep ==
    \/ Search \/ UnifyLiteral \/ Propagate \/ Branch \/ Conflict
    \/ ResolveReason \/ LearnFalse \/ UnitPropagated \/ UnitConflict \/ CallReturns
    \/ \E u \in AssertingLits : LearnUnit(u)
    \/ \E u \in AssertingLits, s \in SecondLits(Minimized) : LearnClause(u, s)

SearchStep == Restart \/ CallStep

ClientCall ==
    \/ Solve
    \/ \E C \in Appendable : AppendClause(C)
    \/ \E L \in Assumable : Assume(L)

Next == ClientCall \/ SearchStep

Spec == Init /\ [][Next]_vars

\* The code of a call runs without waiting for anything.
FairSpec == Spec /\ WF_vars(SearchStep)
=============================================================================
