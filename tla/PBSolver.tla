------------------------------ MODULE PBSolver ------------------------------
(***************************************************************************)
(* The search of module Solver on problems with cardinality and            *)
(* pseudo-boolean constraints (solver/solver.go): with learnClause, which  *)
(* takes them for reasons like clauses, or with cutting planes, which      *)
(* learns constraints (propagateAndSearchPB).  A client solves, and        *)
(* appends constraints with AppendClause.                                  *)
(*                                                                         *)
(* Activities and the certificate are left out.  The client's calls of     *)
(* module Solver have no instance here: its constants are empty sets.      *)
(***************************************************************************)
EXTENDS Solver, CuttingPlanes

CONSTANTS
    PBProblems,     \* simplified problems: [clauses, units, constraints]
    Appended,       \* constraints the client may append
    CuttingModes,   \* the values of s.CuttingPlanes
    LubyConstant    \* lubyConstant, 512 in the code

ASSUME CuttingAssumption == CuttingModes \subseteq BOOLEAN /\ LubyConstant \in Nat \ {0}

\* What NewPBClause and the parsers give: positive weights in decreasing order,
\* no variable twice.
AsGiven(b) ==
    /\ b \in Constraints /\ Len(b.weights) = Len(b.lits)
    /\ \A i, j \in DOMAIN b.lits : i < j => VarOf(b.lits[i]) # VarOf(b.lits[j])
    /\ \A i, j \in DOMAIN b.weights : i < j => b.weights[i] >= b.weights[j]
    /\ b.pb \/ \A i \in DOMAIN b.weights : b.weights[i] = 1

\* Clauses have two variables at least, none twice; no two units are opposite,
\* but addUnit may add the same one again.
ClausesGiven(pb) ==
    /\ pb.clauses \in Seq(Seq(Lits)) /\ pb.units \in Seq(Lits)
    /\ \A c \in DOMAIN pb.clauses :
        LET C == pb.clauses[c] IN
        Len(C) >= 2 /\ \A i, j \in DOMAIN C : i < j => VarOf(C[i]) # VarOf(C[j])
    /\ \A i, j \in DOMAIN pb.units : pb.units[i] # Negation(pb.units[j])

\* Once a problem is simplified, a constraint is satisfiable without any one of
\* its literals.
ASSUME PBAssumption ==
    /\ \A b \in Appended : AsGiven(b)
    /\ \A pb \in PBProblems :
        /\ ClausesGiven(pb) /\ pb.constraints \in Seq(Constraints)
        /\ \A c \in DOMAIN pb.constraints :
            LET b == pb.constraints[c] IN
            /\ AsGiven(b) /\ b.lits # <<>> /\ (b.pb \/ b.card > 1)
            /\ \A i \in DOMAIN b.lits :
                /\ SumOf(b.weights, DOMAIN b.lits \ {i}) >= b.card
                /\ \A u \in Range(pb.units) : VarOf(b.lits[i]) # VarOf(u)

VARIABLES
    cutting,        \* s.CuttingPlanes
    pending,        \* units still to be bound at level 1
    nextRestart,    \* s.lubyNextRestart
    nbRestarts,     \* s.Stats.NbRestarts
    problem         \* history: the constraints given by the client

pbCtlVars == <<cutting, pending, nextRestart, nbRestarts, problem>>

pbSolverVars == <<vars, pbVars, cutVars, pbCtlVars>>

\* What a constraint given by the client is made of.
Given(b) == [lits |-> b.lits, weights |-> b.weights, card |-> b.card]

GivenClause(C) == [lits |-> C, weights |-> [i \in DOMAIN C |-> 1], card |-> 1]

-----------------------------------------------------------------------------
(* New, and luby.                                                          *)

Luby[i \in Nat] ==
    IF \E k \in 1 .. i : i = 2 ^ k - 1
    THEN (i + 1) \div 2
    ELSE LET k == CHOOSE k \in 1 .. i : 2 ^ (k - 1) <= i /\ i < 2 ^ k - 1
         IN Luby[i - 2 ^ (k - 1) + 1]

\* The identifiers of the constraints follow those of the clauses.
NewPB(pb) ==
    LET n == Len(pb.clauses) IN
    /\ New([clauses |-> pb.clauses \o [c \in DOMAIN pb.constraints |-> pb.constraints[c].lits],
            units |-> pb.units])
    /\ pbs = [c \in n + 1 .. n + Len(pb.constraints) |-> pb.constraints[c - n]]
    /\ problem = Range([c \in DOMAIN pb.clauses |-> GivenClause(pb.clauses[c])])
           \union Range([c \in DOMAIN pb.constraints |-> Given(pb.constraints[c])])
           \union Range([i \in DOMAIN pb.units |-> GivenClause(<<pb.units[i]>>)])
    /\ wlistPb = [l \in Lits |-> InOrder({c \in DOMAIN pbs :
            \E i \in Watched(pbs[c]) : LitAt(c, i) = Negation(l)})]

PBInit ==
    /\ \E pb \in PBProblems : NewPB(pb)
    /\ wlistBin = WatchLists(BinaryIds \ DOMAIN pbs)
    /\ wlist = WatchLists(ClauseIds \ (BinaryIds \union DOMAIN pbs))
    /\ visiting = <<>> /\ pos = 1
    /\ cutting \in CuttingModes
    /\ nextRestart = LubyConstant * Luby[1] /\ nbRestarts = 0
    /\ pending = <<>> /\ cut = NoCut /\ cutPtr = 0
    /\ reason = [v \in Vars |-> Nil] /\ locked = {} /\ learned = {}
    /\ polarity = [v \in Vars |-> FALSE] /\ queue = Vars
    /\ nbMax = InitNbMax /\ idxReduce = 1
    /\ ptr = 1 /\ todoBin = {} /\ todo = {} /\ confl = Nil
    /\ lvl = 1 /\ pc = "idle"
    /\ met = {} /\ metLvl = {} /\ lits = {} /\ nbLvl = 0 /\ walk = 0
    /\ assumptions = {} /\ lit = NoLit /\ ret = "none" /\ status = "Indet"
    /\ nbConflicts = 0 /\ recent = 0 /\ lastModel = [v \in Vars |-> 0]
    /\ cert = <<>> /\ assumed = {} /\ nbCalls = 0 /\ result = "none"

-----------------------------------------------------------------------------
(* What is common to both searches.                                        *)

PBPropagate ==
    /\ PBPropagateStep
    /\ UNCHANGED <<learnVars, assumptions, ctlVars, cert, clientVars, cutVars, pbCtlVars>>

\* Steps of module Solver; those of the branching loop belong to learnClause.
ClauseStep ==
    /\ \/ Search \/ UnifyLiteral
       \/ ResolveReason \/ LearnFalse \/ UnitPropagated \/ UnitConflict
       \/ \E u \in AssertingLits : LearnUnit(u)
       \/ \E u \in AssertingLits, s \in SecondLits(Minimized) : LearnClause(u, s)
       \/ ~ cutting /\ (Restart \/ Branch \/ Conflict)
    /\ UNCHANGED <<pbVars, cutVars, pbCtlVars>>

\* Solve returns Unsat; no line is written for the constraints.
AnswerUnsat ==
    /\ status' = "Unsat" /\ result' = "Unsat"
    /\ pc' = "idle" /\ ret' = "none" /\ lit' = NoLit /\ confl' = Nil
    /\ cut' = NoCut /\ cutPtr' = 0 /\ pending' = <<>>

Panic ==
    /\ pc' = "panic"
    /\ UNCHANGED <<bindingVars, lvl, status, result, ret, lit, confl, cutVars, pending>>

BindKeeps ==
    UNCHANGED <<dbVars, wlist, wlistBin, ptr, todoBin, todo, learnVars, assumptions, nbConflicts,
                cert, lastModel, formula, assumed, nbCalls, pbVars, cutting, nextRestart,
                nbRestarts, problem>>

SearchKeeps == BindKeeps /\ UNCHANGED recent

-----------------------------------------------------------------------------
(* propagateAndSearchPB.                                                   *)

\* No conflict, Luby's restart.
LubyRestart ==
    /\ cutting /\ Propagated /\ ret = "branch"
    /\ nbConflicts >= nextRestart
    /\ nextRestart' = nextRestart + LubyConstant * Luby[nbRestarts + 2]
    /\ nbRestarts' = nbRestarts + 1
    /\ CleanupBindings(1)
    /\ reason' = CleanReason(1) /\ locked' = CleanLocked(1)
    /\ queue' = OrderHeap(CleanModel(1))
    /\ pc' = "search" /\ ret' = "none"
    /\ UNCHANGED <<dbVars, wlist, wlistBin, propVars, lvl, learnVars, assumptions, lit, status,
                   nbConflicts, recent, cert, clientVars, pbVars, cutVars, cutting, pending,
                   problem>>

\* reduceLearnedPB: the first half by activity, which is abstracted; no learned
\* constraint has the bit that isLocked wants.
CutBranch ==
    /\ cutting /\ Propagated
    /\ \/ ret = "cut" /\ UNCHANGED <<learned, wlistPb, nbMax, idxReduce>>
       \/ /\ ret = "branch" /\ nbConflicts < nextRestart
          /\ ~ MustReduce /\ UNCHANGED <<learned, wlistPb, nbMax, idxReduce>>
       \/ /\ ret = "branch" /\ nbConflicts < nextRestart
          /\ MustReduce
          /\ idxReduce' = (nbConflicts \div nbMax) + 1
          /\ nbMax' = nbMax + IncrNbMax
          /\ \E H \in kSubset(Cardinality(learned) \div 2, learned) :
                learned' = learned \ H /\ wlistPb' = Unwatched(H)
    /\ ChooseLit(queue, model, polarity, lvl + 1)
    /\ UNCHANGED <<model, trail, reason, locked, polarity, clauses, watched, lbd, wlist,
                   wlistBin, propVars, learnVars, assumptions, nbConflicts, recent, cert,
                   formula, assumed, nbCalls, pbs, visiting, pos, cutVars, pbCtlVars>>

CutConflict ==
    /\ cutting /\ pc = "conflict" /\ ret \in {"branch", "cut"}
    /\ nbConflicts' = nbConflicts + 1
    /\ StartCut(confl)
    /\ pc' = "cut" /\ confl' = Nil
    /\ UNCHANGED <<bindingVars, dbVars, wlist, wlistBin, ptr, todoBin, todo, lvl, learnVars,
                   assumptions, lit, ret, status, recent, cert, clientVars, pbVars, pbCtlVars>>

\* One turn of the loop of cuttingPlanes.
CutTurn ==
    /\ pc = "cut" /\ ~ OnlyFalsified
    /\ \/ /\ lvl = 1                           \* top-level conflict
          /\ AnswerUnsat
          /\ UNCHANGED <<bindingVars, lvl>>
       \/ /\ lvl # 1
          /\ IF Falsified = {}
             THEN Panic                        \* past the start of the trail
             ELSE /\ WalkDown(Max(Falsified))
                  /\ UNCHANGED <<trail, reason, locked, polarity, queue, status, result, pc,
                                 ret, lit, confl, pending>>
    /\ SearchKeeps

\* The only literal that is false is found: its negation will be propagated, at
\* the level given by the constraint before it is rounded.
CutRound ==
    /\ pc = "cut" /\ OnlyFalsified
    /\ \E l \in LastFalsified :
        /\ lit' = Negation(l)
        /\ lvl' = BacktrackLevel(cut, VarOf(l))
        /\ cut' = RoundToOne(cut, VarOf(l), model)
    /\ pc' = "learned"
    /\ UNCHANGED <<bindingVars, status, result, ret, confl, cutPtr, pending>>
    /\ SearchKeeps

\* The constraint is learned and watched, after those lvl leaves on the trail.
LearnPB ==
    LET c == Len(clauses) + 1
        b == Simplified(cut)
    IN
    /\ clauses' = Append(clauses, Range(b.lits))
    /\ watched' = Append(watched, <<Head(b.lits), Last(b.lits)>>)
    /\ lbd' = Append(lbd, 1)           \* read by nobody, but not 0
    /\ learned' = learned \union {c}
    /\ pbs' = WithConstraint(c, b)
    /\ wlistPb' = WatchConstraint(wlistPb, c, b)
    /\ CleanupBindings(lvl)
    /\ reason' = [CleanReason(lvl) EXCEPT ![VarOf(lit)] = c]
    /\ locked' = CleanLocked(lvl) /\ queue' = CleanQueue(lvl)
    /\ pc' = "unify" /\ ret' = "cut" /\ cut' = NoCut /\ cutPtr' = 0
    /\ UNCHANGED <<nbMax, idxReduce, wlist, wlistBin, propVars, lvl, learnVars, assumptions, lit,
                   nbConflicts, recent, cert, clientVars, status, visiting, pos, pbCtlVars>>

LearnUnits(units) ==
    /\ pending' = units
    /\ pc' = "bind" /\ ret' = "units" /\ cut' = NoCut /\ cutPtr' = 0
    /\ UNCHANGED <<bindingVars, lvl, status, result, lit, confl>>

\* The end of cuttingPlanes: NewPBClause and SimplifyPB.
CutEnd ==
    /\ pc = "learned"
    /\ IF cut.card < 1
       THEN Panic /\ SearchKeeps
       ELSE \/ /\ Threshold(cut) < 0
               /\ AnswerUnsat
               /\ UNCHANGED <<bindingVars, lvl>> /\ SearchKeeps
            \/ /\ Threshold(cut) >= 0 /\ Units(cut) # {}
               /\ LearnUnits(UnitLits(cut)) /\ SearchKeeps
            \/ /\ Threshold(cut) >= 0 /\ Units(cut) = {} /\ lvl = 1
               /\ LearnUnits(<<lit>>) /\ SearchKeeps
            \/ /\ Threshold(cut) >= 0 /\ Units(cut) = {} /\ lvl # 1
               /\ LearnPB

-----------------------------------------------------------------------------
(* Units of the top level, learned or given.                               *)

FalseAtTop(l) == Level(VarOf(l)) = 1 /\ IsFalse(l)

\* The next unit is bound at level 1, whatever it is bound to: propagateUnits
\* does not look, and propagateAndSearchPB does at its learned units.
BindUnit ==
    /\ pc = "bind" \/ (Propagated /\ ret \in {"units", "append"} /\ pending # <<>>)
    /\ LET u == Head(pending) IN
       IF ret = "units" /\ FalseAtTop(u)
       THEN /\ AnswerUnsat
            /\ UNCHANGED <<bindingVars, lvl, recent>>
       ELSE /\ recent' = AddLbd(recent)
            /\ CleanupBindings(1)
            /\ reason' = CleanReason(1) /\ locked' = CleanLocked(1)
            /\ queue' = CleanQueue(1)
            /\ lit' = u /\ lvl' = 1 /\ pc' = "unify"
            /\ pending' = Tail(pending)
            /\ UNCHANGED <<status, result, ret, confl, cutVars>>
    /\ BindKeeps

\* No learned unit is left: the search goes on from level 2.
UnitsBound ==
    /\ Propagated /\ ret = "units" /\ pending = <<>>
    /\ ChooseLit(OrderHeap(model), model, polarity, 2)
    /\ UNCHANGED <<model, trail, reason, locked, polarity, dbVars, wlist, wlistBin, propVars,
                   learnVars, assumptions, nbConflicts, recent, cert, formula, assumed, nbCalls,
                   pbVars, cutVars, pbCtlVars>>

UnitsConflict ==
    /\ pc = "conflict" /\ ret = "units"
    /\ AnswerUnsat
    /\ UNCHANGED <<bindingVars, lvl>> /\ SearchKeeps

\* The end of propagateUnits.
AppendReturns ==
    /\ pc = "conflict" \/ pending = <<>>
    /\ CallReturns
    /\ pending' = <<>>
    /\ UNCHANGED <<pbVars, cutVars, cutting, nextRestart, nbRestarts, problem>>

-----------------------------------------------------------------------------
(* AppendClause.                                                           *)

\* What removeLit makes of a constraint when the literals at the positions I
\* stay: each hole is filled with the last literal left.
Kept(b, I) ==
    LET n == Cardinality(I)
        holes == (1 .. n) \ I
        last == {i \in I : i > n}
        from == [i \in 1 .. n |->
            IF i \in I THEN i
            ELSE Nth(last, Cardinality({h \in holes : h >= i}))]
    IN [lits |-> [i \in 1 .. n |-> b.lits[from[i]]],
        weights |-> [i \in 1 .. n |-> b.weights[from[i]]]]

\* appendClause: a cardinality that fell to 1 is watched like a clause.
WatchAppended(b, rest, card) ==
    LET c == Len(clauses) + 1
        new == NewConstraint(rest.lits, rest.weights, card, b.pb)
    IN
    IF b.pb \/ card > 1
    THEN /\ clauses' = Append(clauses, Range(rest.lits))
         /\ watched' = Append(watched, <<Head(rest.lits), Last(rest.lits)>>)
         /\ lbd' = Append(lbd, 0)
         /\ pbs' = WithConstraint(c, new) /\ wlistPb' = WatchConstraint(wlistPb, c, new)
         /\ UNCHANGED <<wlist, wlistBin>>
    ELSE /\ AddClause(Range(rest.lits), rest.lits[1], rest.lits[2], 0)
         /\ UNCHANGED <<pbs, wlistPb>>

AppendPB(b) ==
    LET m == CleanModel(1)
        bound == {i \in DOMAIN b.lits : m[VarOf(b.lits[i])] # 0}
        sat == {i \in bound : (m[VarOf(b.lits[i])] > 0) = IsPositive(b.lits[i])}
        free == DOMAIN b.lits \ bound
        rest == Kept(b, free)
        minW == SumOf(b.weights, sat)
        maxW == SumOf(b.weights, sat \union free)
    IN
    /\ pc = "idle" /\ nbCalls < MaxCalls
    /\ nbCalls' = nbCalls + 1
    /\ problem' = problem \union {Given(b)}
    /\ result' = "none"
    /\ CleanupBindings(1)
    /\ reason' = CleanReason(1) /\ locked' = CleanLocked(1) /\ queue' = CleanQueue(1)
    /\ \/ /\ minW >= b.card
          /\ UNCHANGED <<clauses, watched, lbd, wlist, wlistBin, pbs, wlistPb, status, pc, ret, pending>>
       \/ /\ minW < b.card /\ maxW < b.card
          /\ status' = "Unsat"
          /\ UNCHANGED <<clauses, watched, lbd, wlist, wlistBin, pbs, wlistPb, pc, ret, pending>>
       \/ /\ minW < b.card /\ maxW = b.card
          /\ pc' = "bind" /\ ret' = "append" /\ pending' = rest.lits
          /\ UNCHANGED <<clauses, watched, lbd, wlist, wlistBin, pbs, wlistPb, status>>
       \/ /\ minW < b.card /\ maxW > b.card
          /\ WatchAppended(b, rest, b.card - minW)
          /\ UNCHANGED <<status, pc, ret, pending>>
    /\ UNCHANGED <<learned, nbMax, idxReduce, propVars, lvl, learnVars, assumptions, lit,
                   nbConflicts, recent, cert, lastModel, formula, assumed, visiting, pos,
                   cutVars, cutting, nextRestart, nbRestarts>>

PBSearchStep ==
    \/ PBPropagate \/ ClauseStep
    \/ LubyRestart \/ CutBranch \/ CutConflict \/ CutTurn \/ CutRound \/ CutEnd
    \/ BindUnit \/ UnitsBound \/ UnitsConflict \/ AppendReturns

PBNext ==
    \/ PBSearchStep
    \/ Solve /\ UNCHANGED <<pbVars, cutVars, pbCtlVars>>
    \/ \E b \in Appended : AppendPB(b)

PBSpec == PBInit /\ [][PBNext]_pbSolverVars

\* The code of a call runs without waiting for anything.
PBFairSpec == PBSpec /\ WF_pbSolverVars(PBSearchStep)
=============================================================================
