----------------------------- MODULE Enumerate ------------------------------
(***************************************************************************)
(* Enumerate and CountModels of solver/solver.go.  Both search for a       *)
(* model, count it, exclude it with the negations of its decisions, and    *)
(* search on from where they are, until nothing is left.                   *)
(*                                                                         *)
(* The models are not sent anywhere: what a reader of the channel receives *)
(* is the history variable found.  The status propagateAndSearch returns   *)
(* is dropped by the code, which then calls search; with every variable    *)
(* bound search answers Sat at once, so the two steps are one here.        *)
(***************************************************************************)
EXTENDS SolverSafety

VARIABLES
    count,      \* history: the call, "none", "running" or "done"
    nb,         \* the models counted so far
    found       \* history: those models, as functions from Vars to BOOLEAN

enumVars == <<count, nb, found>>

EnumInit == Init /\ count = "none" /\ nb = 0 /\ found = {}

-----------------------------------------------------------------------------

\* Enumerate or CountModels is called.
CallCount ==
    /\ pc = "idle" /\ count = "none"
    /\ count' = "running" /\ nb' = 0 /\ found' = {}
    /\ UNCHANGED vars

\* s.search() as long as the status is Indet.
SearchOn ==
    /\ count = "running" /\ pc = "idle" /\ status = "Indet"
    /\ pc' = "search"
    /\ UNCHANGED <<bindingVars, dbVars, wlist, wlistBin, propVars, lvl, learnVars,
                   assumptions, ctlVars, cert, clientVars, enumVars>>

\* The heap is not rebuilt: it has the variables that were unbound.
RestartOn == Restarted(CleanQueue(1))

\* countCurrentModels, addCurrentModels: unbound variables take both values.
CurrentModels ==
    {f \in [Vars -> BOOLEAN] : \A v \in Vars : model[v] # 0 => f[v] = (model[v] > 0)}

NbCurrent == 2 ^ Cardinality({v \in Vars : model[v] = 0})

\* lvls - 1: level 1 is not a decision.
NbDecisions == Level(VarOf(trail[Len(trail)])) - 1

DecidedAt(level) == {v \in Vars : reason[v] = Nil /\ Level(v) = level}

\* Variant for TLC: the decision itself.
DecisionLitKept(i) ==
    IF DecidedAt(i + 1) = {} THEN 0
    ELSE LET v == Max(DecidedAt(i + 1)) IN SignedLit(v, model[v] < 0)

\* decisionLits: a level without a decision leaves the literal 0 of make.
DecisionLit(i) ==
    IF DecidedAt(i + 1) = {} THEN 0
    ELSE LET v == Max(DecidedAt(i + 1)) IN SignedLit(v, model[v] > 0)

DecisionLits == [i \in 1 .. NbDecisions |-> DecisionLit(i)]

\* The current models are counted.
Counted ==
    /\ count = "running" /\ pc = "idle" /\ status = "Sat" /\ trail # <<>>
    /\ nb' = nb + NbCurrent
    /\ found' = found \union CurrentModels
    /\ lastModel' = model
    /\ UNCHANGED count

\* Nothing was decided: there is no other model.
CountedLast ==
    /\ Counted
    /\ NbDecisions = 0
    /\ status' = "Unsat"
    /\ UNCHANGED <<bindingVars, dbVars, wlist, wlistBin, propVars, lvl, pc, learnVars,
                   assumptions, lit, ret, nbConflicts, recent, cert, formula, assumed,
                   nbCalls, result>>

\* propagateUnits on the negation of the only decision.
CountedUnit ==
    /\ Counted
    /\ NbDecisions = 1
    /\ status' = "Indet"
    /\ recent' = AddLbd(recent)
    /\ CleanupBindings(1)
    /\ reason' = CleanReason(1) /\ locked' = CleanLocked(1) /\ queue' = CleanQueue(1)
    /\ lit' = DecisionLit(1) /\ lvl' = 1 /\ ret' = "append" /\ pc' = "unify"
    /\ UNCHANGED <<dbVars, wlist, wlistBin, propVars, learnVars, assumptions,
                   nbConflicts, cert, formula, assumed, nbCalls, result>>

\* Variant for TLC: the last decision is undone with its level.
BlockLevelTop == NbDecisions + 1

\* The level below the last decision, where its negation is propagated.
BlockLevel == NbDecisions

\* The clause with the negations is added, and is unit once the last decision
\* is undone.  It is watched at its two literals of lowest levels.
CountedClause ==
    LET ds == DecisionLits
        l == ds[Len(ds)]
        c == Len(clauses) + 1
    IN
    /\ Counted
    /\ NbDecisions > 1
    /\ status' = "Indet"
    /\ AddClause(Range(ds), ds[1], ds[2], 0)
    /\ CleanupBindings(BlockLevel)
    /\ reason' = [CleanReason(BlockLevel) EXCEPT ![VarOf(l)] = c]
    /\ locked' = CleanLocked(BlockLevel) /\ queue' = CleanQueue(BlockLevel)
    /\ lit' = l /\ lvl' = BlockLevel /\ ret' = "branch" /\ pc' = "unify"
    /\ UNCHANGED <<learned, nbMax, idxReduce, propVars, learnVars, assumptions,
                   nbConflicts, recent, cert, formula, assumed, nbCalls, result>>

CountReturns ==
    /\ count = "running" /\ pc = "idle" /\ status = "Unsat"
    /\ count' = "done"
    /\ UNCHANGED <<vars, nb, found>>

CountStep ==
    \/ (CallStep \/ RestartOn) /\ UNCHANGED enumVars
    \/ SearchOn \/ CountedLast \/ CountedUnit \/ CountedClause \/ CountReturns

EnumNext ==
    \/ ClientCall /\ count # "running" /\ UNCHANGED enumVars
    \/ CallCount
    \/ CountStep

EnumSpec == EnumInit /\ [][EnumNext]_<<vars, enumVars>>

\* Nothing in the call waits.
EnumFairSpec == EnumSpec /\ WF_<<vars, enumVars>>(CountStep)

-----------------------------------------------------------------------------

Models == {f \in [Vars -> BOOLEAN] : SatAll(f, formula)}

\* When the call returns, what was counted are the models of the clauses:
\* whatever was learned, bound at level 1 or excluded on the way, no other model
\* was lost, and none was made up.
AllModelsFound == count = "done" => found = Models

\* The call returns.
CountEnds == count = "running" ~> count = "done"

\* The documentation of CountModels, "the total number of models": no model is
\* counted twice.
CountedOnce == nb = Cardinality(found)
=============================================================================
