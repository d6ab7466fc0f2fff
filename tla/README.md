# A TLA+ model of gophersat

gophersat (`src/`) solves propositional and pseudo-boolean problems with
conflict-driven clause learning (CDCL), optimises a linear cost function,
enumerates models, and explains unsatisfiable problems. This directory holds
TLA+ modules translated from its Go code, TLC configurations that model-check
them, and proofs checked by TLAPS. `PROJECT.json` maps every definition to the
lines it models and lists the runs, hazards, findings and theorems.

Contents: [the system](#the-system) - [the modules](#the-modules) -
[runs](#runs) - [what disagrees with the code's documentation](#disagreements) -
[proofs](#proofs) - [what is left out](#left-out) - [plan](#plan).

## The system

Everything runs in the goroutine of the caller: `solver.Solver` has no locks and
no background work but the ticker of the verbose mode. Goroutines and channels
appear at the border (results of `Optimal`, models of `Enumerate`, lines of the
certificate). So the hard part is not concurrency but long sequences of legal
calls and steps over shared mutable state: watch lists that alias clauses,
reasons that alias clauses being removed, bindings undone and done again,
constraints simplified under bindings that outlive or do not outlive them.

| Part | State it keeps | Operations | Talks to | Correct when |
|---|---|---|---|---|
| literals (`types.go`) | none | conversions | everyone | `Lit` and CNF numbers agree, negation flips the sign |
| bindings (`solver.go`) | `model` (signed levels), `trail`, `reason`, lock bits, `polarity` | `unifyLiteral`, `cleanupBindings`, `litStatus` | search, propagation, learning | trail, levels and reasons tell the same story |
| activity heap (`queue.go`) | `content`, `indices`, `activity` | insert, removeMin, decrease, build | `chooseLit`, bumps, backjumps | no unbound variable is ever missing |
| watch lists (`watcher.go`) | `wlist`, `wlistBin`, `wlistPb`, `learned`, `nbMax`, `idxReduce` | watch, unwatch, propagate, reduceLearned | clauses, bindings | no implication or conflict is missed, no reason is removed |
| conflict analysis (`learn.go`, `sort.go`) | `met`, `metLvl`, shared `bufLits` | learnClause, minimizeLearned, computeLbd | trail, reasons | the learned clause follows, and is unit after the backjump |
| restarts (`lbd.go`) | windows of LBD values | addLbd, mustRestart, clear | search | restarts do not make the search endless |
| search (`solver.go`) | `status`, `lastModel`, certificate | New, Solve, AppendClause, Assume | client | answers are right, calls end |
| problems (`parser*.go`, `problem.go`, `pb.go`, `card.go`, `clause.go`) | clauses, units, model, status | constructors, parsers, simplify2, simplifyCard, simplifyPB, DetectAtMostOne | client, `New` | same models as what was written, nothing left to propagate |
| optimisation (`solver.go`) | cost function, hypothesis, appended constraints | Optimal, Minimize | Solve, AppendClause, results channel | the last result is an optimum |
| enumeration (`solver.go`) | blocking clauses, number of models | Enumerate, CountModels, decisionLits | search, models channel | exactly the models, each once |
| pseudo-boolean propagation (`watcher.go`, `clause.go`) | `wlistPb`, watched flags, order of the literals | watchPB, updateWatchPB, swapFalse, unwatchPB | bindings | as for clauses, while lists are changed under the loop that visits them |
| cutting planes (`learn_pb.go`) | two `pbSet` buffers, a model unbound on the way | cuttingPlanes, roundToOne, clash, SimplifyPB | trail, reasons | the constraint learned follows, and implies its literal after the backjump |
| certificates (`explain/check.go`, `problem.go`) | clauses, units, tags | Unsat, UnsatChan, unsat, restore | certificate channel | accepted lines follow, refused ones are not RUP |
| unsatisfiable subsets (`explain/check.go`, `mus.go`) | tags, relaxed clauses; a goroutine that solves | UnsatSubset, MUSDeletion, MUSInsertion, MUSMaxSat | solver, checker | subsets are unsatisfiable, minimal ones minimal, no goroutine waits for ever |
| MAXSAT (`maxsat/`) | numbers of the names, blocking literals | New, Solve, Optimal | `ParsePBConstrs`, Minimize | cost is the least weight of what is left aside |
| boolean formulas (`bf/`) | numbers of the variables, dummies | constructors, nnf, cnfRec, Solve | `ParseSlice`, solver | same models on the variables named |
| parsers of text, command line | none | text | all of the above | not modelled |

Behaviours that tests hardly reach, and that the properties aim at, are the
`hazards` of `PROJECT.json`, each at its line.

## The modules

```
Lits ── Bindings ── Watcher ─┬─ Learn ── Solver ─┬─ SolverSafety ─┬─ SolverInvariant ── MCSolver
 │                           │                   │   . SatService  ├─ Enumerate ── MCEnumerate
 │                           │                   │                 └─ the proofs, below
 │                           └─ PBWatcher ── CuttingPlanes ── PBSolver ── PBSafety ── MCPB
 │                                (PBSolver also extends Solver, PBSafety also SolverInvariant)
 ├─ Problem ─┬─ BoolFormula ─┬─ MCProblem
 │           └─ MaxSat ──────┘
 ├─ Optimize . Optimum ── MCOptimize
 ├─ VarQueue
 └─ Checker ── Explain . Mus ── MCExplain     (Rup: Explain and SolverSafety)

LitsProofs ─┬─ SolverLemmas ─┬─ SolverProofs                    (SolverInvariant)
            │                └─ PBLemmas ── PBProofs            (PBSafety)
            ├─ VarQueueProofs                                   (VarQueue)
            ├─ ExplainProofs                                    (Checker, Explain, Mus)
            └─ OptimizeProofs                                   (Optimize)
```

Lines are EXTENDS, dots are INSTANCE.

**`Lits`** - `solver/types.go` with its numbering (`2v` and `2v+1`), and below a
rule the reference semantics (assignments, entailment) that models no code.

**`Bindings`** - `model`, `trail`, `reason`, `locked`, `polarity`, `queue`.
`cleanupBindings(lvl)` is given as the value it leaves in each of them; the cut
of the trail is at the first literal of a higher level, as the loop does it. The
heap is the set of its variables; `VarQueue` has the real one. Bound variables
in the heap, which `chooseLit` skips, are dropped.

**`Watcher`** - clauses are indices (the pointers), a clause is its set of
literals plus the two at positions 0 and 1. `PropagateStep` is one watcher
visited: binary lists first, then long clauses with their blocking literal,
swap, search for a free literal, move of the watcher, unit or conflict. Which
free literal is found and the order of a list are choices. `ReduceLearned`
sorts by LBD (any order among equals), keeps locked clauses and those of LBD at
most 2, and can panic where the code indexes an empty list.

**`Learn`** - `learnClause`, one action per turn of the outer loop: `met`,
`metLvl`, the counter, the position in the trail; then `minimizeLearned`,
`computeLbd`, `sortLiterals`. The slice of the clause under construction is a
shared buffer in the code: when nothing was put at its index 0 the value is any
literal.

**`Solver`** - `New`, and one action per stage of `propagateAndSearch`:
`Search`, `UnifyLiteral`, `Propagate`, `Restart`, `Branch` (with the reduction
of the learned clauses), `Conflict`, `ResolveReason`, `LearnFalse`, `LearnUnit`,
`LearnClause`, `UnitPropagated`, `UnitConflict`, and `CallReturns` for the end
of `propagateUnits` and `Assume`. `pc` says which function is running and `ret`
who called it. `Solve`, `AppendClause` and `Assume` are the client's actions, in
any order while no call is running. `formula`, `assumed`, `result`, `cert` are
history. `mustRestart` compares averages: once its window is full, whether it
says yes is a choice.

**`SatService`** - the service seen by a client; `SolverSafety` states that
`Solver` refines it, with all other properties of the search.

**`VarQueue`** - `queue.go` with one action per turn of a loop, on small integers
as activities: positions start at 1, bumps add 1. `pc` says which loop of a user
is running, `up` and `down` where an item percolates. `cleanupBindings` inserts
each missing variable twice and `rebuildOrderHeap` starts with `nbVars` zeroes,
as in the code; the heap therefore holds duplicates, and *"-1 means absence"*
(`queue.go:29`) is not an equivalence. What the search needs still holds.

**`Problem`** - the constructors of constraints, the five parsers after reading
text, `simplify2`, `simplifyCard` and `simplifyPB` as loops on clauses and on
literals with swap-with-last removals, `DetectAtMostOne` and `removeBinaries`.
Constraints keep their literal order and weights. The sort of `NewPBClause` is
left out: the instances have any order.

**`Optimum`** and **`Optimize`** - what optimising promises, and `Optimal` /
`Minimize` with the pseudo-boolean part of `AppendClause`: removal of the
literals bound at level 1, saturated cardinality, give up, unit binding, or
append. `propagateUnits` is a loop of `BindUnit`, which binds a unit over what its
variable has: over its negation if that was a unit before, without any conflict.
The problem is a set of clauses. `Solve` is what it answers, with any consequences
becoming permanent at level 1. `Minimize` is `Optimal` without a channel.

**`Enumerate`** - `Enumerate` and `CountModels` on top of the search of `Solver`:
after each model `decisionLits`, then nothing (no decision: the end),
`propagateUnits` (one), or a blocking clause and `cleanupBindings` to the level
below the last decision. A restart here only undoes the bindings above level 1:
the heap is rebuilt by the loop of `Solve` alone. `found` is a history of the models a reader of the
channel gets, `nb` the number returned.

**`PBWatcher`** - the other half of `propagate`: cardinality and pseudo-boolean
constraints with their literals in order, since the watched ones are a prefix or
flagged. `visiting` is the array that Go's `range` keeps while
`removeFrom` overwrites it and `append` does not: one action per constraint
visited.

**`CuttingPlanes`** - `pbSet` as a signed weight per variable; `roundToOne`,
`divideBy` with Go's division, `clash`, and one step per turn of the loop of
`cuttingPlanes`, including the variables it unbinds and leaves on the trail;
`NewPBClause` and `SimplifyPB` on the result.

**`PBSolver`** - `New`, `Solve` and `AppendClause` with constraints; the actions
of `Solver` when `CuttingPlanes` is off, `propagateAndSearchPB` with Luby's
restarts and `reduceLearnedPB` when it is on. `PBSafety` has the properties.

**`Checker`** - `Problem.unsat` of `explain`, one clause per action and pass
after pass, the tags, `restore`, and `Unsat` and `UnsatChan` around it.
**`Rup`** is the reference it is compared with, and which `CertificateIsRup`
uses for the lines the solver writes: the two sides of the channel are checked
against the same definition.

**`Explain`** - `UnsatSubset` with the goroutine that runs the solver: it sends
lines on an unbuffered channel (`SolverSends` is the rendezvous), the empty
line, then writes the shared `status`, then closes. Then `MUSDeletion`,
`MUSInsertion`, `MUSMaxSat`. The solver here is what the other modules show of
it. **`Mus`** is the abstract extraction of a minimal subset: candidates shrink,
needed clauses grow, until they meet.

**`BoolFormula`** - the constructors of `bf`, `Unique` with its grid of dummy
variables, `nnf` and `cnfRec` as recursive operators, giving the input of
`ParseSlice` that `Problem` goes on with. **`MaxSat`** - `New` of `maxsat`,
giving the input of `ParsePBConstrs` and the cost function.

Definitions marked *Variant for TLC* are plausible slips of the code next to the
definition they would replace; each property is shown to notice one.

## Runs

| Run | Module, cfg | States | What it checks |
|---|---|---|---|
| `search` | MCSolver, MCSolverSearch | 86k | `Inv`, `UnsatSound`, `SatSound`, `ReasonsAlive`, `WatchListsAgree`, `AnalysisOK`, `LearnedClauseAsserts`, `CertificateIsRup`, `CallsReturn` |
| `append` | MCSolver, MCSolverAppend | 167k | `PropagationComplete`, `UnboundQueued`, `RupInv`, `RefinesService` |
| `assume` | MCSolver, MCSolverAssume | 145k | `ReasonsImply`, `RefinesService` |
| `enumerate` | MCEnumerate, MCEnumerate | 29k | `AllModelsFound`, `OneDecisionPerLevel`, `CountEnds` |
| `pb` | MCPB, MCPB | 23k | `SatMeetsAll`, `ClausesUnsatSound`, `PBCallsReturn`, `ConstraintsWatched`, `NothingMissed`, `PBReasonsImply`, `CutFollows`, `CutAsserts` |
| `queue` | VarQueue, MCVarQueue | 1.7M | `UnboundInHeap` |
| `simplify` | MCProblem, MCProblem | 33k | `Equivalent`, `NothingToPropagate`, `FormulaSolved`, `LosesLeast` |
| `optimize` | MCOptimize, MCOptimize | 18k | `OnlyCheaperLeft`, `ResultsDelivered`, `RefinesOptimum`, `Returns` |
| `explain` | MCExplain, MCExplain | 41k | `LinesFollow`, `RefusedNotRup`, `SubsetsUnsat`, `RefinesMus`, `AllEnd` |
| `cut_unsound`, `count_twice`, `formula_nested` | MCPBUnsat, MCEnumerateTwice, MCProblemNested | | violations, see [below](#disagreements) |

**Bounds, and why they are enough for what is asked.**

- `search`: five problems of at most 5 variables, each built for a case:
  `Reducible` learns a clause of LBD 3 that `reduceLearned` may remove,
  `Locking` has one that is locked when it is reached, `Eight` is the complete
  set of clauses on three variables, with units, `Chain` needs several levels,
  `Pairs` learns a unit that conflicts at level 1. `InitNbMax = 2` (2000 in the
  code), `IncrNbMax = IncrPostpone = 1`, `LbdWindow = 2` (50) make reductions
  and restarts happen on problems of this size; they are constants, and the
  proofs hold for all values. Conflicts are not bounded: the learned clauses of
  five variables are, which is what `CallsReturn` says.
- `append`, `assume`: `MaxCalls = 2` calls of `AppendClause` or `Assume`, with
  any number of `Solve` between; two is what it takes for one call to see what
  another left. The appended clauses include one that becomes unit, empty and
  satisfied under level-1 bindings; the assumptions include none, one already
  implied, and contradictions with the clauses.
- `queue`: three variables, activities 0 and 1 from the start (`MaxActivity = 1`,
  `initOptimActivity` gives some) or by a bump, heaps up to five
  entries when a conflict starts (`MaxContent`), so that there are duplicates
  before and after each operation.
- `enumerate`: `FewModels` has six problems of four variables with none to many
  models, so that a model comes with several decisions, one and none, with
  unbound variables, and so that clauses are learned, reduced and restarts done
  while blocking clauses are there.
- `pb`: five problems of four variables, with clauses, cardinality constraints,
  weights, and a unit, each with both kinds of learning, and one `AppendClause`
  (`MaxCalls = 1`) of three constraints that are satisfied, impossible, give
  units, become a clause or are watched, depending on what is known.
  `LubyConstant = 2` (512) and `InitNbMax = 2` make restarts and reductions
  happen; `LowerLvl` stops the level at 0, where nothing but the level goes on
  changing.
- `simplify`: all pairs and many triples out of a pool of constraints per
  parser, with repeated, opposite, unit and empty ones, four variables; 13
  formulas with each operator, nested, with constants, and satisfiable or not;
  `SmallUnique = 2` (4) makes `Unique` build its grid for three names; 5 sets of
  soft clauses and constraints with weights.
- `optimize`: five formulas (none, free, with consequences the search may or may
  not find first, disjunctive, unsatisfiable) by seven cost functions (equal,
  different weights, negative and repeated literals, none with its negation), with
  and without channel.
- `explain`: eight problems of three variables, seven of them unsatisfiable, some
  by unit propagation alone, one with two minimal subsets, one whose first clause
  is still a candidate when those that MUSInsertion keeps are enough; certificates of up
  to `MaxLines = 2` lines, any of five clauses from a client, and from the
  solver those of them that are RUP. Two lines is what it takes for one to be
  used by the next and for the empty line to come second.

`CHECK_DEADLOCK FALSE` appears for `MCProblem` alone: a parser ends.

**Fairness.** `WF(SearchStep)` in `Solver`, `WF(PBSearchStep)` in `PBSolver`,
`WF(CountStep)` in `Enumerate`, `WF(Next)` in `Problem` and `Optimize`: the code
of a call runs in one goroutine and waits for nothing, so it is not stopped for
ever between two steps. In `Optimize` this includes that `Solve` returns (checked
as `CallsReturn`) and that the receiver of the channel goes on receiving, as the
callers in `main.go` and `maxsat` do by ranging over it. `Explain` has two
goroutines, hence `WF(CallStep)` and `WF(SolverStep)`: the Go scheduler runs
each; a send and the receive it meets are one step. That they meet for every
line is `AllEnd`, not an assumption. The client owes nothing: no fairness on its
calls.

**What the strongest properties say.** `CertificateIsRup`: every line of the
certificate follows by unit propagation from the problem and the lines before,
which is what `explain` checks; `RupInv` says why while clauses are appended. `RefinesService`: with clauses appended and
assumptions changed between calls, each answer is about the current question.
`Equivalent` holds at every step of every simplification loop, not only at its
end. `OnlyCheaperLeft`: after `AppendClause` the models left are exactly those
cheaper than the best, whatever level 1 had learned. `ConstraintsWatched` and
`NothingMissed`: although lists are changed while they are visited, a constraint
is where it is watched, once, and none is falsified unnoticed. `CutFollows`:
after any number of roundings, what the cutting planes have computed follows
from the constraints and is false on what is left of the trail. `RefusedNotRup`
with `LinesFollow`: the checker accepts what is right and refuses only what unit
propagation cannot show (lines that are no tautology, clauses without repeated
literals: see below). `AllModelsFound`: what was counted when the call
returns are the models. `FormulaSolved` and `LosesLeast` go through a whole
pipeline: what the client of `bf` or `maxsat` gets is compared with what the
formula or the soft constraints mean, after parsing and simplification.

## Disagreements

Each is the counterexample of a run of its own, or of a further configuration
kept beside the runs; the passing runs stay clear of them, as said with their
constants.

Runs:

- `cut_unsound` - `cuttingPlanes` keeps the level of the conflict by hand: minus
  one for each decision it passes on its way down the trail, and once more for a
  decision that the cut falsifies (`learn_pb.go:132`), before it asks whether
  that decision is the only falsified literal of its own level. With
  2 x4 + x1 + x2 + x3 >= 2 and 2 x4 + not x1 + not x2 + not x3 >= 2 the sum of the
  two is falsified by the decision of -4 alone; the level is then 1 (*"Top-level
  conflict: UNSAT"*, `learn_pb.go:114`), and Solve answers Unsat although every
  assignment with 4 is a solution. Only an option, `-cp`, has this; without it
  the answer is right (`ClausesUnsatSound`, proved below).
- `count_twice` - the blocking clause of a model is watched at its two literals
  of lowest levels, all of them false. After a backjump between its first and
  its last levels the last literals become false again without a visit, the
  clause does not propagate, and the model is counted again (*"the total number
  of models"*, `solver.go:664`). No model is missed: `AllModelsFound` holds.
- `formula_nested` - `cnfRec` adds the negation of the dummy variable of a
  conjunction to the first clause of each conjunct only. Three levels of
  nesting give a conjunct of several clauses, of which the others are
  unconditional, and `bf.Solve` returns nil for a satisfiable formula.

Further configurations, to be run by hand, each violated:

| Configuration | Property | What the code does |
|---|---|---|
| MCSolverReduce (MCSolver) | `NoPanic` | `reduceLearned` reads the middle of an empty slice when every conflict so far learned a unit (2000 of them in the code, 2 here) |
| MCSolverUnits (MCSolver) | `SatSound` | `Assume` (*"adds unit literals to the solver"*, `solver.go:595`) empties the trail, where alone the problem's units are: the solver answers Sat with a model that falsifies a unit of the problem |
| MCProblemLosing (MCProblem) | `Equivalent` | `simplifyCard` counts one true literal until the cardinality is reached and drops the constraint; `removeBinaries` leaves its loop at the last index and drops the constraints after it, among them the one `DetectAtMostOne` has just added (the option `-continue` of TLC shows both) |
| MCProblemNegative (MCProblem) | `LosesLeast` | the blocking literal of a soft constraint with negative coefficients gets `AtLeast` as its own, which does not satisfy it alone |
| MCOptimizeLosing (MCOptimize) | `OptimumFound` | `Minimize` returns a cost that is not minimal: a literal of weight 0 in the cost function is bound by `AppendClause` as if it were needed; of a literal and its negation, both due, `propagateUnits` binds one over the other (`min: 1 ~x3 + 2 x3` can give 1, then 2, and returns 2; `-continue` shows both) |
| MCPBUnits (MCPB) | `SatMeetsAll` | `propagateUnits` binds a unit over the binding that the one before has propagated, and Solve answers Sat with a model that falsifies a constraint |
| MCPBCut (MCPB) | `PBNoPanic` | on a problem without solution `cuttingPlanes` rounds to a constraint that is false under no literal, and its search runs past the start of the trail (with a solution it does not: `StepsNeverPanic`) |
| MCExplainEmpty (MCExplain) | `ValidMeansUnsat` | `Unsat` accepts a certificate that ends without the empty clause |
| MCExplainMaxSat (MCExplain) | `MaxSatMinimal` | `MUSMaxSat` keeps every clause that one optimal model falsifies: of two independent conflicts, both |

Smaller ones, seen while modelling and given no configuration: `And()`,
`And(True)`, `Eq(True, True)` are taken for False by `nnf`, `Or()` and
`Or(False)` for True, against their `Eval`; `AppendClause` between `Solve` and
`CountModels` leaves the status Sat on undone bindings, and the assignments of
the unbound variables are counted without a search; after counting, the solver
stays Unsat; `decisionLits` indexes an empty trail when the problem has no
clauses; `UnsatSubset` shares the clauses of a trivially unsatisfiable problem
with the caller, and `MUSDeletion` overwrites them; `unsat` counts a literal that
is repeated in a clause as two unbound ones, and takes of a tautological line the
last sign only, so that it can refuse what is implied; `UnsatSubset` then says of
an unsatisfiable problem that it is satisfiable.

## Proofs

Eight modules, for every value of the constants under the assumptions named with
each. They have no axioms, and every lemma is checked.

| Module | What it proves |
|---|---|
| `LitsProofs` | literals, assignments, entailment and resolution; sums of weights over finite sets |
| `SolverLemmas` | the trail and its cuts, bindings, conflict analysis and learned clauses |
| `SolverProofs` | visits of watchers; each action of the search and of the client keeps `IInv`; the certificate is RUP; each action keeps the rest of `Inv`; `Solver` implements `SatService` |
| `PBLemmas` | the algebra of cutting planes; what a constraint implies; bindings done and undone; the propagation of constraints |
| `PBProofs` | each action of the search on pseudo-boolean problems keeps `PBInv`; what follows from it |
| `VarQueueProofs` | the heap never misses an unbound variable |
| `ExplainProofs` | the checker accepts only what follows and misses nothing; the subsets; `Explain` implements `Mus`, which gives a minimal subset |
| `OptimizeProofs` | `AppendClause` keeps the cheaper models; `Optimize` implements `Optimum` |

### The search is sound

    THEOREM Invariance      OneKindOfClient => (Spec => []IInv)

in `SolverProofs`, and from it `UnsatSoundness`, `TypeCorrectness`,
`TrailConsistency`, `ReasonConsistency`, `AnalysisCorrectness` and
`LearnedClauseIsUnit`.

*Assumptions.* `NbVarsAssumption`, `NbMaxAssumption`, `ProblemsAssumption` (what
the parsers hand over: module `Problem` checks the same as
`NothingToPropagate`), `ClientAssumption` (no tautologies), and in the theorems
`OneKindOfClient`: a client appends clauses or makes assumptions, not both,
since `AppendClause` removes from the clause for good the literals that are
false under assumptions. TLC evaluates the ASSUMEs in the runs.

*Argument.* `UnsatSound` alone is not inductive. `setUnsat` is reached from a
conflict at level 1 or an empty learned clause, so it takes that every clause
held follows from the client's (`ClausesEntailed`) and every binding of level 1
from clauses and assumptions (`FactsEntailed`). Learned clauses follow because
the clause under construction always does (`LearnInv`): resolving on a reason is
sound only if the reason contains the literal and is otherwise false, before it
on the trail (`ReasonsImply`), and the walk down the trail accounts for each
variable of the current level only if these lie where the levels say
(`TrailMatchesModel`, `DecisionsFirst`, `LevelsInv`). That propagation finds
true reasons and true conflicts takes that a watcher stands for a clause with
the falsified literal at one of its first two positions (`ListsInv`,
`VisitInv`). The counter of `learnClause` equals the number of pending variables
and stays positive, which is where `DecisionsFirst` is needed: a variable
without reason can only be the last one left. That reductions and restarts keep
all this needs no argument about which clauses are removed.

### The certificate is accepted

    THEOREM CertificateInvariance    OneKindOfClient => (Spec => []RupInv)
    THEOREM CertificateCorrectness   OneKindOfClient => (Spec => CertificateIsRup)

in `SolverProofs`, on top of `Invariance`.

*Argument.* That a learned clause follows is not enough: unit propagation alone
has to show it, without the decisions that led there, and from the clauses of the
client where the solver used shorter ones, from which the literals false at level
1 were taken off. `RupInv` is about the sets of literals that propagation of the
problem and of the lines so far does not refute (`Unrefuted`: closed, and falsify
nothing). Each of them obeys every clause held, contains what is bound at level 1
and does not falsify the clause under construction. A resolution step keeps that:
a set that falsifies the new resolvent contains the literal resolved on, since it
obeys the reason, and falsifies the old one. The same along the trail for the
literals that `minimizeLearned` drops (`MinimizedImplied`: among those dropped
wrongly, take the one lowest on the trail, and its reason is no excuse). So a line is
never falsified by such a set, which is the definition of RUP; once written it is
one more clause that the sets left obey. When `setUnsat` writes the empty line a
clause is false at level 1, and no set is left.

With this the model of the solver in `Explain`, which sends lines that are RUP,
is what the search is proved to do.

### The search is complete

    THEOREM Completeness    ASSUME OneKindOfClient, UnitsKept PROVE Spec => []Inv
    THEOREM Refinement      ASSUME OneKindOfClient, UnitsKept PROVE Spec => RefinesService

in `SolverProofs`, with `SatSoundness`, `PropagationCompleteness`,
`WatchListsCorrectness`, `ReasonsStayAlive`, `QueueCorrectness`,
`DecisionLevels` and `PanicsOnlyWhenEmpty`.

*Argument.* A model answered Sat must satisfy clauses that nobody looked at
since they were last visited. `WatchersBlocked` says of every watcher that was
visited and left in the list of a literal now false: its blocking literal is
true, at no higher level, so that a backjump that unbinds the second unbinds the
first; for the two watchers of a clause this is what "no clause is unit or
false" comes from. `ListsComplete` says that every living
clause has its two watchers, through the moves made while a list is visited and
the removals of `reduceLearned`; it is also why `unwatchClause` never runs off
the end of a list. `LocksInv` relates the lock bits to the reasons, so that a
reason is never removed. `FormulaHeld` keeps what the client gave: for each
clause of the formula a problem clause is held that is a part of it, unless one
of its literals is true at level 1 and nobody will assume. `UnboundQueued` closes the argument: when the queue is empty
every variable is bound, and a conflict-free trail that binds all satisfies all.

*Assumption.* `UnitsKept`: a client that makes assumptions has problems without
unit clauses. `Assume` undoes the bindings of level 1, the only place where `New`
and `ParseSlice` keep the units; `MCSolverUnits` shows what happens without
it. A client that only appends clauses is under no such condition.

*The service.* `RefinesService` is by cases on the actions: those of the search
are stutters but the two that end a call, which answer Sat by `SatSound` and
Unsat by `UnsatSound` for the question of that moment; those of the client
change the question.

### The optimisation

    THEOREM Optimality          ASSUME PositiveWeights, NoOpposites PROVE Spec => []Inv
    THEOREM Refinement          ASSUME PositiveWeights, NoOpposites PROVE Spec => RefinesOptimum

in `OptimizeProofs`, with `NothingCheaperLost`, `ChannelDelivers` and
`NoneCheaper`, under the same two hypotheses.

*Argument.* The constraint that `Optimal` appends is about the negations of the
terms of the cost. In any model the weights of the terms that are true and of
those that are false add up to the largest cost, so "cheaper than the best" and
"the false terms weigh at least MaxCost - cost + 1" are the same. `AppendClause`
first takes off what level 1 decides, which changes both sides of the inequality
by the same amount in the models left; then the four ways it can end accept
exactly the models that meet it: nothing due is met by all, more due than there
is by none, all that there is due leaves every free term to `propagateUnits`, and
anything else is appended as it stands. While `propagateUnits` runs, the cheaper
models are those left that make true what it has still to bind (`KeepsCheaper`);
each turn moves one literal from the second to the first, or finds that there is
none. That all these literals are needed is where a weight of 0 would be wrong, and
that a turn only adds to what is bound is where the negation of a former unit would
be: `PositiveWeights` and `NoOpposites` are the assumptions, `MCOptimizeLosing` has
the counterexample to each. `ResultHolds` and `ChannelHolds` relate the best
model to what was sent. With nothing cheaper left, an answer Unsat makes the last
result an optimum. That `Solve` answers right is the theorems above; its
permanent bindings are any that follow.

A sum is the cardinality of a set of pairs (`SumOf` in `Lits`), which makes
additivity and monotonicity facts about finite sets, not inductions.

### The heap of variables

    THEOREM HeapInvariance      Spec => []Inv
    THEOREM NothingOverlooked   Spec => []UnboundInHeap

in `VarQueueProofs`, for any number of variables and any activities.

*Argument.* A variable that is unbound is inserted only if `contains` says that
it is not there. With duplicates `contains` can be wrong in one direction: the
copy its index points to may have been removed while others stay. `IndicesAgree`
says that it is never wrong in the other: an index that is not 0 is the position
of a copy. Each exchange corrects the indices of both items, `removeMin` moves
the last item before it marks the first absent (the two may be the same
variable), and `build` leaves the last position of each. `NoneMissing` also counts
the variables that the running loop has still to insert. Nothing is said of the
order of the heap, which a bump that moves one of two copies can break.

### Certificates and unsatisfiable subsets

`ExplainProofs` proves, for every problem, every certificate and both ways of
calling the checker alone:

    THEOREM CheckerInvariance   CheckerSpec => [](CheckerInv /\ IdleGiven)
    THEOREM CheckerSoundness    CheckerSpec => []LinesFollow

*Argument.* That an accepted line follows is not inductive: a line is accepted
on bindings made one by one, clause by clause. `BindingsFollow` says what these
are worth at any time: a model of the clauses tagged so far that falsifies the
line has all of them. A clause that leaves one literal, under bindings the model
has, gives a binding the model has; one that leaves none leaves no such model,
which is `RefutedFollows`. A line used as a clause follows from what was tagged
before, so it need not be tagged itself (`LinesAppended` keeps apart the problem
and the lines). The bindings of the problem's unit clauses, which lines start
from, are those of every model since these clauses are tagged from the
start. Nothing is assumed but that problems and lines are sequences of literals.

With the two goroutines and what is built on them:

    THEOREM ExplainInvariance   ASSUME DistinctLiterals PROVE Spec => []Inv
    THEOREM CheckerComplete     ASSUME DistinctLiterals PROVE Spec => []RefusedNotRup
    THEOREM SubsetsCorrect      ASSUME DistinctLiterals PROVE Spec => []SubsetsUnsat
    THEOREM Refinement          ASSUME DistinctLiterals PROVE Spec => RefinesMus

*Argument.* That a refused line is not RUP speaks of a least closure, of which
the checker has computed one candidate. `PassesMissNothing` says that behind the
position of a pass without new bindings every clause is settled: it has a true
literal or two unbound ones. At the end of such a pass the true literals are a
set closed under unit propagation, which contains the negation of the line and
no literal with its negation: by the definition of RUP as a property of all
closed sets, the line is not RUP. `CertificateHolds` relates what the solver's
goroutine has sent, what the channel holds and what the checker has: each line
sent is RUP, so none is refused, and the empty line comes only after a
refutation. `SubsetHolds`: when the checker is done the tagged clauses are
unsatisfiable, which is what `LinesFollow` says of the empty line.
`DeletionHolds` and `InsertionHolds` are those of the two loops: what is kept
and not given up yet is unsatisfiable, and without any of the clauses found
necessary it is not.

*Assumption.* `DistinctLiterals`: no clause and no line has a literal twice, and
no line a literal and its negation. The solver writes such lines; `ParseCNF` of
`explain` leaves it to who writes the file. Without it the checker is still sound
(`CheckerSoundness`) but refuses too much, and `UnsatSubset` then calls
an unsatisfiable problem satisfiable.

*The refinement* maps the candidates of `Mus` to the clauses kept and those not
tried yet; `MUSInsertion` drops several candidates in one step, when the clauses
kept become unsatisfiable. The variable names only make sense stage by stage
(`StagesAgree`). What the abstract extraction is worth, and hence the code's:

    THEOREM MusCorrectness      Mus!Spec => []ResultRight
    THEOREM SubsetsMinimal      ASSUME DistinctLiterals PROVE
            Spec => [](Minimal /\ answer.kind = "mus" => IsMus(given, answer.ids))

*Argument.* A candidate found necessary was so among the candidates of that
moment; it stays so when others are left out, for fewer clauses are satisfiable
when more are (`MusInv`). When every candidate is necessary the subset is
minimal. With `Refinement` it holds of `Explain`: `MUSDeletion` and
`MUSInsertion` return minimal subsets.

### The search on pseudo-boolean problems is sound

    THEOREM PBInvariance      PBSpec => []PBInv
    THEOREM UnsatIsRight      PBSpec => []ClausesUnsatSound
    THEOREM CutsFollow        PBSpec => [](Solutions # {} => CutFollows)
    THEOREM ReasonsImplied    PBSpec => [](Live => PBReasonsImply)
    THEOREM StepsNeverPanic   PBSpec => [][Live /\ ~ Propagated => PBNoPanic']_pbSolverVars

in `PBProofs`, whether the solver learns clauses or constraints, with any
constraints appended between calls.

*Assumptions.* `PBAssumption`: problems and appended constraints are what
`NewPBClause`, `NewCardClause` and the parsers make of them: positive weights in
decreasing order, no variable twice, and, once the problem is simplified, a
constraint satisfiable without any one of its literals and clear of the
variables of the units. Appended constraints need not be simplified.

*Why `Live`.* As long as there is a solution, every conflict is above level 1,
the units of an appended constraint do not contradict what is bound, and the walk of
`cuttingPlanes` ends. Without a solution none of this holds: `propagateUnits`
binds opposite units one over the other, and `MCPBCut` panics. So `PBInv` is
two things: while there is a solution, and Unsat was not answered nor a
panic met (`Live`), the whole invariant `LiveInv`; and always `StatusUnsat`,
that a solver that learns clauses reaches Unsat only without solution. Each
depends on the other: that no step of `setUnsat` is taken while there is a
solution is what `LiveInv` shows, and that is the contradiction `StatusUnsat`
needs. When constraints are appended the solutions get fewer, so `Live` never
comes back. When Unsat is answered although there are solutions, as in
`cut_unsound`, nothing more is said of the solver, which never leaves that status.

*What is held follows* (`DatabaseOK`). For clauses this is resolution. For cuts
it is arithmetic: a sum of the two pbSets in which what cancels out is taken from
the cardinality, weakening by whole literals, and division rounded up each keep
every solution (`ClashFacts`, `RoundToOneFacts` and `DivideByFacts` in `PBLemmas`,
about sums over the variables). `SimplifyPB`, the
sorting of the literals and lowering the first weight change nothing of it.

*And is false on the trail.* What `cuttingPlanes` adds must leave the constraint
falsified by what is left of the trail, or the walk runs past its start. A reason
rounded to weight 1 for the literal resolved on has no slack left but that
literal (`ReasonsHold`: when it was bound the rest was not enough), because only
literals that are not false are weakened and all others are divided up; the cut
rounded likewise is falsified by at least 1; the two cancel on the literal, so
that the sum is still falsified by what was bound before it. That the variables
the walk passes are unbound, while they stay on the trail, is why `BindingsOK` speaks
of a prefix of the trail that is bound and a rest that is not (`TrailBound`).

*Reasons* stay reasons though `swapFalse` and `updateWatchPB` reorder the literals or
move the watches of the constraint: `ImpliedBy` only depends on its literals and
weights. That `simplifyPseudoBool` binds only what is implied compares the
weight of a literal with the slack. That `swapFalse` finds as many literals as it
has to replace, and never runs past the end, is a count (`CardNeverPanics`).

*The panic that is left.* `Propagated` is the moment when `propagate` has found no
conflict; the step from there restarts, or decides after removing learned
clauses, and there `reduceLearned` panics on an empty list (`MCSolverReduce`).
That `unwatchClause` finds what it looks for is proved for the clauses of
`Solver` (`PanicsOnlyWhenEmpty`), and is `ConstraintsWatched` for constraints.

### Only model-checked

- Liveness (`CallsReturn`, `PBCallsReturn`, `CountEnds`, `Returns`, `AllEnd`):
  ENABLED and fairness are beyond the prover.
- `SatMeetsAll`, `ConstraintsWatched`, `NothingMissed` and `CutAsserts`: the
  invariant `PBInv` is about what is concluded, not about what is missed. For
  constraints the latter is another invariant, of the positions watched and of
  lists changed under the loop that visits them; and that a constraint learned
  has slack left after the backjump (`CutAsserts`) rests on how little the cuts
  are falsified, which the rounding does not bound: it is checked on the
  instances of the run.
- `AllModelsFound`, `Equivalent`, `NothingToPropagate` and `LosesLeast`: not
  attempted (see the [plan](#plan)).
- `FormulaSolved`: `BoolFormula` has recursive operators, on which the prover has
  no back end.

## Left out

- Activities beyond their order, the decay and rescaling of floats; the averages
  behind `mustRestart`; statistics, messages, the verbose ticker.
- `newVar`: the number of variables is constant. Problems known Unsat before
  `New`. A repeated literal in an appended clause (the code then miscounts
  levels in `learnClause`), and unit clauses repeated in `ParseSlice`.
- Contradictory assumptions (`{l, -l}`).
- `ParseOPB` given opposite units or a right-hand side of 0 or less (it loses a
  unit, or panics: listed as a hazard).
- Cost functions with nil or negative weights (the sort panics on the first, the
  loop stops at cost 0 on the second), and a second call of `Minimize`.
- Cost functions with a literal and its negation are in `Optimize`, but neither in
  the run nor in the theorems, which they break (`MCOptimizeLosing`); and once one
  is bound over the other, `Solve` is still taken to answer right, although what
  the first one propagated stays. Optimising problems with cardinality or
  pseudo-boolean constraints: `propagateUnits` can miss their conflicts
  (`MCPBUnits`).
- A learned clause that `reduceLearned` removed and that is learned again: the
  checker of certificates would have it twice.
- Pseudo-boolean constraints: instances of cutting planes on which the code
  panics or lowers a level for ever are left to `MCPBCut`, and `InitNbMax` is at
  least 2; units that contradict one another to `MCPBUnits`. The lists of
  at-most-one constraints are never filled by the code. The certificate has no
  line for a constraint, and is left out with them. Assumptions with
  constraints.
- Enumeration: problems without clauses, constraints, a client that appends
  before it counts; the status that `propagateAndSearch` returns is dropped by
  the code, and its answer Sat found again by the next search, which is one step
  here. `stop` is read by nobody.
- Certificates: lines that are no clause, which the code skips; headers that
  announce another number of clauses than there are; problems with an empty
  clause.
- `bf`: `Eval`, `String`, `Dimacs` and the parser; formulas with a constant as
  only operand, or nested as in `formula_nested`, in the passing run. `maxsat`:
  negative coefficients in the passing run, `AtLeast` above 1 without
  coefficients (a TODO of the code), a user's variable named "".
- Not modelled at all: scanning text (`parser*.go` before the constraints are
  read, `bf/parser.go`, `maxsat/parser.go`) and `main.go`. They hold no state
  that later steps depend on, and what can go wrong in them is formatting.

## Plan

Done, in this order: literals and bindings, propagation, learning, the search
loop and its client, the proof of its invariant; what stands before (`Problem`),
beside (`VarQueue`) and after it (`Optimize`); then `Checker`, `Explain` and the
proof of the checker, `PBWatcher`, `CuttingPlanes` and `PBSolver`, `Enumerate`,
`BoolFormula` and `MaxSat`; the completeness of the watch lists and the
refinement of `SatService`, of `Optimum` and of `Mus`; the certificate of the
solver; the soundness of the search on pseudo-boolean problems and of cutting
planes. Next, proofs only:

1. `AllModelsFound` and `CountEnds`' safety part in `Enumerate`, on top of the
   invariant of the search: its blocking clauses are clauses that do not follow,
   so what is entailed has to be said of the models not yet found.
2. `ConstraintsWatched` and `NothingMissed`, then `SatMeetsAll`, as was done for
   clauses.
3. `Equivalent` for the loops of `Problem`, with the sums of `LitsProofs`.
