---------------------------- MODULE SolverSafety ----------------------------
(***************************************************************************)
(* What makes the search of module Solver correct.                         *)
(***************************************************************************)
EXTENDS Solver, Rup

PCs == {"idle", "search", "unify", "propagate", "visit", "conflict", "learn", "panic"}

\* Every variable has its type.
TypeOK ==
    /\ model \in [Vars -> Int]
    /\ trail \in Seq(Lits)
    /\ clauses \in Seq(Clauses)
    /\ watched \in Seq(Lits \X Lits) /\ Len(watched) = Len(clauses)
    /\ lbd \in Seq(Nat) /\ Len(lbd) = Len(clauses)
    /\ reason \in [Vars -> {Nil} \union ClauseIds]
    /\ locked \subseteq {Nil} \union ClauseIds
    /\ learned \subseteq ClauseIds
    /\ polarity \in [Vars -> BOOLEAN]
    /\ queue \subseteq Vars
    /\ wlistBin \in [Lits -> SUBSET Watchers]
    /\ wlist \in [Lits -> SUBSET Watchers]
    /\ nbMax \in Nat \ {0} /\ idxReduce \in Nat
    /\ ptr \in Nat \ {0}
    /\ todoBin \subseteq Watchers /\ todo \subseteq Watchers
    /\ confl \in {Nil} \union ClauseIds
    /\ lvl \in Nat \ {0}
    /\ pc \in PCs
    /\ met \subseteq Vars /\ metLvl \subseteq Vars /\ lits \in Clauses
    /\ nbLvl \in Int /\ walk \in Int
    /\ assumptions \subseteq Vars
    /\ lit \in {NoLit} \union Lits
    /\ ret \in {"none", "branch", "unit", "append", "assume"}
    /\ status \in {"Indet", "Sat", "Unsat"}
    /\ nbConflicts \in Nat /\ recent \in Nat
    /\ lastModel \in [Vars -> Int]
    /\ cert \in Seq(Clauses)
    /\ formula \in SUBSET Clauses /\ assumed \in Clauses
    /\ nbCalls \in Nat
    /\ result \in {"none", "Sat", "Unsat"}

-----------------------------------------------------------------------------
(* The answers.                                                            *)

Question == formula \union UnitClauses(assumed)

\* Solve answers Unsat only if no assignment satisfies what the client gave:
\* the clauses of the problem, those appended since, and the assumptions.
UnsatSound == result = "Unsat" => ~ Satisfiable(Question)

\* When Solve answers Sat, the model it keeps binds every variable and
\* satisfies all of that.
SatSound ==
    result = "Sat" =>
        /\ \A v \in Vars : lastModel[v] # 0
        /\ SatAll([v \in Vars |-> lastModel[v] > 0], Question)

\* The call being served, if any.
Call ==
    IF pc = "idle" THEN "none"
    ELSE IF ret \in {"append", "assume"} THEN "update" ELSE "solve"

Service == INSTANCE SatService WITH call <- Call

\* The solver is that service: whatever it does inside, Solve answers the
\* question and AppendClause and Assume only change it.
RefinesService == Service!Spec

-----------------------------------------------------------------------------
(* The certificate: reverse unit propagation.                              *)

\* A line just written follows by unit propagation from the problem and the
\* lines before it.
RupLine ==
    Len(cert') > Len(cert) /\ assumed' = {} =>
        IsRup(formula \union Range(cert), cert'[Len(cert')])

\* Every line the solver writes to the certificate does, the final "0" included:
\* this is what module Checker looks for line by line.
CertificateIsRup == [][RupLine]_vars

-----------------------------------------------------------------------------
(* The bindings.                                                           *)

TrailVars == {VarOf(trail[i]) : i \in DOMAIN trail}

\* The trail and the model tell the same story: a variable is bound iff it is
\* on the trail, once, with the sign of its literal there, and levels never
\* decrease along the trail.
TrailMatchesModel ==
    /\ \A i, j \in DOMAIN trail : VarOf(trail[i]) = VarOf(trail[j]) => i = j
    /\ \A i \in DOMAIN trail : LitStatus(trail[i]) = "Sat"
    /\ \A v \in Vars : model[v] # 0 <=> v \in TrailVars
    /\ \A i, j \in DOMAIN trail :
        i <= j => Level(VarOf(trail[i])) <= Level(VarOf(trail[j]))

\* The reason of a bound variable contains the literal it implied, and all its
\* other literals were false before: conflict analysis may resolve on it.
ReasonsImply ==
    \A i \in DOMAIN trail :
        LET r == reason[VarOf(trail[i])] IN
        r # Nil => /\ trail[i] \in clauses[r]
                   /\ \A l \in clauses[r] \ {trail[i]} :
                        \E j \in 1 .. i - 1 : trail[j] = Negation(l)

\* reduceLearned does not remove a clause while it is the reason of a variable:
\* long ones are locked, binary ones are kept for their low LBD.
ReasonsAlive == \A v \in Vars : reason[v] # Nil => reason[v] \in Alive

\* Every level from 2 up to the current one starts with its decision, and has
\* no other literal without a reason: decisionLits and the count of learnClause
\* depend on it.
OneDecisionPerLevel ==
    \A i \in DOMAIN trail :
        LET v == VarOf(trail[i]) IN
        Level(v) > 1 =>
            /\ (reason[v] = Nil) <=> (i = 1 \/ Level(VarOf(trail[i - 1])) < Level(v))
            /\ i = 1 => Level(v) = 2
            /\ i > 1 => Level(v) <= Level(VarOf(trail[i - 1])) + 1

\* No unbound variable is missing from the queue, or the search would answer
\* Sat with an incomplete model.
UnboundQueued ==
    \A v \in Vars : model[v] = 0 => v \in queue \/ (pc = "unify" /\ v = VarOf(lit))

-----------------------------------------------------------------------------
(* The watch lists.                                                        *)

\* A living clause of three literals or more is in the lists of its first two
\* literals, in those only and once in each, with a literal of the clause as
\* blocking literal; a removed clause is in no list.
WatchListsAgree ==
    \A l \in Lits :
        /\ \A w \in wlist[l] :
            /\ w[1] \in Alive /\ w[2] \in clauses[w[1]]
            /\ Negation(l) \in {watched[w[1]][1], watched[w[1]][2]}
        /\ \A c \in Alive : Cardinality(clauses[c]) > 2 =>
            (Negation(l) \in {watched[c][1], watched[c][2]} =>
                Cardinality({w \in wlist[l] : w[1] = c}) = 1)

\* When propagate returns nil nothing was missed: every living clause has a
\* true literal or two that are not false.
PropagationComplete ==
    Propagated /\ status # "Unsat" =>
        \A c \in Alive :
            \/ \E l \in clauses[c] : LitStatus(l) = "Sat"
            \/ \E l, k \in clauses[c] : l # k /\ ~ IsFalse(l) /\ ~ IsFalse(k)

-----------------------------------------------------------------------------
(* Learning.                                                               *)

\* Variables of the current level still to be resolved.
Pending == {v \in metLvl : \E i \in 1 .. walk : VarOf(trail[i]) = v}

\* The clause being built: its literals of the current level are the negations
\* of the trail's literals that are pending.
Resolvent == lits \union {Negation(trail[i]) : i \in
                {j \in 1 .. walk : VarOf(trail[j]) \in metLvl}}

\* The counter nbLvl of learnClause is the number of pending variables and
\* never reaches 0, so that the loop finds the one it looks for; and the clause
\* built so far is false now and follows from the clauses of the client.
AnalysisOK ==
    pc = "learn" =>
        /\ nbLvl = Cardinality(Pending) /\ nbLvl >= 1
        /\ \A l \in Resolvent : IsFalse(l)
        /\ Entails(Question, Resolvent)

\* After backtracking, the asserting literal is unbound and every other literal
\* of the learned clause is false.
LearnedClauseAsserts ==
    pc = "unify" /\ reason[VarOf(lit)] # Nil =>
        /\ LitStatus(lit) = "Indet"
        /\ lit \in clauses[reason[VarOf(lit)]]
        /\ \A l \in clauses[reason[VarOf(lit)]] \ {lit} : IsFalse(l)

\* Solve, AppendClause and Assume return: every call ends.
CallsReturn == [](pc # "idle" => <>(pc = "idle"))

\* reduceLearned and unwatchClause never index past the end of a list.
NoPanic == pc # "panic"
=============================================================================
