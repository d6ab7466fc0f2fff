---------------------------- MODULE SolverProofs ----------------------------
(***************************************************************************)
(* What holds of the solver for every set of problems, of clauses to       *)
(* append and of literals to assume.  First Spec => []IInv, one lemma per  *)
(* action of unit propagation, of the search and of the client, and from   *)
(* it the soundness of the Unsat answers; then the certificate; then       *)
(* Spec => []Inv: the watch lists miss nothing.  From that follow the      *)
(* soundness of the Sat answers, that the solver only panics when there is *)
(* no learned clause to reduce, and that it implements the service it      *)
(* promises to its client (module SatService).                             *)
(***************************************************************************)
EXTENDS SolverLemmas

-----------------------------------------------------------------------------
(* The initial states.                                                     *)

LEMMA InitInv == Init => IInv
<1> SUFFICES ASSUME Init PROVE IInv
  OBVIOUS
<1>1. PICK pb \in Problems : New(pb)
  BY DEF Init
<1>2. WellFormed(pb)
  BY ProblemsAssumption
<1>3. /\ clauses \in Seq(Clauses) /\ Len(clauses) = Len(pb.clauses)
      /\ watched \in Seq(Lits \X Lits) /\ Len(watched) = Len(clauses)
      /\ lbd \in Seq(Nat) /\ Len(lbd) = Len(clauses)
      /\ ClauseIds = 1 .. Len(pb.clauses)
  <2>1. \A c \in 1 .. Len(pb.clauses) :
          /\ pb.clauses[c] \in Seq(Lits)
          /\ pb.clauses[c][1] \in Lits /\ pb.clauses[c][2] \in Lits
          /\ Range(pb.clauses[c]) \in Clauses
    BY <1>2 DEF WellFormed, Range, Clauses
  <2>2. Len(pb.clauses) \in Nat
    BY <1>2 DEF WellFormed
  <2> QED BY <1>1, <2>1, <2>2 DEF New, ClauseIds
<1>4. \A c \in ClauseIds :
        /\ watched[c][1] \in clauses[c] /\ watched[c][2] \in clauses[c]
        /\ watched[c][1] # watched[c][2]
        /\ watched[c] = <<watched[c][1], watched[c][2]>>
  <2> SUFFICES ASSUME NEW c \in ClauseIds
               PROVE  LET C == pb.clauses[c] IN
                      C[1] \in Range(C) /\ C[2] \in Range(C) /\ C[1] # C[2]
    BY <1>1, <1>3 DEF New
  <2>1. /\ pb.clauses[c] \in Seq(Lits) /\ Len(pb.clauses[c]) >= 2
        /\ \A i, j \in DOMAIN pb.clauses[c] :
             VarOf(pb.clauses[c][i]) = VarOf(pb.clauses[c][j]) => i = j
    BY <1>2, <1>3 DEF WellFormed
  <2> QED BY <2>1 DEF Range
<1>5. trail \in Seq(Lits) /\ model \in [Vars -> Int]
  BY <1>1, <1>2 DEF New, WellFormed
<1>6. \A i \in DOMAIN trail :
        model[VarOf(trail[i])] = (IF IsPositive(trail[i]) THEN 1 ELSE -1)
  <2> SUFFICES ASSUME NEW i \in DOMAIN trail
               PROVE  model[VarOf(trail[i])] = (IF IsPositive(trail[i]) THEN 1 ELSE -1)
    OBVIOUS
  <2> DEFINE v == VarOf(trail[i])
  <2>1. trail[i] \in Lits /\ v \in Vars /\ IsPositive(trail[i]) \in BOOLEAN
    BY <1>5, LitFacts
  <2>2. \A b \in BOOLEAN : SignedLit(v, b) \in Range(trail) => SignedLit(v, b) = trail[i]
    BY <1>1, <1>2, <1>5, <2>1, SignedLitFacts DEF New, WellFormed, Range
  <2>3. trail[i] = SignedLit(v, ~ IsPositive(trail[i]))
    BY <2>1, SignedLitFacts, SameVar
  <2>4. trail[i] \in Range(trail)
    BY DEF Range
  <2>5. SignedLit(v, TRUE) # SignedLit(v, FALSE)
    BY <2>1 DEF SignedLit, Vars
  <2> QED BY <1>1, <2>1, <2>2, <2>3, <2>4, <2>5 DEF New
<1>7. /\ reason = [v \in Vars |-> Nil] /\ pc = "idle" /\ status = "Indet" /\ result = "none"
      /\ assumed = {} /\ assumptions = {} /\ lit = NoLit
      /\ formula = Range(clauses) \union UnitClauses(Range(trail))
  BY <1>1 DEF Init, New
<1>8. /\ \A i \in DOMAIN trail : trail[i] \in Lits /\ VarOf(trail[i]) \in Vars
      /\ \A i \in DOMAIN trail : Level(VarOf(trail[i])) = 1
  <2>1. \A i \in DOMAIN trail : trail[i] \in Lits /\ VarOf(trail[i]) \in Vars
    BY <1>5, LitFacts
  <2> QED BY <1>6, <2>1 DEF Level, Abs
<1>9. \A v \in Vars : Level(v) <= 1
  <2>1. \A v \in Vars : model[v] \in {1, -1, 0}
    BY <1>1 DEF New
  <2> QED BY <2>1 DEF Level, Abs
<1>10. TrailMatchesModel
  <2>1. \A i, j \in DOMAIN trail : VarOf(trail[i]) = VarOf(trail[j]) => i = j
    BY <1>1, <1>2 DEF New, WellFormed
  <2>2. \A i \in DOMAIN trail : LitStatus(trail[i]) = "Sat"
    <3> SUFFICES ASSUME NEW i \in DOMAIN trail PROVE LitStatus(trail[i]) = "Sat"
      OBVIOUS
    <3>1. IsPositive(trail[i]) \in BOOLEAN /\ trail[i] \in Lits
      BY <1>8, LitFacts
    <3> QED BY <1>5, <1>6, <3>1, StatusFacts
  <2>3. \A v \in Vars : model[v] # 0 <=> v \in TrailVars
    <3>1. ASSUME NEW v \in Vars, model[v] # 0 PROVE v \in TrailVars
      <4>1. SignedLit(v, FALSE) \in Range(trail) \/ SignedLit(v, TRUE) \in Range(trail)
        BY <1>1, <3>1 DEF New
      <4> QED BY <4>1, SignedLitFacts DEF Range, TrailVars
    <3> QED BY <3>1, <1>6 DEF TrailVars
  <2> QED BY <1>8, <2>1, <2>2, <2>3 DEF TrailMatchesModel
<1>11. ReasonsImply /\ DecisionsFirst
  BY <1>7, <1>8 DEF ReasonsImply, DecisionsFirst
<1>12. LevelsInv /\ UnifyInv /\ VisitInv /\ LearnInv /\ UnsatInv /\ ClientInv
  BY <1>7, <1>9 DEF LevelsInv, UnifyInv, VisitInv, LearnInv, UnsatInv, ClientInv
<1>13. ClausesEntailed
  <2>1. \A c \in ClauseIds : clauses[c] \in formula
    BY <1>3, <1>7 DEF Range
  <2> QED BY <2>1, EntailsMember DEF ClausesEntailed
<1>14. FactsEntailed
  <2>1. \A i \in DOMAIN trail : {trail[i]} \in Question
    BY <1>7 DEF Range, Question, UnitClauses
  <2> QED BY <2>1, EntailsMember DEF FactsEntailed
<1>15. /\ wlistBin \in [Lits -> SUBSET Watchers] /\ wlist \in [Lits -> SUBSET Watchers]
       /\ \A l \in Lits : \A w \in wlistBin[l] :
            /\ w \in Watchers /\ Cardinality(clauses[w[1]]) = 2
            /\ watched[w[1]] \in {<<Negation(l), w[2]>>, <<w[2], Negation(l)>>}
       /\ \A l \in Lits : \A w \in wlist[l] :
            /\ w \in Watchers
            /\ watched[w[1]] \in {<<Negation(l), w[2]>>, <<w[2], Negation(l)>>}
  BY DEF Init, WatchLists, BinaryIds, Watchers
<1>16. ListsInv
  <2>1. ASSUME NEW l \in Lits, NEW w \in wlistBin[l]
        PROVE  w[1] \in ClauseIds /\ clauses[w[1]] = {Negation(l), w[2]}
    <3>1. w[1] \in ClauseIds /\ clauses[w[1]] \in Clauses
      BY <1>3, <1>15 DEF Watchers
    <3>2. /\ Negation(l) \in clauses[w[1]] /\ w[2] \in clauses[w[1]]
          /\ Negation(l) # w[2]
      BY <1>4, <1>15, <3>1
    <3> QED BY <1>15, <3>1, <3>2, PairOfTwo
  <2>2. ASSUME NEW l \in Lits, NEW w \in wlist[l]
        PROVE  /\ w[1] \in ClauseIds
               /\ Negation(l) \in {watched[w[1]][1], watched[w[1]][2]}
               /\ \A x \in wlist[l] : x[1] = w[1] => x = w
    <3>1. w[1] \in ClauseIds /\ w = <<w[1], w[2]>>
      BY <1>15 DEF Watchers
    <3>2. ASSUME NEW x \in wlist[l], x[1] = w[1] PROVE x = w
      <4>1. x = <<x[1], x[2]>>
        BY <1>15 DEF Watchers
      <4>2. x[2] = w[2]
        BY <1>4, <1>15, <3>1, <3>2
      <4> QED BY <3>1, <3>2, <4>1, <4>2
    <3> QED BY <1>15, <3>1, <3>2
  <2> QED BY <1>4, <2>1, <2>2 DEF ListsInv
<1>17. TypeOK
  <2>1. nbMax \in Nat \ {0} /\ idxReduce \in Nat
    BY NbMaxAssumption DEF Init
  <2>2. formula \in SUBSET Clauses
    <3>1. Range(clauses) \subseteq Clauses
      BY <1>3 DEF Range
    <3>2. Range(trail) \subseteq Lits
      BY <1>5 DEF Range
    <3>3. UnitClauses(Range(trail)) \subseteq Clauses
      BY <3>2 DEF UnitClauses, Clauses
    <3> QED BY <1>7, <3>1, <3>3
  <2>3. /\ polarity \in [Vars -> BOOLEAN] /\ lastModel \in [Vars -> Int]
        /\ reason \in [Vars -> {Nil} \union ClauseIds] /\ cert \in Seq(Clauses)
    BY DEF Init
  <2>4. {} \in Clauses /\ "idle" \in PCs
    BY DEF Clauses, PCs
  <2>5. /\ locked = {} /\ learned = {} /\ queue = Vars /\ ptr = 1 /\ lvl = 1
        /\ todoBin = {} /\ todo = {} /\ confl = Nil
        /\ met = {} /\ metLvl = {} /\ lits = {} /\ nbLvl = 0 /\ walk = 0
        /\ ret = "none" /\ nbConflicts = 0 /\ recent = 0 /\ nbCalls = 0
    BY DEF Init
  <2> QED BY <1>3, <1>5, <1>7, <1>15, <2>1, <2>2, <2>3, <2>4, <2>5 DEF TypeOK
<1> QED BY <1>10, <1>11, <1>12, <1>13, <1>14, <1>16, <1>17 DEF IInv

-----------------------------------------------------------------------------
(* What most steps use of the invariant, and of what they leave unchanged. *)

LEMMA InvFacts ==
    ASSUME IInv
    PROVE  /\ BindingsInv /\ AnalysisInv
           /\ trail \in Seq(Lits) /\ Len(trail) \in Nat /\ DOMAIN trail = 1 .. Len(trail)
           /\ \A i \in 1 .. Len(trail) : trail[i] \in Lits /\ VarOf(trail[i]) \in Vars
           /\ \A v \in Vars : Level(v) \in Nat /\ (Level(v) = 0 <=> model[v] = 0)
           /\ model \in [Vars -> Int]
           /\ \A c \in ClauseIds : clauses[c] \in Clauses /\ Entails(formula, clauses[c])
           /\ lvl \in Nat \ {0} /\ ptr \in Nat \ {0}
<1>1. BindingsInv /\ AnalysisInv
  BY DEF IInv, BindingsInv, AnalysisInv, TypeOK
<1>2. trail \in Seq(Lits) /\ model \in [Vars -> Int]
  BY DEF IInv, TypeOK
<1>3. /\ Len(trail) \in Nat /\ DOMAIN trail = 1 .. Len(trail)
      /\ \A i \in 1 .. Len(trail) : trail[i] \in Lits /\ VarOf(trail[i]) \in Vars
  BY <1>2, LitFacts
<1>4. \A v \in Vars : Level(v) \in Nat /\ (Level(v) = 0 <=> model[v] = 0)
  BY <1>2, LevelFacts
<1>5. \A c \in ClauseIds : clauses[c] \in Clauses /\ Entails(formula, clauses[c])
  BY DEF IInv, TypeOK, ClauseIds, ClausesEntailed
<1>6. lvl \in Nat \ {0} /\ ptr \in Nat \ {0}
  BY DEF IInv, TypeOK
<1> QED BY <1>1, <1>2, <1>3, <1>4, <1>5, <1>6

\* A step that leaves the bindings alone.
LEMMA SameBindings ==
    ASSUME IInv, UNCHANGED <<model, trail, reason, clauses, formula, assumed>>
    PROVE  /\ TrailMatchesModel' /\ ReasonsImply' /\ DecisionsFirst'
           /\ FactsEntailed' /\ ClausesEntailed'
           /\ \A v : Level(v)' = Level(v)
           /\ \A l : IsFalse(l)' = IsFalse(l)
           /\ Question' = Question /\ ClauseIds' = ClauseIds
<1>1. BindingsInv /\ FactsEntailed /\ ClausesEntailed
  BY InvFacts DEF IInv
<1>2. /\ \A v : Level(v)' = Level(v) /\ \A l : IsFalse(l)' = IsFalse(l)
      /\ Question' = Question /\ ClauseIds' = ClauseIds
  BY DEF Level, IsFalse, LitStatus, Question, ClauseIds
<1> QED BY <1>1, <1>2, BindingsKept

LEMMA SameLists ==
    ASSUME ListsInv, UNCHANGED <<clauses, watched, wlist, wlistBin>>
    PROVE  ListsInv'
BY DEF ListsInv, ClauseIds

-----------------------------------------------------------------------------
(* The steps that only go through the lists.                               *)

LEMMA StartLitInv ==
    ASSUME IInv, StartLit, UNCHANGED <<learnVars, assumptions, ctlVars, cert, clientVars>>
    PROVE  IInv'
<1>1. /\ UNCHANGED <<model, trail, reason, locked, polarity, queue>>
      /\ UNCHANGED <<clauses, watched, lbd, learned, nbMax, idxReduce, wlist, wlistBin>>
      /\ UNCHANGED <<met, metLvl, lits, nbLvl, walk, assumptions, lit, ret, status>>
      /\ UNCHANGED <<nbConflicts, recent, cert, lastModel, formula, assumed, nbCalls, result>>
      /\ UNCHANGED <<ptr, confl, lvl>>
      /\ pc = "propagate" /\ pc' = "visit" /\ ptr <= Len(trail)
      /\ todoBin' = wlistBin[trail[ptr]] /\ todo' = wlist[trail[ptr]]
  BY DEF StartLit, bindingVars, dbVars, learnVars, ctlVars, clientVars
<1>2. ptr \in 1 .. Len(trail) /\ trail[ptr] \in Lits
  BY <1>1, InvFacts
<1>3. TypeOK'
  BY <1>1, <1>2 DEF IInv, TypeOK, PCs, ClauseIds, Watchers
<1>4. ListsInv'
  BY <1>1, SameLists DEF IInv
<1>5. VisitInv'
  BY <1>1, <1>2, SameBindings, InvFacts DEF IInv, VisitInv
<1>6. ClientInv' /\ LevelsInv' /\ UnifyInv' /\ LearnInv' /\ UnsatInv'
  BY <1>1, SameBindings DEF IInv, ClientInv, LevelsInv, UnifyInv, LearnInv, UnsatInv
<1> QED BY <1>1, <1>3, <1>4, <1>5, <1>6, SameBindings DEF IInv

LEMMA EndLitInv ==
    ASSUME IInv, EndLit, UNCHANGED <<learnVars, assumptions, ctlVars, cert, clientVars>>
    PROVE  IInv'
<1>1. /\ UNCHANGED <<model, trail, reason, locked, polarity, queue>>
      /\ UNCHANGED <<clauses, watched, lbd, learned, nbMax, idxReduce, wlist, wlistBin>>
      /\ UNCHANGED <<met, metLvl, lits, nbLvl, walk, assumptions, lit, ret, status>>
      /\ UNCHANGED <<nbConflicts, recent, cert, lastModel, formula, assumed, nbCalls, result>>
      /\ UNCHANGED <<todoBin, todo, confl, lvl>>
      /\ pc = "visit" /\ pc' = "propagate" /\ ptr' = ptr + 1
  BY DEF EndLit, bindingVars, dbVars, learnVars, ctlVars, clientVars
<1>2. ptr \in Nat \ {0} /\ ptr' \in Nat \ {0}
  BY <1>1, InvFacts
<1>3. TypeOK'
  BY <1>1, <1>2 DEF IInv, TypeOK, PCs, ClauseIds, Watchers
<1>4. ListsInv'
  BY <1>1, SameLists DEF IInv
<1>5. VisitInv'
  <2>1. \A i \in DOMAIN trail : i >= ptr + 1 => i >= ptr
    BY <1>2, InvFacts
  <2> QED BY <1>1, <2>1, SameBindings, InvFacts DEF IInv, VisitInv
<1>6. ClientInv' /\ LevelsInv' /\ UnifyInv' /\ LearnInv' /\ UnsatInv'
  BY <1>1, SameBindings DEF IInv, ClientInv, LevelsInv, UnifyInv, LearnInv, UnsatInv
<1> QED BY <1>1, <1>3, <1>4, <1>5, <1>6, SameBindings DEF IInv

-----------------------------------------------------------------------------
(* The steps that bind a literal.                                          *)

\* unifyLiteral: the literal was justified when it was chosen.
LEMMA UnifyLiteralInv ==
    ASSUME IInv, UnifyLiteral
    PROVE  IInv'
<1> DEFINE r == reason[VarOf(lit)]
<1>1. /\ UNCHANGED <<reason, locked, polarity, queue>>
      /\ UNCHANGED <<clauses, watched, lbd, learned, nbMax, idxReduce, wlist, wlistBin>>
      /\ UNCHANGED <<met, metLvl, lits, nbLvl, walk, assumptions, ret, status>>
      /\ UNCHANGED <<nbConflicts, recent, cert, lastModel, formula, assumed, nbCalls, result>>
      /\ UNCHANGED <<todoBin, todo, confl, lvl>>
      /\ pc = "unify" /\ pc' = "propagate" /\ ptr' = Len(trail) + 1 /\ lit' = NoLit
      /\ model' = [model EXCEPT ![VarOf(lit)] = LvlToSignedLvl(lit, lvl)]
      /\ trail' = Append(trail, lit)
  BY DEF UnifyLiteral, dbVars, learnVars, clientVars
<1>2. /\ lit \in Lits /\ model[VarOf(lit)] = 0
      /\ r # Nil => /\ lit \in clauses[r]
                    /\ \A l \in clauses[r] \ {lit} : IsFalse(l)
      /\ r = Nil /\ lvl > 1 => \A v \in Vars : Level(v) < lvl
      /\ r = Nil /\ lvl = 1 => Entails(Question, {lit})
      /\ ret # "branch" => lvl = 1
      /\ \A v \in Vars : model[v] = 0 /\ reason[v] # Nil => v = VarOf(lit)
      /\ \A v \in Vars : Level(v) <= lvl
  BY <1>1 DEF IInv, UnifyInv, LevelsInv
<1>3. VarOf(lit) \in Vars /\ r \in {Nil} \union ClauseIds
  BY <1>2, LitFacts DEF IInv, TypeOK
<1>4. Justified(lit, r)
  BY <1>2, <1>3, InvFacts DEF Justified
<1>5. reason' = [reason EXCEPT ![VarOf(lit)] = r]
  BY <1>1 DEF IInv, TypeOK
<1>6. Binds(lit, r)
  BY <1>1, <1>5 DEF Binds
<1>7. /\ TrailMatchesModel' /\ ReasonsImply' /\ DecisionsFirst' /\ FactsEntailed'
      /\ \A v \in Vars : Level(v)' = IF v = VarOf(lit) THEN lvl ELSE Level(v)
  <2>1. BindingsInv /\ FactsEntailed /\ ClausesEntailed /\ lvl \in Nat \ {0}
    BY InvFacts DEF IInv
  <2> HIDE DEF r
  <2> QED BY <1>2, <1>3, <1>4, <1>6, <2>1, BindingsExtended
<1>8. ClausesEntailed' /\ ListsInv'
  BY <1>1, SameLists DEF IInv, ClausesEntailed, ClauseIds
<1>9. /\ trail' \in Seq(Lits) /\ Len(trail') = Len(trail) + 1
      /\ DOMAIN trail' = 1 .. Len(trail) + 1 /\ trail'[Len(trail) + 1] = lit
      /\ model' \in [Vars -> Int]
  BY <1>1, <1>2, <1>3, InvFacts DEF LvlToSignedLvl
<1>10. TypeOK'
  <2>1. ptr' \in Nat \ {0}
    BY <1>1, InvFacts
  <2> QED BY <1>1, <1>9, <2>1 DEF IInv, TypeOK, PCs, ClauseIds, Watchers, NoLit
<1>11. VisitInv'
  <2> SUFFICES ASSUME NEW i \in DOMAIN trail', i >= ptr'
               PROVE  Level(VarOf(trail[i]))' = lvl
    BY <1>1 DEF VisitInv
  <2>1. i = Len(trail) + 1
    BY <1>1, <1>9, InvFacts
  <2> QED BY <1>3, <1>7, <1>9, <2>1
<1>12. LevelsInv'
  BY <1>1, <1>2, <1>7, InvFacts DEF LevelsInv
<1>13. UnifyInv'
  <2>1. model'[VarOf(lit)] # 0
    BY <1>3, <1>7, InvFacts, <1>9, LevelFacts DEF Level, Abs
  <2>2. \A v \in Vars : v # VarOf(lit) => model'[v] = model[v]
    BY <1>1, InvFacts
  <2> QED BY <1>1, <1>2, <2>1, <2>2 DEF UnifyInv
<1>14. ClientInv'
  <2>1. \A v \in assumptions : Level(v) = 1 /\ v \in Vars
    BY DEF IInv, ClientInv, TypeOK
  <2>2. Level(VarOf(lit)) = 0
    BY <1>2, <1>3, InvFacts
  <2> QED BY <1>1, <1>7, <2>1, <2>2 DEF IInv, ClientInv
<1>15. LearnInv' /\ UnsatInv'
  BY <1>1 DEF IInv, LearnInv, UnsatInv, Question
<1> QED BY <1>7, <1>8, <1>10, <1>11, <1>12, <1>13, <1>14, <1>15 DEF IInv

\* A step of propagate that binds a literal because of a clause.
LEMMA ImplyStep ==
    ASSUME IInv, pc = "visit", NEW c \in ClauseIds, NEW l \in clauses[c],
           LitStatus(l) = "Indet", \A k \in clauses[c] \ {l} : IsFalse(k),
           Imply(c, l), UNCHANGED <<clauses, formula, assumed, lvl, assumptions>>
    PROVE  /\ TrailMatchesModel' /\ ReasonsImply' /\ DecisionsFirst'
           /\ FactsEntailed' /\ ClausesEntailed' /\ ClientInv'
           /\ \A v \in Vars : Level(v)' <= lvl
           /\ \A v \in Vars : model'[v] = 0 => reason'[v] = Nil
           /\ trail' \in Seq(Lits) /\ model' \in [Vars -> Int]
           /\ reason' \in [Vars -> {Nil} \union ClauseIds]
           /\ Len(trail') = Len(trail) + 1
           /\ \A i \in 1 .. Len(trail) : trail'[i] = trail[i]
           /\ \A i \in 1 .. Len(trail) + 1 : i >= ptr => Level(VarOf(trail[i]))' = lvl
<1>1. /\ l \in Lits /\ VarOf(l) \in Vars /\ clauses[c] \in Clauses /\ c # Nil
  BY InvFacts, LitFacts DEF Clauses, ClauseIds, Nil
<1>2. model[VarOf(l)] = 0
  BY <1>1, InvFacts, StatusFacts
<1>3. /\ \A v \in Vars : Level(v) <= lvl
      /\ \A i \in 1 .. Len(trail) : i >= ptr => Level(VarOf(trail[i])) = lvl
      /\ \A v \in Vars : model[v] = 0 => reason[v] = Nil
      /\ ptr \in 1 .. Len(trail)
  BY InvFacts DEF IInv, LevelsInv, VisitInv, UnifyInv
<1>4. Justified(l, c) /\ Binds(l, c)
  BY <1>1 DEF Justified, Binds, Imply
<1>5. /\ TrailMatchesModel' /\ ReasonsImply' /\ DecisionsFirst' /\ FactsEntailed'
      /\ \A v \in Vars : Level(v)' = IF v = VarOf(l) THEN lvl ELSE Level(v)
  <2>1. BindingsInv /\ FactsEntailed /\ ClausesEntailed /\ lvl \in Nat \ {0}
    BY InvFacts DEF IInv
  <2> QED BY <1>1, <1>2, <1>3, <1>4, <2>1, BindingsExtended
<1>6. ClausesEntailed'
  BY DEF IInv, ClausesEntailed, ClauseIds
<1>7. ClientInv'
  <2>1. \A v \in assumptions : Level(v) = 1 /\ v \in Vars
    BY DEF IInv, ClientInv, TypeOK
  <2>2. Level(VarOf(l)) = 0
    BY <1>1, <1>2, InvFacts
  <2> QED BY <1>5, <2>1, <2>2 DEF IInv, ClientInv
<1>8. /\ trail' \in Seq(Lits) /\ model' \in [Vars -> Int]
      /\ reason' \in [Vars -> {Nil} \union ClauseIds]
      /\ Len(trail') = Len(trail) + 1 /\ trail'[Len(trail) + 1] = l
      /\ \A i \in 1 .. Len(trail) : trail'[i] = trail[i]
      /\ \A v \in Vars : reason'[v] = IF v = VarOf(l) THEN c ELSE reason[v]
      /\ \A v \in Vars : model'[v] = IF v = VarOf(l) THEN LvlToSignedLvl(l, lvl) ELSE model[v]
  <2>1. /\ reason \in [Vars -> {Nil} \union ClauseIds]
        /\ model \in [Vars -> Int] /\ trail \in Seq(Lits)
    BY DEF IInv, TypeOK
  <2>2. LvlToSignedLvl(l, lvl) \in Int
    BY InvFacts DEF LvlToSignedLvl
  <2> QED BY <1>1, <2>1, <2>2 DEF Imply
<1>9. LvlToSignedLvl(l, lvl) # 0
  BY InvFacts DEF LvlToSignedLvl
<1>10. \A i \in 1 .. Len(trail) + 1 : i >= ptr => Level(VarOf(trail[i]))' = lvl
  <2> SUFFICES ASSUME NEW i \in 1 .. Len(trail) + 1, i >= ptr
               PROVE  Level(VarOf(trail[i]))' = lvl
    OBVIOUS
  <2>1. CASE i = Len(trail) + 1
    BY <1>1, <1>5, <1>8, <2>1
  <2>2. CASE i \in 1 .. Len(trail)
    <3>1. Level(VarOf(trail[i])) = lvl /\ VarOf(trail[i]) \in Vars
      BY <1>3, <2>2, InvFacts
    <3> QED BY <1>5, <1>8, <2>2, <3>1
  <2> QED BY <2>1, <2>2, InvFacts
<1>11. \A v \in Vars : Level(v)' <= lvl
  BY <1>3, <1>5, InvFacts
<1>12. \A v \in Vars : model'[v] = 0 => reason'[v] = Nil
  BY <1>3, <1>8, <1>9
<1> QED BY <1>5, <1>6, <1>7, <1>8, <1>10, <1>11, <1>12

-----------------------------------------------------------------------------
(* Visiting a watcher.                                                     *)

\* The clause of a watcher being visited contains the falsified literal.
LEMMA BinaryFacts ==
    ASSUME IInv, pc = "visit", NEW w \in todoBin
    PROVE  /\ ptr \in 1 .. Len(trail) /\ trail[ptr] \in Lits
           /\ w[1] \in ClauseIds /\ w[2] \in Lits
           /\ clauses[w[1]] = {Negation(trail[ptr]), w[2]}
           /\ IsFalse(Negation(trail[ptr])) /\ Level(VarOf(Negation(trail[ptr]))) = lvl
<1>1. ptr \in 1 .. Len(trail) /\ w \in wlistBin[trail[ptr]]
  BY DEF IInv, VisitInv
<1>2. trail[ptr] \in Lits /\ Negation(trail[ptr]) \in Lits
  BY <1>1, InvFacts, LitFacts
<1>3. w[1] \in ClauseIds /\ clauses[w[1]] = {Negation(trail[ptr]), w[2]} /\ w[2] \in Lits
  <2>1. w \in Watchers
    BY DEF IInv, TypeOK
  <2> QED BY <1>1, <1>2, <2>1 DEF IInv, ListsInv, Watchers
<1>4. Level(VarOf(trail[ptr])) = lvl
  BY <1>1, InvFacts DEF IInv, VisitInv
<1>5. LitStatus(trail[ptr]) = "Sat"
  BY <1>1, InvFacts DEF IInv, TrailMatchesModel
<1>6. IsFalse(Negation(trail[ptr]))
  <2>1. TrailMatchesModel
    BY DEF IInv
  <2> QED BY <1>2, <1>5, <2>1, InvFacts, TrailFacts, LitFacts
<1> QED BY <1>1, <1>2, <1>3, <1>4, <1>6, LitFacts

LEMMA VisitBinaryInv ==
    ASSUME IInv, NEW w \in todoBin, VisitBinary(w),
           UNCHANGED <<learnVars, assumptions, ctlVars, cert, clientVars>>
    PROVE  IInv'
<1>1. /\ UNCHANGED <<locked, polarity, queue>>
      /\ UNCHANGED <<clauses, watched, lbd, learned, nbMax, idxReduce, wlist, wlistBin>>
      /\ UNCHANGED <<met, metLvl, lits, nbLvl, walk, assumptions, lit, ret, status>>
      /\ UNCHANGED <<nbConflicts, recent, cert, lastModel, formula, assumed, nbCalls, result>>
      /\ UNCHANGED <<ptr, lvl>>
      /\ pc = "visit"
  BY DEF VisitBinary, dbVars, learnVars, ctlVars, clientVars
<1>2. /\ ptr \in 1 .. Len(trail) /\ trail[ptr] \in Lits
      /\ w[1] \in ClauseIds /\ w[2] \in Lits
      /\ clauses[w[1]] = {Negation(trail[ptr]), w[2]}
      /\ IsFalse(Negation(trail[ptr])) /\ Level(VarOf(Negation(trail[ptr]))) = lvl
  BY <1>1, BinaryFacts
<1>3. ListsInv'
  BY <1>1, SameLists DEF IInv
<1>4. CASE IsFalse(w[2])
  <2>1. /\ UNCHANGED <<model, trail, reason>>
        /\ confl' = w[1] /\ pc' = "conflict" /\ todoBin' = {} /\ todo' = {}
    BY <1>4 DEF VisitBinary, ReturnConflict
  <2>2. TypeOK'
    BY <1>1, <1>2, <2>1 DEF IInv, TypeOK, PCs, ClauseIds, Watchers
  <2>3. VisitInv'
    <3>1. \A l \in clauses[w[1]] : IsFalse(l)
      BY <1>2, <1>4
    <3>2. \E l \in clauses[w[1]] : Level(VarOf(l)) = lvl
      BY <1>2
    <3> QED BY <1>1, <1>2, <2>1, <3>1, <3>2, SameBindings DEF VisitInv
  <2>4. ClientInv' /\ LevelsInv' /\ UnifyInv' /\ LearnInv' /\ UnsatInv'
    BY <1>1, <2>1, SameBindings DEF IInv, ClientInv, LevelsInv, UnifyInv, LearnInv, UnsatInv
  <2> QED BY <1>1, <1>3, <2>1, <2>2, <2>3, <2>4, SameBindings DEF IInv
<1>5. CASE ~ IsFalse(w[2]) /\ LitStatus(w[2]) = "Indet"
  <2>1. /\ Imply(w[1], w[2])
        /\ todoBin' = todoBin \ {w} /\ UNCHANGED <<todo, confl, pc>>
    BY <1>5 DEF VisitBinary
  <2>2. /\ TrailMatchesModel' /\ ReasonsImply' /\ DecisionsFirst'
        /\ FactsEntailed' /\ ClausesEntailed' /\ ClientInv'
        /\ \A v \in Vars : Level(v)' <= lvl
        /\ \A v \in Vars : model'[v] = 0 => reason'[v] = Nil
        /\ trail' \in Seq(Lits) /\ model' \in [Vars -> Int]
        /\ reason' \in [Vars -> {Nil} \union ClauseIds]
        /\ Len(trail') = Len(trail) + 1
        /\ \A i \in 1 .. Len(trail) : trail'[i] = trail[i]
        /\ \A i \in 1 .. Len(trail) + 1 : i >= ptr => Level(VarOf(trail[i]))' = lvl
    <3>1. w[2] \in clauses[w[1]] /\ \A k \in clauses[w[1]] \ {w[2]} : IsFalse(k)
      BY <1>2
    <3> QED BY <1>1, <1>2, <1>5, <2>1, <3>1, ImplyStep
  <2>3. TypeOK'
    BY <1>1, <2>1, <2>2 DEF IInv, TypeOK, ClauseIds, Watchers
  <2>4. VisitInv'
    <3>1. ptr \in 1 .. Len(trail') /\ trail'[ptr] = trail[ptr]
      BY <1>2, <2>2, InvFacts
    <3> QED BY <1>1, <1>2, <2>1, <2>2, <3>1, InvFacts DEF IInv, VisitInv
  <2>5. LevelsInv' /\ UnifyInv' /\ LearnInv' /\ UnsatInv'
    BY <1>1, <2>1, <2>2 DEF IInv, LevelsInv, UnifyInv, LearnInv, UnsatInv, Question
  <2> QED BY <1>3, <2>2, <2>3, <2>4, <2>5 DEF IInv
<1>6. CASE ~ IsFalse(w[2]) /\ LitStatus(w[2]) # "Indet"
  <2>1. /\ UNCHANGED <<model, trail, reason>>
        /\ todoBin' = todoBin \ {w} /\ UNCHANGED <<todo, confl, pc>>
    BY <1>6 DEF VisitBinary
  <2>2. TypeOK'
    BY <1>1, <2>1 DEF IInv, TypeOK, ClauseIds, Watchers
  <2>3. VisitInv'
    BY <1>1, <2>1, SameBindings DEF IInv, VisitInv
  <2>4. ClientInv' /\ LevelsInv' /\ UnifyInv' /\ LearnInv' /\ UnsatInv'
    BY <1>1, <2>1, SameBindings DEF IInv, ClientInv, LevelsInv, UnifyInv, LearnInv, UnsatInv
  <2> QED BY <1>1, <1>3, <2>1, <2>2, <2>3, <2>4, SameBindings DEF IInv
<1> QED BY <1>4, <1>5, <1>6

\* The same for a longer clause: the falsified literal is one of the first two,
\* and the second one once simplifyPropClauses has swapped them.
LEMMA LongFacts ==
    ASSUME IInv, pc = "visit", NEW w \in todo, NEW p, p = Swapped(w[1], Negation(trail[ptr]))
    PROVE  /\ ptr \in 1 .. Len(trail) /\ trail[ptr] \in Lits /\ Negation(trail[ptr]) \in Lits
           /\ w \in wlist[trail[ptr]]
           /\ w[1] \in ClauseIds /\ w[2] \in Lits /\ w = <<w[1], w[2]>>
           /\ clauses[w[1]] \in Clauses /\ watched[w[1]] \in Lits \X Lits
           /\ p \in Lits \X Lits /\ p = <<p[1], Negation(trail[ptr])>>
           /\ p[1] # Negation(trail[ptr])
           /\ p[1] \in clauses[w[1]] /\ Negation(trail[ptr]) \in clauses[w[1]]
           /\ {p[1], p[2]} = {watched[w[1]][1], watched[w[1]][2]}
           /\ \A x \in wlist[trail[ptr]] : x[1] = w[1] => x = w
           /\ IsFalse(Negation(trail[ptr])) /\ Level(VarOf(Negation(trail[ptr]))) = lvl
<1>1. ptr \in 1 .. Len(trail) /\ w \in wlist[trail[ptr]]
  BY DEF IInv, VisitInv
<1>2. trail[ptr] \in Lits /\ Negation(trail[ptr]) \in Lits
  BY <1>1, InvFacts, LitFacts
<1>3. w[1] \in ClauseIds /\ w[2] \in Lits /\ w = <<w[1], w[2]>>
  BY DEF IInv, TypeOK, Watchers
<1>4. /\ Negation(trail[ptr]) \in {watched[w[1]][1], watched[w[1]][2]}
      /\ \A x \in wlist[trail[ptr]] : x[1] = w[1] => x = w
      /\ watched[w[1]][1] \in clauses[w[1]] /\ watched[w[1]][2] \in clauses[w[1]]
      /\ watched[w[1]][1] # watched[w[1]][2]
  BY <1>1, <1>2, <1>3 DEF IInv, ListsInv
<1>5. clauses[w[1]] \in Clauses /\ watched[w[1]] \in Lits \X Lits
  <2>1. clauses \in Seq(Clauses) /\ watched \in Seq(Lits \X Lits) /\ Len(watched) = Len(clauses)
    BY DEF IInv, TypeOK
  <2> QED BY <1>3, <2>1 DEF ClauseIds
<1>6. watched[w[1]] = <<watched[w[1]][1], watched[w[1]][2]>>
  BY <1>5
<1>7. p = IF watched[w[1]][1] = Negation(trail[ptr])
          THEN <<watched[w[1]][2], Negation(trail[ptr])>> ELSE watched[w[1]]
  BY DEF Swapped
<1>8. /\ p \in Lits \X Lits /\ p = <<p[1], Negation(trail[ptr])>>
      /\ p[1] # Negation(trail[ptr])
      /\ p[1] \in clauses[w[1]] /\ Negation(trail[ptr]) \in clauses[w[1]]
      /\ {p[1], p[2]} = {watched[w[1]][1], watched[w[1]][2]}
  <2>1. CASE watched[w[1]][1] = Negation(trail[ptr])
    <3>1. p = <<watched[w[1]][2], Negation(trail[ptr])>>
      BY <1>7, <2>1
    <3> QED BY <1>2, <1>4, <1>5, <2>1, <3>1
  <2>2. CASE watched[w[1]][1] # Negation(trail[ptr])
    <3>1. p = watched[w[1]] /\ watched[w[1]][2] = Negation(trail[ptr])
      BY <1>4, <1>7, <2>2
    <3> QED BY <1>4, <1>5, <1>6, <3>1
  <2> QED BY <2>1, <2>2
<1>9. Level(VarOf(trail[ptr])) = lvl
  BY <1>1, InvFacts DEF IInv, VisitInv
<1>10. LitStatus(trail[ptr]) = "Sat"
  BY <1>1, InvFacts DEF IInv, TrailMatchesModel
<1>11. IsFalse(Negation(trail[ptr]))
  <2>1. TrailMatchesModel
    BY DEF IInv
  <2> QED BY <1>2, <1>10, <2>1, InvFacts, TrailFacts, LitFacts
<1> QED BY <1>1, <1>2, <1>3, <1>4, <1>5, <1>8, <1>9, <1>11, LitFacts

\* The watcher stays in the list, with another blocking literal.
LEMMA KeepWatcherStep ==
    ASSUME IInv, pc = "visit", NEW w \in todo, NEW p, p = Swapped(w[1], Negation(trail[ptr])),
           KeepWatcher(w, trail[ptr], p), UNCHANGED <<clauses, wlistBin>>
    PROVE  /\ ListsInv'
           /\ watched' \in Seq(Lits \X Lits) /\ Len(watched') = Len(watched)
           /\ wlist' \in [Lits -> SUBSET Watchers]
           /\ todo \ {w} \subseteq wlist'[trail[ptr]]
<1> DEFINE c == w[1]
           lt == trail[ptr]
           n == <<w[1], p[1]>>
<1>0. /\ lt \in Lits /\ w \in wlist[lt] /\ c \in ClauseIds /\ w = <<w[1], w[2]>>
      /\ p \in Lits \X Lits /\ p[1] \in Lits /\ p = <<p[1], Negation(lt)>>
      /\ p[1] # Negation(lt) /\ p[1] \in clauses[c] /\ Negation(lt) \in clauses[c]
      /\ {p[1], p[2]} = {watched[c][1], watched[c][2]}
      /\ \A x \in wlist[lt] : x[1] = c => x = w
      /\ todo \subseteq wlist[lt]
  <2>1. todo \subseteq wlist[lt]
    BY DEF IInv, VisitInv
  <2>2. /\ lt \in Lits /\ w \in wlist[lt] /\ c \in ClauseIds /\ w = <<w[1], w[2]>>
        /\ p \in Lits \X Lits /\ p = <<p[1], Negation(lt)>>
        /\ p[1] # Negation(lt) /\ p[1] \in clauses[c] /\ Negation(lt) \in clauses[c]
        /\ {p[1], p[2]} = {watched[c][1], watched[c][2]}
        /\ \A x \in wlist[lt] : x[1] = c => x = w
    BY LongFacts, Zenon
  <2>3. p[1] \in Lits
    BY <2>2
  <2> QED BY <2>1, <2>2, <2>3
<1>1. /\ watched \in Seq(Lits \X Lits) /\ Len(watched) = Len(clauses)
      /\ wlist \in [Lits -> SUBSET Watchers] /\ ClauseIds = 1 .. Len(clauses)
      /\ ClauseIds' = ClauseIds /\ DOMAIN watched = ClauseIds
  BY DEF IInv, TypeOK, ClauseIds
<1>2. /\ watched' \in Seq(Lits \X Lits) /\ Len(watched') = Len(watched)
      /\ \A d \in ClauseIds : watched'[d] = IF d = c THEN p ELSE watched[d]
  <2>1. watched' = [watched EXCEPT ![c] = p]
    BY DEF KeepWatcher
  <2> HIDE DEF c
  <2> QED BY <1>0, <1>1, <2>1
<1>3. n \in Watchers /\ n[1] = c
  BY <1>0 DEF Watchers
<1>4. /\ wlist' \in [Lits -> SUBSET Watchers]
      /\ wlist'[lt] = (wlist[lt] \ {w}) \union {n}
      /\ \A l \in Lits : l # lt => wlist'[l] = wlist[l]
  <2>1. wlist' = [wlist EXCEPT ![lt] = (@ \ {w}) \union {n}]
    BY DEF KeepWatcher
  <2> HIDE DEF lt, n
  <2> QED BY <1>0, <1>1, <1>3, <2>1
<1> HIDE DEF c, lt, n
<1>5. \A d \in ClauseIds :
        {watched'[d][1], watched'[d][2]} = {watched[d][1], watched[d][2]}
  BY <1>0, <1>2
<1>6. \A d \in ClauseIds :
        /\ watched'[d][1] \in clauses[d] /\ watched'[d][2] \in clauses[d]
        /\ watched'[d][1] # watched'[d][2]
  <2>1. p[2] = Negation(lt)
    BY <1>0
  <2> QED BY <1>0, <1>2, <2>1 DEF IInv, ListsInv
<1>7. ASSUME NEW l \in Lits, NEW x \in wlist'[l]
      PROVE  /\ x[1] \in ClauseIds
             /\ Negation(l) \in {watched'[x[1]][1], watched'[x[1]][2]}
             /\ \A y \in wlist'[l] : y[1] = x[1] => y = x
  <2>1. CASE l # lt
    BY <1>4, <1>5, <2>1 DEF IInv, ListsInv
  <2>2. CASE l = lt
    <3>1. \A y \in wlist'[l] : (y \in wlist[l] /\ y # w) \/ y = n
      BY <1>4, <2>2
    <3>2. \A y \in wlist[l] : y # w => y[1] # c
      BY <1>0, <2>2
    <3>3. x[1] \in ClauseIds /\ Negation(l) \in {watched[x[1]][1], watched[x[1]][2]}
      <4>1. CASE x \in wlist[l]
        BY <4>1 DEF IInv, ListsInv
      <4>2. CASE x = n
        <5>1. w \in wlist[l] /\ x[1] = w[1]
          BY <1>0, <1>3, <2>2, <4>2 DEF c
        <5> QED BY <5>1 DEF IInv, ListsInv
      <4> QED BY <3>1, <4>1, <4>2
    <3>4. \A y \in wlist'[l] : y[1] = x[1] => y = x
      <4> SUFFICES ASSUME NEW y \in wlist'[l], y[1] = x[1] PROVE y = x
        OBVIOUS
      <4>1. CASE x = n
        BY <1>3, <3>1, <3>2, <4>1
      <4>2. CASE x # n
        <5>1. x \in wlist[l] /\ x # w /\ y \in wlist[l]
          BY <1>3, <3>1, <3>2, <4>2
        <5> QED BY <5>1 DEF IInv, ListsInv
      <4> QED BY <4>1, <4>2
    <3> QED BY <1>5, <3>3, <3>4
  <2> QED BY <2>1, <2>2
<1>8. ListsInv'
  <2>1. \A l \in Lits : \A x \in wlistBin'[l] :
          x[1] \in ClauseIds' /\ clauses'[x[1]] = {Negation(l), x[2]}
    BY <1>1 DEF IInv, ListsInv
  <2> QED BY <1>1, <1>6, <1>7, <2>1 DEF ListsInv
<1>9. todo \ {w} \subseteq wlist'[lt]
  BY <1>0, <1>4
<1> QED BY <1>2, <1>4, <1>8, <1>9 DEF lt

\* The watcher moves to the list of another literal of its clause.
LEMMA MoveWatcherStep ==
    ASSUME IInv, pc = "visit", NEW w \in todo, NEW p, p = Swapped(w[1], Negation(trail[ptr])),
           NEW k \in Free(w[1]), MoveWatcher(w, trail[ptr], p, k),
           UNCHANGED <<clauses, wlistBin>>
    PROVE  /\ ListsInv'
           /\ watched' \in Seq(Lits \X Lits) /\ Len(watched') = Len(watched)
           /\ wlist' \in [Lits -> SUBSET Watchers]
           /\ todo \ {w} \subseteq wlist'[trail[ptr]]
<1> DEFINE c == w[1]
           lt == trail[ptr]
           n == <<w[1], p[1]>>
           q == <<p[1], k>>
<1>0. /\ lt \in Lits /\ w \in wlist[lt] /\ c \in ClauseIds /\ w = <<w[1], w[2]>>
      /\ p \in Lits \X Lits /\ p[1] \in Lits /\ p = <<p[1], Negation(lt)>>
      /\ p[1] # Negation(lt) /\ p[1] \in clauses[c] /\ Negation(lt) \in clauses[c]
      /\ {p[1], p[2]} = {watched[c][1], watched[c][2]}
      /\ \A x \in wlist[lt] : x[1] = c => x = w
      /\ todo \subseteq wlist[lt] /\ clauses[c] \in Clauses
  <2>1. todo \subseteq wlist[lt]
    BY DEF IInv, VisitInv
  <2>2. clauses[w[1]] \in Clauses
    BY LongFacts
  <2>3. /\ lt \in Lits /\ w \in wlist[lt] /\ c \in ClauseIds /\ w = <<w[1], w[2]>>
        /\ p \in Lits \X Lits /\ p[1] \in Lits /\ p = <<p[1], Negation(lt)>>
        /\ p[1] # Negation(lt) /\ p[1] \in clauses[c] /\ Negation(lt) \in clauses[c]
        /\ {p[1], p[2]} = {watched[c][1], watched[c][2]}
        /\ \A x \in wlist[lt] : x[1] = c => x = w
    BY LongFacts
  <2> QED BY <2>1, <2>2, <2>3
<1>1. /\ watched \in Seq(Lits \X Lits) /\ Len(watched) = Len(clauses)
      /\ wlist \in [Lits -> SUBSET Watchers] /\ ClauseIds = 1 .. Len(clauses)
      /\ ClauseIds' = ClauseIds /\ DOMAIN watched = ClauseIds
  BY DEF IInv, TypeOK, ClauseIds
<1>2. /\ k \in Lits /\ k \in clauses[c] /\ k \notin {watched[c][1], watched[c][2]}
      /\ k # p[1] /\ k # Negation(lt)
  <2>1. p[2] = Negation(lt)
    BY <1>0
  <2>2. k \in clauses[c] \ {watched[c][1], watched[c][2]}
    BY DEF Free
  <2> QED BY <1>0, <2>1, <2>2 DEF Clauses
<1>3. Negation(k) \in Lits /\ Negation(k) # lt /\ Negation(Negation(k)) = k
  BY <1>0, <1>2, LitFacts
<1>4. /\ watched' \in Seq(Lits \X Lits) /\ Len(watched') = Len(watched)
      /\ \A d \in ClauseIds : watched'[d] = IF d = c THEN q ELSE watched[d]
  <2>1. watched' = [watched EXCEPT ![c] = q]
    BY DEF MoveWatcher
  <2>2. q \in Lits \X Lits
    BY <1>0, <1>2
  <2> HIDE DEF c, q
  <2> QED BY <1>0, <1>1, <2>1, <2>2
<1>5. n \in Watchers /\ n[1] = c
  BY <1>0 DEF Watchers
<1>6. /\ wlist' \in [Lits -> SUBSET Watchers]
      /\ wlist'[lt] = wlist[lt] \ {w}
      /\ wlist'[Negation(k)] = wlist[Negation(k)] \union {n}
      /\ \A l \in Lits : l # lt /\ l # Negation(k) => wlist'[l] = wlist[l]
  <2>1. wlist' = [wlist EXCEPT ![lt] = @ \ {w}, ![Negation(k)] = @ \union {n}]
    BY DEF MoveWatcher
  <2> HIDE DEF lt, n
  <2> QED BY <1>0, <1>1, <1>3, <1>5, <2>1
<1>7. q[1] = p[1] /\ q[2] = k
  OBVIOUS
<1> HIDE DEF c, lt, n, q
<1>8. \A d \in ClauseIds :
        /\ watched'[d][1] \in clauses[d] /\ watched'[d][2] \in clauses[d]
        /\ watched'[d][1] # watched'[d][2]
  BY <1>0, <1>2, <1>4, <1>7 DEF IInv, ListsInv
<1>9. ASSUME NEW l \in Lits, NEW x \in wlist[l], ~ (l = lt /\ x = w)
      PROVE  /\ x[1] \in ClauseIds
             /\ Negation(l) \in {watched'[x[1]][1], watched'[x[1]][2]}
  <2>1. /\ x[1] \in ClauseIds
        /\ Negation(l) \in {watched[x[1]][1], watched[x[1]][2]}
    BY DEF IInv, ListsInv
  <2>2. CASE x[1] # c
    BY <1>4, <2>1, <2>2
  <2>3. CASE x[1] = c
    <3>1. Negation(l) = p[1] \/ Negation(l) = Negation(lt)
      <4>1. p[2] = Negation(lt)
        BY <1>0
      <4> QED BY <1>0, <2>1, <2>3, <4>1
    <3>2. Negation(l) # Negation(lt)
      <4> SUFFICES ASSUME Negation(l) = Negation(lt) PROVE FALSE
        OBVIOUS
      <4>1. l = lt
        BY <1>0, LitFacts
      <4> QED BY <1>0, <1>9, <2>3, <4>1
    <3> QED BY <1>4, <1>7, <2>1, <2>3, <3>1, <3>2
  <2> QED BY <2>2, <2>3
<1>10. \A y \in wlist[Negation(k)] : y[1] # c
  <2> SUFFICES ASSUME NEW y \in wlist[Negation(k)], y[1] = c PROVE FALSE
    OBVIOUS
  <2>1. Negation(Negation(k)) \in {watched[c][1], watched[c][2]}
    BY <1>3 DEF IInv, ListsInv
  <2> QED BY <2>1, <1>2, <1>3
<1>11. ASSUME NEW l \in Lits, NEW x \in wlist'[l]
       PROVE  /\ x[1] \in ClauseIds
              /\ Negation(l) \in {watched'[x[1]][1], watched'[x[1]][2]}
              /\ \A y \in wlist'[l] : y[1] = x[1] => y = x
  <2>1. \A y, z \in wlist[l] : y[1] = z[1] => y = z
    BY DEF IInv, ListsInv
  <2>2. CASE l # Negation(k)
    <3>1. \A y \in wlist'[l] : y \in wlist[l] /\ ~ (l = lt /\ y = w)
      BY <1>6, <2>2
    <3> QED BY <1>9, <2>1, <3>1
  <2>3. CASE l = Negation(k)
    <3>1. \A y \in wlist'[l] : y \in wlist[l] \/ y = n
      BY <1>6, <2>3
    <3>2. \A y \in wlist'[l] : y[1] = x[1] => y = x
      BY <1>5, <1>10, <2>1, <2>3, <3>1
    <3>3. CASE x \in wlist[l]
      BY <1>3, <1>9, <2>3, <3>2, <3>3
    <3>4. CASE x = n
      BY <1>0, <1>3, <1>4, <1>5, <1>7, <2>3, <3>2, <3>4
    <3> QED BY <3>1, <3>3, <3>4
  <2> QED BY <2>2, <2>3
<1>12. ListsInv'
  <2>1. \A l \in Lits : \A x \in wlistBin'[l] :
          x[1] \in ClauseIds' /\ clauses'[x[1]] = {Negation(l), x[2]}
    BY <1>1 DEF IInv, ListsInv
  <2> QED BY <1>1, <1>8, <1>11, <2>1 DEF ListsInv
<1>13. todo \ {w} \subseteq wlist'[lt]
  BY <1>0, <1>6
<1> QED BY <1>4, <1>6, <1>12, <1>13 DEF lt

LEMMA VisitLongInv ==
    ASSUME IInv, NEW w \in todo, VisitLong(w),
           UNCHANGED <<learnVars, assumptions, ctlVars, cert, clientVars>>
    PROVE  IInv'
<1> DEFINE c == w[1]
           p == Swapped(w[1], Negation(trail[ptr]))
<1>1. /\ UNCHANGED <<clauses, lbd, learned, nbMax, idxReduce, wlistBin>>
      /\ UNCHANGED <<met, metLvl, lits, nbLvl, walk, assumptions, lit, ret, status>>
      /\ UNCHANGED <<nbConflicts, recent, cert, lastModel, formula, assumed, nbCalls, result>>
      /\ UNCHANGED <<ptr, lvl>>
      /\ pc = "visit"
  BY DEF VisitLong, watchVars, bindingVars, learnVars, ctlVars, clientVars
<1>2. /\ ptr \in 1 .. Len(trail) /\ trail[ptr] \in Lits /\ c \in ClauseIds
      /\ p = <<p[1], Negation(trail[ptr])>>
      /\ p[1] # Negation(trail[ptr]) /\ p[1] \in Lits
      /\ p[1] \in clauses[c] /\ Negation(trail[ptr]) \in clauses[c]
      /\ {p[1], p[2]} = {watched[c][1], watched[c][2]} /\ clauses[c] \in Clauses
      /\ IsFalse(Negation(trail[ptr])) /\ Level(VarOf(Negation(trail[ptr]))) = lvl
  BY <1>1, LongFacts
\* The watcher is dealt with, the bindings do not change.
<1>3. ASSUME UNCHANGED <<model, trail, reason, locked, polarity, queue, confl, pc, todoBin>>,
             ListsInv',
             watched' \in Seq(Lits \X Lits), Len(watched') = Len(watched),
             wlist' \in [Lits -> SUBSET Watchers],
             todo' = todo \ {w}, todo' \subseteq wlist'[trail[ptr]]
      PROVE  IInv'
  <2>1. TypeOK'
    BY <1>1, <1>3 DEF IInv, TypeOK, ClauseIds, Watchers
  <2>2. VisitInv'
    BY <1>1, <1>3, SameBindings DEF IInv, VisitInv
  <2>3. ClientInv' /\ LevelsInv' /\ UnifyInv' /\ LearnInv' /\ UnsatInv'
    BY <1>1, <1>3, SameBindings
       DEF IInv, ClientInv, LevelsInv, UnifyInv, LearnInv, UnsatInv
  <2> QED BY <1>1, <1>3, <2>1, <2>2, <2>3, SameBindings DEF IInv
<1>4. CASE /\ LitStatus(w[2]) = "Sat"
           /\ todo' = todo \ {w}
           /\ UNCHANGED <<bindingVars, watchVars, confl, pc, todoBin>>
  <2>1. UNCHANGED <<model, trail, reason, locked, polarity, queue, watched, wlist>>
    BY <1>4 DEF bindingVars, watchVars
  <2>2. ListsInv'
    BY <1>1, <2>1, SameLists DEF IInv
  <2>3. /\ watched' \in Seq(Lits \X Lits) /\ Len(watched') = Len(watched)
        /\ wlist' \in [Lits -> SUBSET Watchers]
    BY <2>1 DEF IInv, TypeOK
  <2>4. todo' \subseteq wlist'[trail[ptr]]
    BY <1>1, <1>4, <2>1 DEF IInv, VisitInv
  <2> QED BY <1>3, <1>4, <2>1, <2>2, <2>3, <2>4
<1>5. CASE /\ KeepWatcher(w, trail[ptr], p)
           /\ todo' = todo \ {w}
           /\ UNCHANGED <<bindingVars, wlistBin, confl, pc, todoBin>>
  <2>1. UNCHANGED <<model, trail, reason, locked, polarity, queue>>
    BY <1>5 DEF bindingVars
  <2>2. /\ ListsInv'
        /\ watched' \in Seq(Lits \X Lits) /\ Len(watched') = Len(watched)
        /\ wlist' \in [Lits -> SUBSET Watchers]
        /\ todo \ {w} \subseteq wlist'[trail[ptr]]
    BY <1>1, <1>5, KeepWatcherStep
  <2> QED BY <1>3, <1>5, <2>1, <2>2
<1>6. CASE /\ \E k \in Free(c) : MoveWatcher(w, trail[ptr], p, k)
           /\ todo' = todo \ {w}
           /\ UNCHANGED <<bindingVars, wlistBin, confl, pc, todoBin>>
  <2>1. UNCHANGED <<model, trail, reason, locked, polarity, queue>>
    BY <1>6 DEF bindingVars
  <2>2. /\ ListsInv'
        /\ watched' \in Seq(Lits \X Lits) /\ Len(watched') = Len(watched)
        /\ wlist' \in [Lits -> SUBSET Watchers]
        /\ todo \ {w} \subseteq wlist'[trail[ptr]]
    BY <1>1, <1>6, MoveWatcherStep
  <2> QED BY <1>3, <1>6, <2>1, <2>2
<1>7. CASE /\ LitStatus(p[1]) # "Sat" /\ Free(c) = {}
           /\ KeepWatcher(w, trail[ptr], p)
           /\ IF IsFalse(p[1])
              THEN ReturnConflict(c) /\ UNCHANGED bindingVars
              ELSE /\ Imply(c, p[1])
                   /\ locked' = locked \union {c}
                   /\ todo' = todo \ {w}
                   /\ UNCHANGED <<polarity, queue, confl, pc, todoBin>>
  <2>1. /\ ListsInv'
        /\ watched' \in Seq(Lits \X Lits) /\ Len(watched') = Len(watched)
        /\ wlist' \in [Lits -> SUBSET Watchers]
        /\ todo \ {w} \subseteq wlist'[trail[ptr]]
    BY <1>1, <1>7, KeepWatcherStep
  <2>2. \A k \in clauses[c] \ {p[1]} : IsFalse(k)
    <3>1. p[2] = Negation(trail[ptr])
      BY <1>2
    <3>2. \A k \in clauses[c] : k \notin {watched[c][1], watched[c][2]} => IsFalse(k)
      BY <1>7 DEF Free
    <3>3. \A k \in clauses[c] : k # p[1] /\ k # p[2] => IsFalse(k)
      <4> HIDE DEF p, c
      <4> QED BY <1>2, <3>2
    <3> QED BY <1>2, <3>1, <3>3
  <2>3. CASE IsFalse(p[1])
    <3>1. /\ UNCHANGED <<model, trail, reason, locked, polarity, queue>>
          /\ confl' = c /\ pc' = "conflict" /\ todoBin' = {} /\ todo' = {}
      BY <1>7, <2>3 DEF ReturnConflict, bindingVars
    <3>2. TypeOK'
      BY <1>1, <1>2, <2>1, <3>1 DEF IInv, TypeOK, PCs, ClauseIds, Watchers
    <3>3. VisitInv'
      <4>1. \A l \in clauses[c] : IsFalse(l)
        BY <2>2, <2>3
      <4>2. \E l \in clauses[c] : Level(VarOf(l)) = lvl
        BY <1>2
      <4> QED BY <1>1, <1>2, <3>1, <4>1, <4>2, SameBindings DEF VisitInv
    <3>4. ClientInv' /\ LevelsInv' /\ UnifyInv' /\ LearnInv' /\ UnsatInv'
      BY <1>1, <3>1, SameBindings
         DEF IInv, ClientInv, LevelsInv, UnifyInv, LearnInv, UnsatInv
    <3> QED BY <1>1, <2>1, <3>1, <3>2, <3>3, <3>4, SameBindings DEF IInv
  <2>4. CASE ~ IsFalse(p[1])
    <3>1. /\ Imply(c, p[1]) /\ locked' = locked \union {c}
          /\ todo' = todo \ {w} /\ UNCHANGED <<polarity, queue, confl, pc, todoBin>>
      BY <1>7, <2>4
    <3>2. LitStatus(p[1]) = "Indet"
      BY <1>2, <1>7, <2>4, InvFacts, StatusFacts DEF IsFalse
    <3>3. /\ TrailMatchesModel' /\ ReasonsImply' /\ DecisionsFirst'
          /\ FactsEntailed' /\ ClausesEntailed' /\ ClientInv'
          /\ \A v \in Vars : Level(v)' <= lvl
          /\ \A v \in Vars : model'[v] = 0 => reason'[v] = Nil
          /\ trail' \in Seq(Lits) /\ model' \in [Vars -> Int]
          /\ reason' \in [Vars -> {Nil} \union ClauseIds]
          /\ Len(trail') = Len(trail) + 1
          /\ \A i \in 1 .. Len(trail) : trail'[i] = trail[i]
          /\ \A i \in 1 .. Len(trail) + 1 : i >= ptr => Level(VarOf(trail[i]))' = lvl
      <4> HIDE DEF p, c
      <4> QED BY <1>1, <1>2, <2>2, <3>1, <3>2, ImplyStep
    <3>4. TypeOK'
      <4> HIDE DEF p, c
      <4>1. /\ clauses' \in Seq(Clauses) /\ watched' \in Seq(Lits \X Lits) /\ lbd' \in Seq(Nat)
            /\ Len(watched') = Len(clauses') /\ Len(lbd') = Len(clauses')
            /\ learned' \subseteq ClauseIds' /\ ClauseIds' = ClauseIds
            /\ wlistBin' \in [Lits -> SUBSET Watchers'] /\ wlist' \in [Lits -> SUBSET Watchers']
        BY <1>1, <1>2, <2>1 DEF IInv, TypeOK, ClauseIds, Watchers
      <4>2. /\ locked' \subseteq {Nil} \union ClauseIds' /\ confl' \in {Nil} \union ClauseIds'
            /\ todoBin' \subseteq Watchers' /\ todo' \subseteq Watchers'
            /\ polarity' \in [Vars -> BOOLEAN] /\ queue' \subseteq Vars /\ pc' \in PCs
        BY <1>1, <1>2, <2>1, <3>1, <4>1 DEF IInv, TypeOK, Watchers
      <4> QED BY <1>1, <1>2, <2>1, <3>3, <4>1, <4>2 DEF IInv, TypeOK
    <3>5. VisitInv'
      <4>1. ptr \in 1 .. Len(trail') /\ trail'[ptr] = trail[ptr]
        BY <1>2, <3>3, InvFacts
      <4> QED BY <1>1, <1>2, <2>1, <3>1, <3>3, <4>1, InvFacts DEF IInv, VisitInv
    <3>6. LevelsInv' /\ UnifyInv' /\ LearnInv' /\ UnsatInv'
      BY <1>1, <3>1, <3>3 DEF IInv, LevelsInv, UnifyInv, LearnInv, UnsatInv, Question
    <3> QED BY <2>1, <3>3, <3>4, <3>5, <3>6 DEF IInv
  <2> QED BY <2>3, <2>4
<1> QED BY <1>4, <1>5, <1>6, <1>7 DEF VisitLong

-----------------------------------------------------------------------------
(* Solve and the decisions.                                                *)

LEMMA SolveInv ==
    ASSUME IInv, Solve
    PROVE  IInv'
<1>1. /\ UNCHANGED <<model, trail, reason, locked, polarity, queue>>
      /\ UNCHANGED <<clauses, watched, lbd, learned, nbMax, idxReduce, wlist, wlistBin>>
      /\ UNCHANGED <<met, metLvl, lits, nbLvl, walk, assumptions, lit, ret>>
      /\ UNCHANGED <<nbConflicts, recent, cert, lastModel, formula, assumed, nbCalls>>
      /\ UNCHANGED <<ptr, todoBin, todo, confl, lvl>>
      /\ pc = "idle"
      /\ \/ status = "Unsat" /\ result' = "Unsat" /\ status' = status /\ pc' = pc
         \/ status # "Unsat" /\ status' = "Indet" /\ result' = "none" /\ pc' = "search"
  BY DEF Solve, bindingVars, dbVars, learnVars, propVars
<1>2. TypeOK'
  BY <1>1 DEF IInv, TypeOK, PCs, ClauseIds, Watchers
<1>3. ListsInv'
  BY <1>1, SameLists DEF IInv
<1>4. VisitInv' /\ UnifyInv' /\ LearnInv' /\ ClientInv'
  BY <1>1, SameBindings DEF IInv, VisitInv, UnifyInv, LearnInv, ClientInv
<1>5. LevelsInv' /\ UnsatInv'
  BY <1>1, SameBindings DEF IInv, LevelsInv, UnsatInv
<1> QED BY <1>1, <1>2, <1>3, <1>4, <1>5, SameBindings DEF IInv

\* What a step that calls chooseLit leaves alone.
DecidesOnly ==
    /\ UNCHANGED <<model, trail, reason, locked, polarity>>
    /\ UNCHANGED <<clauses, watched, lbd, wlistBin>>
    /\ UNCHANGED <<met, metLvl, lits, nbLvl, walk, assumptions>>
    /\ UNCHANGED <<nbConflicts, recent, cert, formula, assumed, nbCalls>>
    /\ UNCHANGED <<ptr, todoBin, todo, confl>>

\* What it needs of the lists and of the learned clauses, which reduceLearned
\* may have changed.
DatabaseOK ==
    /\ wlist' \in [Lits -> SUBSET Watchers] /\ \A l \in Lits : wlist'[l] \subseteq wlist[l]
    /\ learned' \subseteq ClauseIds
    /\ nbMax' \in Nat \ {0} /\ idxReduce' \in Nat

\* chooseLit answers Sat or opens a level above all others.
LEMMA ChooseLitInv ==
    ASSUME IInv, pc # "unify", DecidesOnly, DatabaseOK, NEW q, q \subseteq Vars,
           NEW level \in Nat, level > 1, ChooseLit(q, model, polarity, level),
           (\A v \in Vars : Level(v) < level) \/ q = {}
    PROVE  IInv'
<1>0. /\ UNCHANGED <<model, trail, reason, locked, polarity>>
      /\ UNCHANGED <<clauses, watched, lbd, wlistBin>>
      /\ UNCHANGED <<met, metLvl, lits, nbLvl, walk, assumptions>>
      /\ UNCHANGED <<nbConflicts, recent, cert, formula, assumed, nbCalls>>
      /\ UNCHANGED <<ptr, todoBin, todo, confl>>
      /\ wlist' \in [Lits -> SUBSET Watchers] /\ \A l \in Lits : wlist'[l] \subseteq wlist[l]
      /\ learned' \subseteq ClauseIds
      /\ nbMax' \in Nat \ {0} /\ idxReduce' \in Nat
  BY DEF DecidesOnly, DatabaseOK
<1>1. ListsInv'
  BY <1>0 DEF IInv, ListsInv, ClauseIds
<1>2. ClientInv'
  BY <1>0, SameBindings DEF IInv, ClientInv
<1>3. \A v \in Vars : reason[v] # Nil => model[v] # 0
  BY DEF IInv, UnifyInv
<1>4. CASE /\ queue' = {}
           /\ status' = "Sat" /\ result' = "Sat" /\ lastModel' = model
           /\ pc' = "idle" /\ lit' = NoLit /\ ret' = "none" /\ lvl' = lvl
  <2>1. TypeOK'
    BY <1>0, <1>4 DEF IInv, TypeOK, PCs, ClauseIds, Watchers
  <2>2. VisitInv' /\ UnifyInv' /\ LearnInv' /\ LevelsInv' /\ UnsatInv'
    BY <1>0, <1>3, <1>4 DEF VisitInv, UnifyInv, LearnInv, LevelsInv, UnsatInv
  <2> QED BY <1>0, <1>1, <1>2, <2>1, <2>2, SameBindings DEF IInv
<1>5. CASE \E v \in {x \in q : model[x] = 0} :
             /\ queue' = {x \in q : model[x] = 0} \ {v}
             /\ lit' = SignedLit(v, ~ polarity[v])
             /\ lvl' = level
             /\ pc' = "unify" /\ ret' = "branch"
             /\ UNCHANGED <<status, result, lastModel>>
  <2>1. PICK v \in {x \in q : model[x] = 0} :
             /\ queue' = {x \in q : model[x] = 0} \ {v}
             /\ lit' = SignedLit(v, ~ polarity[v])
             /\ lvl' = level
             /\ pc' = "unify" /\ ret' = "branch"
             /\ UNCHANGED <<status, result, lastModel>>
    BY <1>5
  <2>2. v \in Vars /\ model[v] = 0 /\ (~ polarity[v]) \in BOOLEAN
    OBVIOUS
  <2>3. lit' \in Lits /\ VarOf(lit') = v
    BY <2>1, <2>2, SignedLitFacts
  <2>4. TypeOK'
    <3>1. level \in Nat \ {0}
      OBVIOUS
    <3> QED BY <1>0, <2>1, <2>3, <3>1 DEF IInv, TypeOK, PCs, ClauseIds, Watchers
  <2>5. \A x \in Vars : Level(x)' < lvl'
    BY <1>0, <2>1, SameBindings
  <2>6. LevelsInv'
    BY <2>1, <2>5, <1>0, SameBindings, InvFacts DEF LevelsInv
  <2>7. UnifyInv'
    BY <1>0, <1>3, <2>1, <2>2, <2>3, <2>5 DEF UnifyInv
  <2>8. VisitInv' /\ LearnInv' /\ UnsatInv'
    BY <1>0, <2>1, SameBindings DEF IInv, VisitInv, LearnInv, UnsatInv
  <2> QED BY <1>0, <1>1, <1>2, <2>4, <2>6, <2>7, <2>8, SameBindings DEF IInv
<1> QED BY <1>4, <1>5 DEF ChooseLit

LEMMA SearchInv ==
    ASSUME IInv, Search
    PROVE  IInv'
<1>1. /\ pc = "search" /\ ChooseLit(queue, model, polarity, 2)
      /\ DecidesOnly /\ UNCHANGED <<learned, nbMax, idxReduce, wlist>>
  BY DEF Search, DecidesOnly, dbVars, learnVars, propVars
<1>2. DatabaseOK
  BY <1>1 DEF DatabaseOK, IInv, TypeOK
<1>3. (\A v \in Vars : Level(v) < 2) \/ queue = {}
  BY <1>1, InvFacts DEF IInv, LevelsInv
<1>4. queue \subseteq Vars
  BY DEF IInv, TypeOK
<1> QED BY <1>1, <1>2, <1>3, <1>4, ChooseLitInv

LEMMA BranchInv ==
    ASSUME IInv, Branch
    PROVE  IInv'
<1>1. pc = "propagate" /\ DecidesOnly
  BY DEF Branch, Propagated, DecidesOnly, dbVars, learnVars, propVars
<1>2. lvl + 1 \in Nat /\ lvl + 1 > 1 /\ \A v \in Vars : Level(v) < lvl + 1
  BY <1>1, InvFacts DEF IInv, LevelsInv
<1>3. queue \subseteq Vars
  BY DEF IInv, TypeOK
<1>4. CASE /\ ChooseLit(queue, model, polarity, lvl + 1)
           /\ UNCHANGED <<learned, nbMax, idxReduce, wlist>>
  <2>1. DatabaseOK
    BY <1>4 DEF DatabaseOK, IInv, TypeOK
  <2> QED BY <1>1, <1>2, <1>3, <1>4, <2>1, ChooseLitInv
<1>5. CASE /\ pc' = "panic"
           /\ UNCHANGED <<queue, status, result, lastModel, lvl, lit, ret,
                          learned, nbMax, idxReduce, wlist>>
  <2>1. /\ UNCHANGED <<model, trail, reason, locked, polarity>>
        /\ UNCHANGED <<clauses, watched, lbd, wlistBin>>
        /\ UNCHANGED <<met, metLvl, lits, nbLvl, walk, assumptions>>
        /\ UNCHANGED <<nbConflicts, recent, cert, formula, assumed, nbCalls>>
        /\ UNCHANGED <<ptr, todoBin, todo, confl>>
    BY <1>1 DEF DecidesOnly
  <2>2. TypeOK'
    BY <1>5, <2>1 DEF IInv, TypeOK, PCs, ClauseIds, Watchers
  <2>3. ListsInv'
    BY <1>5, <2>1, SameLists DEF IInv
  <2>4. VisitInv' /\ UnifyInv' /\ LearnInv' /\ LevelsInv' /\ UnsatInv' /\ ClientInv'
    BY <1>1, <1>5, <2>1, SameBindings
       DEF IInv, VisitInv, UnifyInv, LearnInv, LevelsInv, UnsatInv, ClientInv
  <2> QED BY <2>1, <2>2, <2>3, <2>4, SameBindings DEF IInv
<1>6. ASSUME NEW H, ReduceLearned(H, nbConflicts), ChooseLit(queue, model, polarity, lvl + 1)
      PROVE  IInv'
  <2>1. wlist' = Unwatch(Removed(H))
    BY <1>6 DEF ReduceLearned
  <2>2. wlist' \in [Lits -> SUBSET Watchers] /\ \A l \in Lits : wlist'[l] \subseteq wlist[l]
    BY <2>1 DEF Unwatch, IInv, TypeOK
  <2>3. learned' \subseteq ClauseIds
    BY <1>6 DEF ReduceLearned, IInv, TypeOK
  <2>4. nbMax' \in Nat \ {0}
    BY <1>6, NbMaxAssumption DEF ReduceLearned, IInv, TypeOK
  <2>5. idxReduce' \in Nat
    <3>1. nbConflicts \in Nat /\ nbMax \in Nat \ {0}
      BY DEF IInv, TypeOK
    <3>2. nbConflicts \div nbMax \in Nat
      BY <3>1
    <3> QED BY <1>6, <3>2 DEF ReduceLearned
  <2>6. DatabaseOK
    BY <2>2, <2>3, <2>4, <2>5 DEF DatabaseOK
  <2> QED BY <1>1, <1>2, <1>3, <1>6, <2>6, ChooseLitInv
<1> QED BY <1>4, <1>5, <1>6 DEF Branch

\* After a learned unit was propagated, the search starts again from level 2.
LEMMA UnitPropagatedInv ==
    ASSUME IInv, UnitPropagated
    PROVE  IInv'
<1>1. /\ pc = "propagate" /\ ret = "unit" /\ ChooseLit(OrderHeap(model), model, polarity, 2)
      /\ DecidesOnly /\ UNCHANGED <<learned, nbMax, idxReduce, wlist>>
  BY DEF UnitPropagated, Propagated, DecidesOnly, dbVars, learnVars, propVars
<1>2. DatabaseOK
  BY <1>1 DEF DatabaseOK, IInv, TypeOK
<1>3. \A v \in Vars : Level(v) < 2
  BY <1>1, InvFacts DEF IInv, LevelsInv
<1>4. OrderHeap(model) \subseteq Vars
  BY DEF OrderHeap
<1> QED BY <1>1, <1>2, <1>3, <1>4, ChooseLitInv

-----------------------------------------------------------------------------
(* Conflicts.                                                              *)

LEMMA ConflictInv ==
    ASSUME IInv, Conflict
    PROVE  IInv'
<1>1. /\ UNCHANGED <<model, trail, reason, locked, polarity, queue>>
      /\ UNCHANGED <<clauses, watched, lbd, learned, nbMax, idxReduce, wlist, wlistBin>>
      /\ UNCHANGED <<assumptions, lit, ret, status, ptr, todoBin, todo, confl, lvl>>
      /\ UNCHANGED <<cert, lastModel, formula, assumed, nbCalls, result>>
      /\ pc = "conflict" /\ ret = "branch" /\ pc' = "learn"
      /\ StartLearn(confl) /\ nbConflicts' = nbConflicts + 1 /\ recent' \in AfterConflict
  BY DEF Conflict, bindingVars, dbVars, propVars, clientVars
<1>2. /\ confl \in ClauseIds /\ clauses[confl] \in Clauses
      /\ \A l \in clauses[confl] : IsFalse(l)
      /\ \E l \in clauses[confl] : Level(VarOf(l)) = lvl
      /\ \A v \in Vars : Level(v) <= lvl
  BY <1>1, InvFacts DEF IInv, VisitInv, LevelsInv
<1>3. /\ LearnInv'
      /\ met' \subseteq Vars /\ metLvl' \subseteq Vars /\ lits' \in Clauses
      /\ nbLvl' \in Int /\ walk' \in Int
  <2>1. BindingsInv /\ ClausesEntailed /\ lvl \in Nat \ {0}
    BY InvFacts DEF IInv
  <2> QED BY <1>1, <1>2, <2>1, StartLearnInv
<1>4. nbConflicts' \in Nat /\ recent' \in Nat
  BY <1>1 DEF IInv, TypeOK, AfterConflict, ClearLbd
<1>5. TypeOK'
  BY <1>1, <1>3, <1>4 DEF IInv, TypeOK, PCs, ClauseIds, Watchers
<1>6. ListsInv'
  BY <1>1, SameLists DEF IInv
<1>7. VisitInv' /\ UnifyInv' /\ LevelsInv' /\ UnsatInv' /\ ClientInv'
  BY <1>1, SameBindings DEF IInv, VisitInv, UnifyInv, LevelsInv, UnsatInv, ClientInv
<1> QED BY <1>1, <1>3, <1>5, <1>6, <1>7, SameBindings DEF IInv

LEMMA ResolveReasonInv ==
    ASSUME IInv, ResolveReason
    PROVE  IInv'
<1>1. /\ UNCHANGED <<model, trail, reason, locked, polarity, queue>>
      /\ UNCHANGED <<clauses, watched, lbd, learned, nbMax, idxReduce, wlist, wlistBin>>
      /\ UNCHANGED <<assumptions, lit, ret, status, ptr, todoBin, todo, confl, lvl, pc>>
      /\ UNCHANGED <<nbConflicts, recent, cert, lastModel, formula, assumed, nbCalls, result>>
      /\ pc = "learn"
  BY DEF ResolveReason, Resolve, bindingVars, dbVars, ctlVars, clientVars
<1>2. /\ LearnInv'
      /\ met' \subseteq Vars /\ metLvl' \subseteq Vars /\ lits' \in Clauses
      /\ nbLvl' \in Int /\ walk' \in Int
  BY InvFacts, ResolveStep
<1>3. TypeOK'
  BY <1>1, <1>2 DEF IInv, TypeOK, PCs, ClauseIds, Watchers
<1>4. ListsInv'
  BY <1>1, SameLists DEF IInv
<1>5. VisitInv' /\ UnifyInv' /\ LevelsInv' /\ UnsatInv' /\ ClientInv'
  BY <1>1, SameBindings DEF IInv, VisitInv, UnifyInv, LevelsInv, UnsatInv, ClientInv
<1> QED BY <1>1, <1>2, <1>3, <1>4, <1>5, SameBindings DEF IInv

\* setUnsat when the question has no model.
LEMMA SetUnsatInv ==
    ASSUME IInv, SetUnsat, ~ Satisfiable(Question),
           UNCHANGED <<model, trail, reason, locked, polarity, queue>>,
           UNCHANGED <<clauses, watched, lbd, learned, nbMax, idxReduce, wlist, wlistBin>>,
           UNCHANGED <<assumptions, ptr, todoBin, todo, lvl>>,
           UNCHANGED <<nbConflicts, recent, lastModel, formula, assumed, nbCalls>>,
           met' \subseteq Vars, metLvl' \subseteq Vars, lits' \in Clauses,
           nbLvl' \in Int, walk' \in Int, pc # "unify"
    PROVE  IInv'
<1>1. /\ status' = "Unsat" /\ result' = "Unsat" /\ cert' = Append(cert, {})
      /\ pc' = "idle" /\ ret' = "none" /\ confl' = Nil /\ lit' = NoLit
  BY DEF SetUnsat
<1>2. cert' \in Seq(Clauses)
  BY <1>1 DEF IInv, TypeOK, Clauses
<1>3. TypeOK'
  BY <1>1, <1>2 DEF IInv, TypeOK, PCs, ClauseIds, Watchers
<1>4. ListsInv'
  BY SameLists DEF IInv
<1>5. VisitInv' /\ UnifyInv' /\ LevelsInv' /\ LearnInv'
  BY <1>1 DEF IInv, VisitInv, UnifyInv, LevelsInv, LearnInv
<1>6. UnsatInv' /\ ClientInv'
  BY SameBindings DEF IInv, UnsatInv, ClientInv
<1> QED BY <1>3, <1>4, <1>5, <1>6, SameBindings DEF IInv

\* The empty clause was learned, or only assumed literals are left.
LEMMA LearnFalseInv ==
    ASSUME IInv, LearnFalse
    PROVE  IInv'
<1>1. /\ UNCHANGED <<model, trail, reason, locked, polarity, queue>>
      /\ UNCHANGED <<clauses, watched, lbd, learned, nbMax, idxReduce, wlist, wlistBin>>
      /\ UNCHANGED <<assumptions, ptr, todoBin, todo, lvl>>
      /\ UNCHANGED <<nbConflicts, recent, lastModel, formula, assumed, nbCalls>>
      /\ pc = "learn" /\ SetUnsat
      /\ met' = {} /\ metLvl' = {} /\ lits' = {} /\ nbLvl' = 0 /\ walk' = 0
  BY DEF LearnFalse, OnlyAssumed, Learnt, EndLearn, bindingVars, dbVars
<1>2. lvl = 1
  <2>1. CASE OnlyAssumed
    <3>1. Level(ResolveVar) = lvl
      BY <1>1, InvFacts, NextMetFacts
    <3>2. Level(ResolveVar) = 1
      BY <2>1 DEF OnlyAssumed, IInv, ClientInv
    <3> QED BY <3>1, <3>2
  <2>2. CASE Learnt /\ \E u \in AssertingLits : Level(VarOf(u)) = 1 /\ IsFalse(u)
    BY <2>2, InvFacts, AssertingFacts
  <2> QED BY <2>1, <2>2 DEF LearnFalse
<1>3. ~ Satisfiable(Question)
  BY <1>1, <1>2, InvFacts, LearnTop
<1>4. met' \subseteq Vars /\ metLvl' \subseteq Vars /\ lits' \in Clauses
  BY <1>1 DEF Clauses
<1> QED BY <1>1, <1>3, <1>4, SetUnsatInv

\* A conflict at level 1 refutes the question.
LEMMA TopConflict ==
    ASSUME IInv, pc = "conflict", ret # "branch"
    PROVE  ~ Satisfiable(Question)
<1>1. /\ confl \in ClauseIds /\ clauses[confl] \in Clauses /\ lvl = 1
      /\ \A l \in clauses[confl] : IsFalse(l)
      /\ \A v \in Vars : Level(v) <= lvl
  BY InvFacts DEF IInv, VisitInv, LevelsInv
<1>2. ASSUME NEW l \in clauses[confl] PROVE IsFalse(l) /\ Level(VarOf(l)) = 1
  <2>1. l \in Lits /\ VarOf(l) \in Vars /\ IsFalse(l)
    BY <1>1, LitFacts DEF Clauses
  <2>2. model[VarOf(l)] # 0
    BY <2>1, InvFacts, StatusFacts
  <2> QED BY <1>1, <2>1, <2>2, InvFacts
<1>3. Entails(Question, clauses[confl])
  BY <1>1, InvFacts, EntailsWeaken DEF Question
<1> QED BY <1>1, <1>2, <1>3, InvFacts, FactsRefute DEF IInv

LEMMA UnitConflictInv ==
    ASSUME IInv, UnitConflict
    PROVE  IInv'
<1>1. /\ UNCHANGED <<model, trail, reason, locked, polarity, queue>>
      /\ UNCHANGED <<clauses, watched, lbd, learned, nbMax, idxReduce, wlist, wlistBin>>
      /\ UNCHANGED <<assumptions, ptr, todoBin, todo, lvl>>
      /\ UNCHANGED <<nbConflicts, recent, lastModel, formula, assumed, nbCalls>>
      /\ UNCHANGED <<met, metLvl, lits, nbLvl, walk>>
      /\ pc = "conflict" /\ ret = "unit" /\ SetUnsat
  BY DEF UnitConflict, bindingVars, dbVars, learnVars
<1>2. ~ Satisfiable(Question)
  BY <1>1, TopConflict
<1>3. /\ met' \subseteq Vars /\ metLvl' \subseteq Vars /\ lits' \in Clauses
      /\ nbLvl' \in Int /\ walk' \in Int
  BY <1>1 DEF IInv, TypeOK
<1> QED BY <1>1, <1>2, <1>3, SetUnsatInv

\* AppendClause and Assume return.
LEMMA CallReturnsInv ==
    ASSUME IInv, CallReturns
    PROVE  IInv'
<1>1. /\ UNCHANGED <<model, trail, reason, locked, polarity>>
      /\ UNCHANGED <<clauses, watched, lbd, learned, nbMax, idxReduce, wlist, wlistBin>>
      /\ UNCHANGED <<assumptions, lit, ptr, todoBin, todo, lvl>>
      /\ UNCHANGED <<met, metLvl, lits, nbLvl, walk>>
      /\ UNCHANGED <<nbConflicts, recent, cert, lastModel, formula, assumed, nbCalls, result>>
      /\ pc' = "idle" /\ ret' = "none" /\ confl' = Nil
      /\ ret # "branch" /\ pc \in {"propagate", "conflict"}
      /\ queue' \in {queue, OrderHeap(model)}
      /\ \/ status' = status
         \/ pc = "conflict" /\ status' = "Unsat"
  BY DEF CallReturns, Propagated, dbVars, learnVars, clientVars
<1>2. TypeOK'
  <2>1. queue' \subseteq Vars
    BY <1>1 DEF OrderHeap, IInv, TypeOK
  <2> QED BY <1>1, <2>1 DEF IInv, TypeOK, PCs, ClauseIds, Watchers
<1>3. ListsInv'
  BY <1>1, SameLists DEF IInv
<1>4. lvl = 1 /\ \A v \in Vars : Level(v) <= 1
  BY <1>1 DEF IInv, LevelsInv
<1>5. VisitInv' /\ UnifyInv' /\ LevelsInv' /\ LearnInv' /\ ClientInv'
  BY <1>1, <1>4, SameBindings DEF IInv, VisitInv, UnifyInv, LevelsInv, LearnInv, ClientInv
<1>6. UnsatInv'
  BY <1>1, TopConflict DEF IInv, UnsatInv, Question
<1> QED BY <1>1, <1>2, <1>3, <1>5, <1>6, SameBindings DEF IInv

-----------------------------------------------------------------------------
(* Steps that backtrack.                                                   *)

\* cleanupBindings(level) where level is at least 1.
LEMMA CleanStep ==
    ASSUME IInv, NEW level \in Nat \ {0}, CleanupBindings(level),
           \A v \in Vars : model[v] # 0 /\ Level(v) <= level => reason'[v] = reason[v],
           \A c \in ClauseIds : clauses'[c] = clauses[c],
           formula \subseteq formula', UNCHANGED <<assumed, assumptions>>
    PROVE  /\ TrailMatchesModel' /\ ReasonsImply' /\ DecisionsFirst' /\ FactsEntailed'
           /\ ClientInv'
           /\ \A v \in Vars : Level(v)' = IF Level(v) > level THEN 0 ELSE Level(v)
           /\ \A v \in Vars : Level(v)' <= level
           /\ \A v \in Vars : model'[v] = IF Level(v) > level THEN 0 ELSE model[v]
           /\ \A v \in Vars : CleanReason(level)[v] = IF Level(v) > level THEN Nil ELSE reason[v]
           /\ CleanReason(level) \in [Vars -> {Nil} \union ClauseIds]
           /\ CleanLocked(level) \subseteq {Nil} \union ClauseIds
           /\ CleanQueue(level) \subseteq Vars
           /\ model' \in [Vars -> Int] /\ trail' \in Seq(Lits)
           /\ polarity' \in [Vars -> BOOLEAN]
<1>1. BindingsInv /\ level \in Nat /\ FactsEntailed
  BY InvFacts DEF IInv
<1>2. /\ trail' = CleanTrail(level) /\ model' = CleanModel(level)
      /\ polarity' = CleanPolarity(level)
  BY DEF CleanupBindings
<1>3. Undoes(level) /\ Question \subseteq Question'
  BY <1>2 DEF Undoes, Question
<1>4. TrailMatchesModel' /\ ReasonsImply' /\ DecisionsFirst' /\ FactsEntailed'
  BY <1>1, <1>3, BindingsCleaned
<1>5. /\ CleanTrail(level) \in Seq(Lits) /\ CleanModel(level) \in [Vars -> Int]
      /\ CleanPolarity(level) \in [Vars -> BOOLEAN]
      /\ CleanModel(level) = [v \in Vars |-> IF Level(v) > level THEN 0 ELSE model[v]]
      /\ CleanReason(level) = [v \in Vars |-> IF Level(v) > level THEN Nil ELSE reason[v]]
      /\ CleanReason(level) \in [Vars -> {Nil} \union ClauseIds]
      /\ Dropped(level) = {v \in Vars : Level(v) > level}
  BY <1>1, CleanFacts
<1>6. \A v \in Vars : model'[v] = IF Level(v) > level THEN 0 ELSE model[v]
  BY <1>2, <1>5
<1>7. \A v \in Vars : Level(v)' = IF Level(v) > level THEN 0 ELSE Level(v)
  BY <1>6 DEF Level, Abs
<1>8. \A v \in Vars : Level(v)' <= level
  BY <1>7, InvFacts
<1>9. CleanLocked(level) \subseteq {Nil} \union ClauseIds /\ CleanQueue(level) \subseteq Vars
  BY <1>5 DEF CleanLocked, CleanQueue, IInv, TypeOK
<1>10. ClientInv'
  <2>1. \A v \in assumptions : Level(v) = 1 /\ v \in Vars
    BY DEF IInv, ClientInv, TypeOK
  <2> QED BY <1>7, <2>1 DEF IInv, ClientInv
<1> QED BY <1>2, <1>4, <1>5, <1>6, <1>7, <1>8, <1>9, <1>10

\* An unbound variable has no reason once its binding is undone.
LEMMA CleanReasons ==
    ASSUME IInv, pc # "unify", NEW level \in Nat \ {0}, NEW v \in Vars,
           CleanModel(level)[v] = 0
    PROVE  CleanReason(level)[v] = Nil
<1>1. /\ CleanModel(level) = [x \in Vars |-> IF Level(x) > level THEN 0 ELSE model[x]]
      /\ CleanReason(level) = [x \in Vars |-> IF Level(x) > level THEN Nil ELSE reason[x]]
  BY InvFacts, CleanFacts
<1>2. model[v] = 0 => reason[v] = Nil
  BY DEF IInv, UnifyInv
<1> QED BY <1>1, <1>2

LEMMA RestartInv ==
    ASSUME IInv, Restart
    PROVE  IInv'
<1>1. /\ UNCHANGED <<clauses, watched, lbd, learned, nbMax, idxReduce, wlist, wlistBin>>
      /\ UNCHANGED <<met, metLvl, lits, nbLvl, walk, assumptions, lit, status>>
      /\ UNCHANGED <<nbConflicts, cert, lastModel, formula, assumed, nbCalls, result>>
      /\ UNCHANGED <<ptr, todoBin, todo, confl, lvl>>
      /\ pc = "propagate" /\ pc' = "search" /\ ret' = "none" /\ recent' = 0
      /\ CleanupBindings(1)
      /\ reason' = CleanReason(1) /\ locked' = CleanLocked(1)
      /\ queue' = OrderHeap(CleanModel(1))
  BY DEF Restart, Restarted, Propagated, ClearLbd, dbVars, learnVars, propVars, clientVars
<1>2. \A v \in Vars : model[v] # 0 /\ Level(v) <= 1 => reason'[v] = reason[v]
  <2>1. CleanReason(1) = [x \in Vars |-> IF Level(x) > 1 THEN Nil ELSE reason[x]]
    BY InvFacts, CleanFacts
  <2> QED BY <1>1, <2>1, InvFacts
<1>3. /\ TrailMatchesModel' /\ ReasonsImply' /\ DecisionsFirst' /\ FactsEntailed' /\ ClientInv'
      /\ \A v \in Vars : Level(v)' <= 1
      /\ CleanReason(1) \in [Vars -> {Nil} \union ClauseIds]
      /\ CleanLocked(1) \subseteq {Nil} \union ClauseIds
      /\ model' \in [Vars -> Int] /\ trail' \in Seq(Lits)
      /\ polarity' \in [Vars -> BOOLEAN]
  BY <1>1, <1>2, CleanStep
<1>4. TypeOK'
  <2>1. queue' \subseteq Vars
    BY <1>1 DEF OrderHeap
  <2> QED BY <1>1, <1>3, <2>1 DEF IInv, TypeOK, PCs, ClauseIds, Watchers
<1>5. ListsInv' /\ ClausesEntailed'
  BY <1>1, SameLists DEF IInv, ClausesEntailed, ClauseIds
<1>6. UnifyInv'
  <2>1. model' = CleanModel(1)
    BY <1>1 DEF CleanupBindings
  <2>2. \A v \in Vars : model'[v] = 0 => reason'[v] = Nil
    BY <1>1, <2>1, CleanReasons
  <2> QED BY <1>1, <2>2 DEF UnifyInv
<1>7. VisitInv' /\ LearnInv' /\ LevelsInv' /\ UnsatInv'
  BY <1>1, <1>3 DEF IInv, VisitInv, LearnInv, LevelsInv, UnsatInv, Question
<1> QED BY <1>3, <1>4, <1>5, <1>6, <1>7 DEF IInv

\* The learned unit follows from the clauses of the client.
LEMMA LearnUnitInv ==
    ASSUME IInv, NEW u \in AssertingLits, LearnUnit(u)
    PROVE  IInv'
<1>1. /\ UNCHANGED <<clauses, watched, lbd, learned, nbMax, idxReduce, wlist, wlistBin>>
      /\ UNCHANGED <<assumptions, status, ptr, todoBin, todo>>
      /\ UNCHANGED <<nbConflicts, lastModel, formula, assumed, nbCalls, result>>
      /\ Learnt /\ pc = "learn" /\ Minimized = {}
      /\ ~ (Level(VarOf(u)) = 1 /\ IsFalse(u))
      /\ pc' = "unify" /\ ret' = "unit" /\ lit' = u /\ lvl' = 1 /\ confl' = Nil
      /\ recent' = AddLbd(recent) /\ cert' = Append(cert, {u})
      /\ CleanupBindings(1)
      /\ reason' = CleanReason(1) /\ locked' = CleanLocked(1) /\ queue' = CleanQueue(1)
      /\ met' = {} /\ metLvl' = {} /\ lits' = {} /\ nbLvl' = 0 /\ walk' = 0
  BY DEF LearnUnit, Learnt, EndLearn, dbVars, clientVars
<1>2. u \in Lits /\ VarOf(u) \in Vars /\ IsFalse(u) /\ Level(VarOf(u)) = lvl /\ lvl > 1
  <2>1. u \in Lits /\ IsFalse(u) /\ Level(VarOf(u)) = lvl
    BY <1>1, InvFacts, AssertingFacts
  <2> QED BY <1>1, <2>1, InvFacts, LitFacts
<1>3. Entails(Question, {u})
  <2>1. Entails(formula, {u} \union Minimized)
    BY <1>1, <1>2, InvFacts, MinimizedEntailed
  <2>2. {u} \union Minimized = {u}
    BY <1>1
  <2> QED BY <2>1, <2>2, EntailsWeaken DEF Question
<1>4. \A v \in Vars : model[v] # 0 /\ Level(v) <= 1 => reason'[v] = reason[v]
  <2>1. CleanReason(1) = [x \in Vars |-> IF Level(x) > 1 THEN Nil ELSE reason[x]]
    BY InvFacts, CleanFacts
  <2> QED BY <1>1, <2>1, InvFacts
<1>5. /\ TrailMatchesModel' /\ ReasonsImply' /\ DecisionsFirst' /\ FactsEntailed' /\ ClientInv'
      /\ \A v \in Vars : Level(v)' <= 1
      /\ \A v \in Vars : model'[v] = IF Level(v) > 1 THEN 0 ELSE model[v]
      /\ CleanReason(1) \in [Vars -> {Nil} \union ClauseIds]
      /\ CleanLocked(1) \subseteq {Nil} \union ClauseIds /\ CleanQueue(1) \subseteq Vars
      /\ model' \in [Vars -> Int] /\ trail' \in Seq(Lits)
      /\ polarity' \in [Vars -> BOOLEAN]
  BY <1>1, <1>4, CleanStep
<1>6. TypeOK'
  <2>1. cert' \in Seq(Clauses) /\ lits' \in Clauses /\ recent' \in Nat
    BY <1>1, <1>2 DEF AddLbd, Clauses, IInv, TypeOK
  <2>2. /\ reason' \in [Vars -> {Nil} \union ClauseIds'] /\ locked' \subseteq {Nil} \union ClauseIds'
        /\ queue' \subseteq Vars /\ pc' \in PCs /\ lvl' \in Nat \ {0}
        /\ lit' \in {NoLit} \union Lits
    BY <1>1, <1>2, <1>5 DEF ClauseIds, PCs
  <2>3. /\ clauses' \in Seq(Clauses) /\ watched' \in Seq(Lits \X Lits) /\ lbd' \in Seq(Nat)
        /\ Len(watched') = Len(clauses') /\ Len(lbd') = Len(clauses')
        /\ learned' \subseteq ClauseIds' /\ nbMax' \in Nat \ {0} /\ idxReduce' \in Nat
        /\ wlistBin' \in [Lits -> SUBSET Watchers'] /\ wlist' \in [Lits -> SUBSET Watchers']
        /\ todoBin' \subseteq Watchers' /\ todo' \subseteq Watchers'
    BY <1>1 DEF IInv, TypeOK, ClauseIds, Watchers
  <2>4. /\ ptr' \in Nat \ {0} /\ assumptions' \subseteq Vars /\ status' \in {"Indet", "Sat", "Unsat"}
        /\ nbConflicts' \in Nat /\ lastModel' \in [Vars -> Int] /\ formula' \in SUBSET Clauses
        /\ assumed' \in Clauses /\ nbCalls' \in Nat /\ result' \in {"none", "Sat", "Unsat"}
    BY <1>1 DEF IInv, TypeOK
  <2>5. /\ met' \subseteq Vars /\ metLvl' \subseteq Vars /\ nbLvl' \in Int /\ walk' \in Int
        /\ confl' \in {Nil} \union ClauseIds' /\ ret' \in {"none", "branch", "unit", "append", "assume"}
    BY <1>1
  <2> QED BY <1>5, <2>1, <2>2, <2>3, <2>4, <2>5 DEF TypeOK
<1>7. ListsInv' /\ ClausesEntailed'
  BY <1>1, SameLists DEF IInv, ClausesEntailed, ClauseIds
<1>8. UnifyInv'
  <2>1. model' = CleanModel(1)
    BY <1>1 DEF CleanupBindings
  <2>2. \A v \in Vars : model'[v] = 0 => reason'[v] = Nil
    BY <1>1, <2>1, CleanReasons
  <2>3. model'[VarOf(u)] = 0
    BY <1>2, <1>5
  <2>4. Entails(Question', {u})
    BY <1>1, <1>3 DEF Question
  <2> QED BY <1>1, <1>2, <2>2, <2>3, <2>4 DEF UnifyInv
<1>9. VisitInv' /\ LearnInv' /\ LevelsInv' /\ UnsatInv'
  BY <1>1, <1>5 DEF IInv, VisitInv, LearnInv, LevelsInv, UnsatInv, Question
<1> QED BY <1>5, <1>6, <1>7, <1>8, <1>9 DEF IInv

-----------------------------------------------------------------------------
(* Steps that add a clause.                                                *)

\* appendClause: the clause gets a fresh index, is watched at its first two
\* literals, and the other clauses stay as they are.
LEMMA AddClauseStep ==
    ASSUME IInv, NEW C \in Clauses, NEW f \in C, NEW s \in C, f # s, NEW d \in Nat,
           AddClause(C, f, s, d)
    PROVE  /\ ListsInv'
           /\ clauses' \in Seq(Clauses) /\ clauses'[Len(clauses) + 1] = C
           /\ watched' \in Seq(Lits \X Lits) /\ Len(watched') = Len(clauses')
           /\ lbd' \in Seq(Nat) /\ Len(lbd') = Len(clauses')
           /\ wlistBin' \in [Lits -> SUBSET Watchers'] /\ wlist' \in [Lits -> SUBSET Watchers']
           /\ ClauseIds' = ClauseIds \union {Len(clauses) + 1}
           /\ Len(clauses) + 1 \in Nat \ {0} /\ Len(clauses) + 1 \notin ClauseIds
           /\ \A e \in ClauseIds : clauses'[e] = clauses[e]
<1> DEFINE c == Len(clauses) + 1
<1>1. /\ clauses \in Seq(Clauses) /\ watched \in Seq(Lits \X Lits) /\ lbd \in Seq(Nat)
      /\ Len(watched) = Len(clauses) /\ Len(lbd) = Len(clauses)
      /\ wlistBin \in [Lits -> SUBSET Watchers] /\ wlist \in [Lits -> SUBSET Watchers]
      /\ ClauseIds = 1 .. Len(clauses) /\ Len(clauses) \in Nat
  BY DEF IInv, TypeOK, ClauseIds
<1>2. /\ clauses' = Append(clauses, C) /\ watched' = Append(watched, <<f, s>>)
      /\ lbd' = Append(lbd, d)
      /\ \/ /\ Cardinality(C) = 2
            /\ wlistBin' = Watch(wlistBin, c, f, s) /\ wlist' = wlist
         \/ /\ wlist' = Watch(wlist, c, f, s) /\ wlistBin' = wlistBin
  BY DEF AddClause
<1>3. /\ f \in Lits /\ s \in Lits /\ Negation(f) \in Lits /\ Negation(s) \in Lits
      /\ Negation(Negation(f)) = f /\ Negation(Negation(s)) = s /\ Negation(f) # Negation(s)
  <2>1. f \in Lits /\ s \in Lits
    BY DEF Clauses
  <2> QED BY <2>1, LitFacts
<1>4. /\ clauses' \in Seq(Clauses) /\ Len(clauses') = c /\ clauses'[c] = C
      /\ ClauseIds' = ClauseIds \union {c} /\ c \notin ClauseIds /\ c \in Nat \ {0}
      /\ \A e \in ClauseIds : clauses'[e] = clauses[e]
  BY <1>1, <1>2 DEF ClauseIds
<1>5. /\ watched' \in Seq(Lits \X Lits) /\ Len(watched') = c
      /\ watched'[c] = <<f, s>> /\ \A e \in ClauseIds : watched'[e] = watched[e]
  <2>1. <<f, s>> \in Lits \X Lits
    BY <1>3
  <2> HIDE DEF AddClause
  <2> QED BY <1>1, <1>2, <2>1
<1>6. lbd' \in Seq(Nat) /\ Len(lbd') = c
  BY <1>1, <1>2
<1> HIDE DEF c
<1>7. /\ <<c, s>> \in Watchers' /\ <<c, f>> \in Watchers' /\ Watchers \subseteq Watchers'
  BY <1>3, <1>4 DEF Watchers
<1>8. ASSUME NEW lists, lists \in [Lits -> SUBSET Watchers]
      PROVE  /\ Watch(lists, c, f, s) \in [Lits -> SUBSET Watchers']
             /\ Watch(lists, c, f, s)[Negation(f)] = lists[Negation(f)] \union {<<c, s>>}
             /\ Watch(lists, c, f, s)[Negation(s)] = lists[Negation(s)] \union {<<c, f>>}
             /\ \A l \in Lits : l # Negation(f) /\ l # Negation(s) =>
                    Watch(lists, c, f, s)[l] = lists[l]
  BY <1>3, <1>7, <1>8 DEF Watch
<1>9. \A lists : lists \in [Lits -> SUBSET Watchers] => lists \in [Lits -> SUBSET Watchers']
  BY <1>7
<1>10. wlistBin' \in [Lits -> SUBSET Watchers'] /\ wlist' \in [Lits -> SUBSET Watchers']
  BY <1>1, <1>2, <1>8, <1>9 DEF c
<1>11. \A e \in ClauseIds' :
        /\ watched'[e][1] \in clauses'[e] /\ watched'[e][2] \in clauses'[e]
        /\ watched'[e][1] # watched'[e][2]
  BY <1>4, <1>5 DEF IInv, ListsInv
<1>12. ASSUME NEW l \in Lits, NEW w \in wlistBin'[l]
       PROVE  w[1] \in ClauseIds' /\ clauses'[w[1]] = {Negation(l), w[2]}
  <2>1. CASE w \in wlistBin[l]
    BY <1>4, <2>1 DEF IInv, ListsInv
  <2>2. CASE w \notin wlistBin[l]
    <3>1. Cardinality(C) = 2 /\ wlistBin' = Watch(wlistBin, c, f, s)
      BY <1>2, <2>2 DEF c
    <3>2. C = {f, s}
      BY <3>1, PairOfTwo
    <3>3. (l = Negation(f) /\ w = <<c, s>>) \/ (l = Negation(s) /\ w = <<c, f>>)
      BY <1>1, <1>8, <2>2, <3>1
    <3> QED BY <1>3, <1>4, <3>2, <3>3
  <2> QED BY <2>1, <2>2
<1>13. ASSUME NEW l \in Lits, NEW w \in wlist'[l]
       PROVE  /\ w[1] \in ClauseIds'
              /\ Negation(l) \in {watched'[w[1]][1], watched'[w[1]][2]}
              /\ \A x \in wlist'[l] : x[1] = w[1] => x = w
  <2>1. /\ \A x \in wlist[l] : x[1] \in ClauseIds
        /\ \A x \in wlist[l] : Negation(l) \in {watched[x[1]][1], watched[x[1]][2]}
        /\ \A x, y \in wlist[l] : y[1] = x[1] => y = x
    BY DEF IInv, ListsInv
  <2>2. \A x \in wlist'[l] :
          \/ x \in wlist[l]
          \/ l = Negation(f) /\ x = <<c, s>>
          \/ l = Negation(s) /\ x = <<c, f>>
    <3>1. wlist' = wlist \/ wlist' = Watch(wlist, c, f, s)
      BY <1>2 DEF c
    <3>2. CASE wlist' = wlist
      BY <3>2
    <3>3. CASE wlist' = Watch(wlist, c, f, s)
      <4>1. /\ wlist'[Negation(f)] = wlist[Negation(f)] \union {<<c, s>>}
            /\ wlist'[Negation(s)] = wlist[Negation(s)] \union {<<c, f>>}
            /\ \A k \in Lits : k # Negation(f) /\ k # Negation(s) => wlist'[k] = wlist[k]
        BY <1>1, <1>8, <3>3
      <4> QED BY <4>1
    <3> QED BY <3>1, <3>2, <3>3
  <2>3. w[1] \in ClauseIds'
    BY <1>4, <2>1, <2>2
  <2>4. Negation(l) \in {watched'[w[1]][1], watched'[w[1]][2]}
    <3>1. CASE w \in wlist[l]
      BY <1>5, <2>1, <3>1
    <3>2. CASE l = Negation(f) /\ w = <<c, s>>
      BY <1>3, <1>5, <3>2
    <3>3. CASE l = Negation(s) /\ w = <<c, f>>
      BY <1>3, <1>5, <3>3
    <3> QED BY <2>2, <3>1, <3>2, <3>3
  <2>5. \A x \in wlist'[l] : x[1] = w[1] => x = w
    BY <1>3, <1>4, <2>1, <2>2
  <2> QED BY <2>3, <2>4, <2>5
<1>14. ListsInv'
  BY <1>11, <1>12, <1>13 DEF ListsInv
<1> QED BY <1>4, <1>5, <1>6, <1>10, <1>14 DEF c

LEMMA LearnClauseInv ==
    ASSUME IInv, NEW u \in AssertingLits, NEW s \in SecondLits(Minimized), LearnClause(u, s)
    PROVE  IInv'
<1> DEFINE C == {u} \union Minimized
           c == Len(clauses) + 1
           bt == Level(VarOf(s))
<1>1. /\ UNCHANGED <<nbMax, idxReduce, assumptions, ret, status, ptr, todoBin, todo>>
      /\ UNCHANGED <<nbConflicts, lastModel, formula, assumed, nbCalls, result>>
      /\ Learnt /\ pc = "learn" /\ Minimized # {}
      /\ pc' = "unify" /\ lit' = u /\ lvl' = bt /\ confl' = Nil
      /\ recent' = AddLbd(recent) /\ cert' = Append(cert, C)
      /\ AddClause(C, u, s, ComputeLbd(C)) /\ learned' = learned \union {c}
      /\ CleanupBindings(bt)
      /\ reason' = [CleanReason(bt) EXCEPT ![VarOf(u)] = c]
      /\ locked' = CleanLocked(bt) \union {c} /\ queue' = CleanQueue(bt)
      /\ met' = {} /\ metLvl' = {} /\ lits' = {} /\ nbLvl' = 0 /\ walk' = 0
  BY DEF LearnClause, Learnt, EndLearn, clientVars
<1>2. /\ u \in Lits /\ VarOf(u) \in Vars /\ Level(VarOf(u)) = lvl
      /\ s \in Minimized /\ s \in Lits /\ VarOf(s) \in Vars /\ bt \in Nat \ {0} /\ bt < lvl
      /\ \A l \in Minimized : /\ l \in Lits /\ VarOf(l) \in Vars /\ IsFalse(l)
                             /\ Level(VarOf(l)) <= bt
      /\ ret = "branch"
  <2>1. u \in Lits /\ Level(VarOf(u)) = lvl
    BY <1>1, InvFacts, AssertingFacts
  <2>2. s \in Minimized /\ \A l \in Minimized : Level(VarOf(l)) <= bt
    BY DEF SecondLits
  <2>3. \A l \in Minimized : l \in Lits /\ IsFalse(l) /\ Level(VarOf(l)) < lvl
    BY <1>1, InvFacts, AnalysisFacts DEF Minimized, IInv, LearnInv
  <2>4. \A l \in Minimized : VarOf(l) \in Vars /\ model[VarOf(l)] # 0
    BY <2>3, LitFacts, InvFacts, StatusFacts
  <2>5. ret = "branch"
    BY <1>1 DEF IInv, LearnInv
  <2> QED BY <2>1, <2>2, <2>3, <2>4, <2>5, InvFacts, LitFacts
<1>3. C \in Clauses /\ Entails(formula, C) /\ u \in C /\ s \in C /\ u # s
  <2>1. lvl > 1
    BY <1>2, InvFacts
  <2>2. C \in Clauses /\ Entails(formula, C)
    BY <1>1, <2>1, InvFacts, MinimizedEntailed
  <2>3. u # s
    BY <1>2
  <2> QED BY <1>2, <2>2, <2>3
<1>4. ComputeLbd(C) \in Nat
  <2> DEFINE lv == {Level(VarOf(l)) : l \in C}
  <2>1. IsFiniteSet(C)
    BY <1>3, ClausesFinite
  <2>2. IsFiniteSet(lv)
    <3> DEFINE g == [l \in C |-> Level(VarOf(l))]
    <3>1. g \in Surjection(C, lv)
      BY DEF Surjection
    <3> HIDE DEF C, g, lv
    <3> QED BY <2>1, <3>1, FS_Surjection
  <2> QED BY <2>2, FS_CardinalityType DEF ComputeLbd
<1> HIDE DEF C, c, bt
<1>5. /\ ListsInv'
      /\ clauses' \in Seq(Clauses) /\ clauses'[c] = C
      /\ watched' \in Seq(Lits \X Lits) /\ Len(watched') = Len(clauses')
      /\ lbd' \in Seq(Nat) /\ Len(lbd') = Len(clauses')
      /\ wlistBin' \in [Lits -> SUBSET Watchers'] /\ wlist' \in [Lits -> SUBSET Watchers']
      /\ ClauseIds' = ClauseIds \union {c} /\ c \in Nat \ {0} /\ c \notin ClauseIds
      /\ \A e \in ClauseIds : clauses'[e] = clauses[e]
  BY <1>1, <1>3, <1>4, AddClauseStep DEF c
<1>6. /\ CleanReason(bt) = [x \in Vars |-> IF Level(x) > bt THEN Nil ELSE reason[x]]
      /\ \A v \in Vars : reason'[v] = IF v = VarOf(u) THEN c
                                     ELSE IF Level(v) > bt THEN Nil ELSE reason[v]
  <2>1. CleanReason(bt) = [x \in Vars |-> IF Level(x) > bt THEN Nil ELSE reason[x]]
    BY <1>2, InvFacts, CleanFacts
  <2> QED BY <1>1, <2>1
<1>7. \A v \in Vars : model[v] # 0 /\ Level(v) <= bt => reason'[v] = reason[v]
  <2> SUFFICES ASSUME NEW v \in Vars, Level(v) <= bt PROVE reason'[v] = reason[v]
    OBVIOUS
  <2>1. v # VarOf(u) /\ ~ (Level(v) > bt)
    BY <1>2, InvFacts
  <2> QED BY <1>6, <2>1
<1>8. /\ TrailMatchesModel' /\ ReasonsImply' /\ DecisionsFirst' /\ FactsEntailed' /\ ClientInv'
      /\ \A v \in Vars : Level(v)' <= bt
      /\ \A v \in Vars : model'[v] = IF Level(v) > bt THEN 0 ELSE model[v]
      /\ CleanReason(bt) \in [Vars -> {Nil} \union ClauseIds]
      /\ CleanLocked(bt) \subseteq {Nil} \union ClauseIds /\ CleanQueue(bt) \subseteq Vars
      /\ model' \in [Vars -> Int] /\ trail' \in Seq(Lits)
      /\ polarity' \in [Vars -> BOOLEAN]
  BY <1>1, <1>2, <1>5, <1>7, CleanStep
<1>9. TypeOK'
  <2>1. cert' \in Seq(Clauses) /\ lits' \in Clauses /\ recent' \in Nat
    BY <1>1, <1>3 DEF AddLbd, Clauses, IInv, TypeOK
  <2>2. /\ reason' \in [Vars -> {Nil} \union ClauseIds'] /\ locked' \subseteq {Nil} \union ClauseIds'
        /\ queue' \subseteq Vars /\ pc' \in PCs /\ lvl' \in Nat \ {0}
        /\ lit' \in {NoLit} \union Lits /\ confl' \in {Nil} \union ClauseIds'
        /\ learned' \subseteq ClauseIds'
    BY <1>1, <1>2, <1>5, <1>8 DEF PCs, IInv, TypeOK
  <2>3. todoBin' \subseteq Watchers' /\ todo' \subseteq Watchers'
    BY <1>1, <1>5 DEF Watchers, IInv, TypeOK
  <2>4. /\ nbLvl' \in Int /\ walk' \in Int /\ met' \subseteq Vars /\ metLvl' \subseteq Vars
    BY <1>1
  <2> QED BY <1>1, <1>5, <1>8, <2>1, <2>2, <2>3, <2>4 DEF IInv, TypeOK
<1>10. ClausesEntailed'
  BY <1>1, <1>3, <1>5 DEF IInv, ClausesEntailed
<1>11. UnifyInv'
  <2>1. model' = CleanModel(bt)
    BY <1>1 DEF CleanupBindings
  <2>2. \A v \in Vars : model'[v] = 0 /\ v # VarOf(u) => reason'[v] = Nil
    <3> SUFFICES ASSUME NEW v \in Vars, model'[v] = 0, v # VarOf(u) PROVE reason'[v] = Nil
      OBVIOUS
    <3>1. CleanReason(bt)[v] = Nil
      BY <1>1, <1>2, <2>1, CleanReasons
    <3> QED BY <1>6, <3>1
  <2>3. model'[VarOf(u)] = 0 /\ reason'[VarOf(u)] = c /\ c # Nil
    BY <1>2, <1>5, <1>6, <1>8, InvFacts DEF Nil
  <2>4. \A l \in C \ {u} : IsFalse(l)'
    <3> SUFFICES ASSUME NEW l \in Minimized PROVE IsFalse(l)'
      BY DEF C
    <3>1. VarOf(l) \in Vars /\ IsFalse(l) /\ Level(VarOf(l)) <= bt
      BY <1>2
    <3>2. model'[VarOf(l)] = model[VarOf(l)]
      BY <1>2, <1>8, <3>1, InvFacts
    <3> QED BY <3>1, <3>2 DEF IsFalse, LitStatus
  <2> QED BY <1>1, <1>2, <1>3, <1>5, <2>2, <2>3, <2>4 DEF UnifyInv
<1>12. VisitInv' /\ LearnInv' /\ LevelsInv' /\ UnsatInv'
  BY <1>1, <1>8 DEF IInv, VisitInv, LearnInv, LevelsInv, UnsatInv, Question
<1> QED BY <1>5, <1>8, <1>9, <1>10, <1>11, <1>12 DEF IInv

-----------------------------------------------------------------------------
(* The client's calls.                                                     *)

\* A literal that is false at level 1 is refuted by the question.
LEMMA FactRefuted ==
    ASSUME IInv, NEW l \in Lits, IsFalse(l), Level(VarOf(l)) = 1
    PROVE  Entails(Question, {Negation(l)})
<1>1. PICK i \in DOMAIN trail : trail[i] = Negation(l)
  BY InvFacts, TrailFacts DEF IInv
<1> QED BY <1>1, LitFacts DEF IInv, FactsEntailed

\* What AppendClause does to the bindings, whatever the clause.
LEMMA AppendBindings ==
    ASSUME IInv, pc = "idle", CleanupBindings(1), reason' = CleanReason(1),
           \A c \in ClauseIds : clauses'[c] = clauses[c],
           formula \subseteq formula', UNCHANGED <<assumed, assumptions>>
    PROVE  /\ TrailMatchesModel' /\ ReasonsImply' /\ DecisionsFirst' /\ FactsEntailed'
           /\ ClientInv'
           /\ \A v \in Vars : Level(v)' <= 1
           /\ \A v \in Vars : model'[v] = 0 => reason'[v] = Nil
           /\ \A v \in Vars : CleanModel(1)[v] # 0 => model[v] = CleanModel(1)[v] /\ Level(v) = 1
           /\ model' = CleanModel(1)
           /\ reason' \in [Vars -> {Nil} \union ClauseIds]
           /\ CleanLocked(1) \subseteq {Nil} \union ClauseIds /\ CleanQueue(1) \subseteq Vars
           /\ model' \in [Vars -> Int] /\ trail' \in Seq(Lits)
           /\ polarity' \in [Vars -> BOOLEAN]
<1>1. /\ CleanReason(1) = [x \in Vars |-> IF Level(x) > 1 THEN Nil ELSE reason[x]]
      /\ CleanModel(1) = [x \in Vars |-> IF Level(x) > 1 THEN 0 ELSE model[x]]
  BY InvFacts, CleanFacts
<1>2. \A v \in Vars : model[v] # 0 /\ Level(v) <= 1 => reason'[v] = reason[v]
  BY <1>1, InvFacts
<1>3. /\ TrailMatchesModel' /\ ReasonsImply' /\ DecisionsFirst' /\ FactsEntailed' /\ ClientInv'
      /\ \A v \in Vars : Level(v)' <= 1
      /\ CleanReason(1) \in [Vars -> {Nil} \union ClauseIds]
      /\ CleanLocked(1) \subseteq {Nil} \union ClauseIds /\ CleanQueue(1) \subseteq Vars
      /\ model' \in [Vars -> Int] /\ trail' \in Seq(Lits)
      /\ polarity' \in [Vars -> BOOLEAN]
  BY <1>2, CleanStep
<1>4. \A v \in Vars : CleanModel(1)[v] # 0 => model[v] = CleanModel(1)[v] /\ Level(v) = 1
  <2> SUFFICES ASSUME NEW v \in Vars, CleanModel(1)[v] # 0
               PROVE  model[v] = CleanModel(1)[v] /\ Level(v) = 1
    OBVIOUS
  <2>1. ~ (Level(v) > 1) /\ model[v] # 0 /\ model[v] = CleanModel(1)[v]
    BY <1>1
  <2> QED BY <2>1, InvFacts
<1>5. model' = CleanModel(1)
  BY DEF CleanupBindings
<1>6. \A v \in Vars : model'[v] = 0 => reason'[v] = Nil
  BY <1>5, CleanReasons
<1> QED BY <1>3, <1>4, <1>5, <1>6

LEMMA AppendClauseInv ==
    ASSUME IInv, OneKindOfClient, NEW C \in Appendable, AppendClause(C)
    PROVE  IInv'
<1> DEFINE m == CleanModel(1)
           rest == SimplifiedLits(C, m)
<1>1. /\ UNCHANGED <<learned, nbMax, idxReduce, ptr, todoBin, todo, confl, assumptions>>
      /\ UNCHANGED <<met, metLvl, lits, nbLvl, walk>>
      /\ UNCHANGED <<nbConflicts, cert, lastModel, assumed>>
      /\ pc = "idle" /\ nbCalls' = nbCalls + 1 /\ formula' = formula \union {C}
      /\ result' = "none" /\ CleanupBindings(1)
      /\ reason' = CleanReason(1) /\ locked' = CleanLocked(1) /\ queue' = CleanQueue(1)
  BY DEF AppendClause, propVars, learnVars
<1>2. C \in Clauses /\ rest \subseteq C /\ rest \in Clauses
  BY ClientAssumption DEF SimplifiedLits, Clauses
<1>3. assumed = {} /\ Question' = formula' /\ formula \subseteq formula' /\ Question = formula
  BY <1>1 DEF IInv, ClientInv, Question, UnitClauses
<1>4. \A c \in ClauseIds : clauses'[c] = clauses[c]
  <2>1. CASE UNCHANGED clauses
    BY <2>1
  <2>2. CASE \E f, s \in rest : f # s /\ AddClause(rest, f, s, 0)
    BY <1>2, <2>2, AddClauseStep
  <2> QED BY <2>1, <2>2 DEF AppendClause
<1>5. /\ TrailMatchesModel' /\ ReasonsImply' /\ DecisionsFirst' /\ FactsEntailed' /\ ClientInv'
      /\ \A v \in Vars : Level(v)' <= 1
      /\ \A v \in Vars : model'[v] = 0 => reason'[v] = Nil
      /\ \A v \in Vars : m[v] # 0 => model[v] = m[v] /\ Level(v) = 1
      /\ model' = m
      /\ reason' \in [Vars -> {Nil} \union ClauseIds]
      /\ locked' \subseteq {Nil} \union ClauseIds /\ queue' \subseteq Vars
      /\ model' \in [Vars -> Int] /\ trail' \in Seq(Lits)
      /\ polarity' \in [Vars -> BOOLEAN]
  BY <1>1, <1>3, <1>4, AppendBindings
\* The literals that AppendClause drops are refuted.
<1>6. ASSUME ~ SatisfiedBy(C, m), NEW l \in C \ rest
      PROVE  Entails(Question', {Negation(l)})
  <2>1. l \in Lits /\ VarOf(l) \in Vars /\ m[VarOf(l)] # 0
    BY <1>2, LitFacts DEF SimplifiedLits, Clauses
  <2>2. ~ ((m[VarOf(l)] > 0) = IsPositive(l))
    BY <1>6, <2>1 DEF SatisfiedBy
  <2>3. model[VarOf(l)] = m[VarOf(l)] /\ Level(VarOf(l)) = 1
    BY <1>5, <2>1
  <2>4. LitStatus(l) = "Unsat"
    BY <2>1, <2>2, <2>3 DEF LitStatus
  <2>5. Entails(Question, {Negation(l)})
    BY <2>1, <2>3, <2>4, FactRefuted DEF IsFalse
  <2> QED BY <1>3, <2>5, EntailsWeaken
<1>7. Entails(Question', C)
  BY <1>1, <1>3, EntailsMember
<1>8. ~ SatisfiedBy(C, m) => Entails(Question', rest)
  BY <1>2, <1>6, <1>7, EntailsSimplified
<1>9. formula' \in SUBSET Clauses /\ nbCalls' \in Nat
  BY <1>1, <1>2 DEF IInv, TypeOK
<1>10. \A F, G : F \subseteq G /\ ~ Satisfiable(F) => ~ Satisfiable(G)
  BY DEF Satisfiable, SatAll
<1> HIDE DEF m, rest
\* The database does not change in the first three cases.
<1>11. ASSUME UNCHANGED <<clauses, watched, lbd, wlist, wlistBin>>
       PROVE  ListsInv' /\ ClausesEntailed' /\ ClauseIds' = ClauseIds /\ Watchers' = Watchers
  <2>1. ClauseIds' = ClauseIds /\ Watchers' = Watchers
    BY <1>11 DEF ClauseIds, Watchers
  <2>2. ListsInv'
    BY <1>11, SameLists DEF IInv
  <2>3. \A c \in ClauseIds : Entails(formula', clauses[c])
    BY <1>3, InvFacts, EntailsWeaken
  <2> QED BY <1>11, <2>1, <2>2, <2>3 DEF ClausesEntailed
<1>12. CASE /\ SatisfiedBy(C, m)
            /\ UNCHANGED <<clauses, watched, lbd, wlist, wlistBin, lvl, lit, ret, pc,
                           status, recent>>
  <2>1. ListsInv' /\ ClausesEntailed' /\ ClauseIds' = ClauseIds /\ Watchers' = Watchers
    BY <1>11, <1>12
  <2>2. TypeOK'
    BY <1>1, <1>5, <1>9, <1>12, <2>1 DEF IInv, TypeOK
  <2>3. VisitInv' /\ LearnInv' /\ LevelsInv' /\ UnifyInv'
    BY <1>1, <1>5, <1>12 DEF VisitInv, LearnInv, LevelsInv, UnifyInv
  <2>4. UnsatInv'
    BY <1>1, <1>3, <1>10, <1>12 DEF IInv, UnsatInv
  <2> QED BY <1>5, <2>1, <2>2, <2>3, <2>4 DEF IInv
<1>13. CASE /\ ~ SatisfiedBy(C, m) /\ rest = {}
            /\ status' = "Unsat"
            /\ UNCHANGED <<clauses, watched, lbd, wlist, wlistBin, lvl, lit, ret, pc, recent>>
  <2>1. ListsInv' /\ ClausesEntailed' /\ ClauseIds' = ClauseIds /\ Watchers' = Watchers
    BY <1>11, <1>13
  <2>2. TypeOK'
    BY <1>1, <1>5, <1>9, <1>13, <2>1 DEF IInv, TypeOK
  <2>3. VisitInv' /\ LearnInv' /\ LevelsInv' /\ UnifyInv'
    BY <1>1, <1>5, <1>13 DEF VisitInv, LearnInv, LevelsInv, UnifyInv
  <2>4. UnsatInv'
    <3>1. Entails(Question', {})
      BY <1>8, <1>13
    <3>2. ~ Satisfiable(Question')
      BY <3>1 DEF Entails, Satisfiable, SatClause
    <3> QED BY <3>2 DEF UnsatInv
  <2> QED BY <1>5, <2>1, <2>2, <2>3, <2>4 DEF IInv
<1>14. CASE /\ ~ SatisfiedBy(C, m) /\ Cardinality(rest) = 1
            /\ \E l \in rest : lit' = l
            /\ lvl' = 1 /\ ret' = "append" /\ pc' = "unify"
            /\ recent' = AddLbd(recent)
            /\ UNCHANGED <<clauses, watched, lbd, wlist, wlistBin, status>>
  <2>1. ListsInv' /\ ClausesEntailed' /\ ClauseIds' = ClauseIds /\ Watchers' = Watchers
    BY <1>11, <1>14
  <2>2. lit' \in rest /\ lit' \in Lits /\ VarOf(lit') \in Vars
    BY <1>2, <1>14, LitFacts DEF Clauses
  <2>3. rest = {lit'}
    <3>1. IsFiniteSet(rest)
      BY <1>2, ClausesFinite
    <3>2. PICK x : rest = {x}
      BY <3>1, <1>14, FS_Singleton
    <3> QED BY <2>2, <3>2
  <2>4. model'[VarOf(lit')] = 0
    BY <2>2, <1>5 DEF rest, SimplifiedLits
  <2>5. TypeOK'
    <3>1. recent' \in Nat
      BY <1>14 DEF AddLbd, IInv, TypeOK
    <3> QED BY <1>1, <1>5, <1>9, <1>14, <2>1, <2>2, <3>1 DEF IInv, TypeOK, PCs
  <2>6. UnifyInv'
    <3>1. Entails(Question', {lit'})
      BY <1>8, <1>14, <2>3
    <3> QED BY <1>5, <1>14, <2>2, <2>4, <3>1 DEF UnifyInv
  <2>7. VisitInv' /\ LearnInv' /\ LevelsInv'
    BY <1>1, <1>5, <1>14 DEF VisitInv, LearnInv, LevelsInv
  <2>8. UnsatInv'
    BY <1>1, <1>3, <1>10, <1>14 DEF IInv, UnsatInv
  <2> QED BY <1>5, <2>1, <2>5, <2>6, <2>7, <2>8 DEF IInv
<1>15. CASE /\ ~ SatisfiedBy(C, m)
            /\ \E f, s \in rest : f # s /\ AddClause(rest, f, s, 0)
            /\ UNCHANGED <<lvl, lit, ret, pc, status, recent>>
  <2> DEFINE n == Len(clauses) + 1
  <2>1. PICK f \in rest, s \in rest : f # s /\ AddClause(rest, f, s, 0)
    BY <1>15
  <2>2. /\ ListsInv'
        /\ clauses' \in Seq(Clauses) /\ clauses'[n] = rest
        /\ watched' \in Seq(Lits \X Lits) /\ Len(watched') = Len(clauses')
        /\ lbd' \in Seq(Nat) /\ Len(lbd') = Len(clauses')
        /\ wlistBin' \in [Lits -> SUBSET Watchers'] /\ wlist' \in [Lits -> SUBSET Watchers']
        /\ ClauseIds' = ClauseIds \union {n} /\ n \in Nat \ {0} /\ n \notin ClauseIds
        /\ \A e \in ClauseIds : clauses'[e] = clauses[e]
    BY <1>2, <2>1, AddClauseStep
  <2> HIDE DEF n
  <2>3. TypeOK'
    <3>1. Watchers \subseteq Watchers' /\ ClauseIds \subseteq ClauseIds'
      BY <2>2 DEF Watchers
    <3>2. /\ todoBin' \subseteq Watchers' /\ todo' \subseteq Watchers'
          /\ reason' \in [Vars -> {Nil} \union ClauseIds'] /\ locked' \subseteq {Nil} \union ClauseIds'
          /\ learned' \subseteq ClauseIds' /\ confl' \in {Nil} \union ClauseIds'
      BY <1>1, <1>5, <3>1 DEF IInv, TypeOK
    <3> QED BY <1>1, <1>5, <1>9, <1>15, <2>2, <3>2 DEF IInv, TypeOK
  <2>4. ClausesEntailed'
    <3>1. \A c \in ClauseIds : Entails(formula', clauses[c])
      BY <1>3, InvFacts, EntailsWeaken
    <3>2. Entails(formula', rest)
      BY <1>3, <1>8, <1>15
    <3> QED BY <2>2, <3>1, <3>2 DEF ClausesEntailed
  <2>5. VisitInv' /\ LearnInv' /\ LevelsInv' /\ UnifyInv'
    BY <1>1, <1>5, <1>15 DEF VisitInv, LearnInv, LevelsInv, UnifyInv
  <2>6. UnsatInv'
    BY <1>1, <1>3, <1>10, <1>15 DEF IInv, UnsatInv
  <2> QED BY <1>5, <2>2, <2>3, <2>4, <2>5, <2>6 DEF IInv
<1> QED BY <1>12, <1>13, <1>14, <1>15 DEF AppendClause, m, rest

\* The assumed literals are all on the trail, once each, and nothing else is.
LEMMA AssumeBindings ==
    ASSUME IInv, NEW L \in Assumable, Assume(L)
    PROVE  /\ trail' \in Seq(Lits) /\ model' \in [Vars -> Int]
           /\ DOMAIN trail' = 1 .. Cardinality(L) /\ Cardinality(L) \in Nat
           /\ \A i \in DOMAIN trail' : trail'[i] \in L /\ trail'[i] \in Lits
           /\ \A i, j \in DOMAIN trail' : VarOf(trail'[i]) = VarOf(trail'[j]) => i = j
           /\ \A v \in VarsOf(L) : v \in Vars /\ Level(v)' = 1
           /\ \A v \in Vars : Level(v)' <= 1
           /\ \A l \in L : LitStatus(l)' = "Sat"
           /\ \A v \in Vars : model'[v] # 0 <=> \E i \in DOMAIN trail' : VarOf(trail'[i]) = v
           /\ reason' = [v \in Vars |-> Nil]
           /\ CleanLocked(0) \subseteq {Nil} \union ClauseIds /\ CleanQueue(0) \subseteq Vars
           /\ CleanPolarity(0) \in [Vars -> BOOLEAN]
<1>1. L \in Clauses /\ ~ Tautology(L)
  BY ClientAssumption
<1>2. /\ trail' \in [1 .. Cardinality(L) -> L] /\ Range(trail') = L
      /\ model' = [v \in Vars |-> IF SignedLit(v, FALSE) \in L THEN 1
                                 ELSE IF SignedLit(v, TRUE) \in L THEN -1
                                 ELSE CleanModel(0)[v]]
      /\ reason' = CleanReason(0)
  BY DEF Assume
<1>3. IsFiniteSet(L) /\ Cardinality(L) \in Nat /\ \A l \in L : l \in Lits /\ VarOf(l) \in Vars
  BY <1>1, ClausesFinite, LitFacts DEF Clauses
<1>4. \A i, j \in 1 .. Cardinality(L) : trail'[i] = trail'[j] => i = j
  <2> DEFINE n == Cardinality(L)
             f == trail'
  <2>1. f \in Surjection(1 .. n, L)
    BY <1>2 DEF Surjection, Range
  <2>2. IsFiniteSet(1 .. n) /\ Cardinality(1 .. n) = Cardinality(L)
    BY <1>3, FS_Interval
  <2> HIDE DEF n, f
  <2>3. f \in Injection(1 .. n, L)
    BY <2>1, <2>2, FS_SurjSameCardinalityImpliesInj
  <2> QED BY <2>3 DEF Injection, IsInjective, n, f
<1>5. \A k, l \in L : VarOf(k) = VarOf(l) => k = l
  BY <1>1, <1>3, SameVar DEF Tautology
<1>6. /\ DOMAIN trail' = 1 .. Cardinality(L) /\ trail' \in Seq(Lits)
      /\ \A i \in DOMAIN trail' : trail'[i] \in L /\ trail'[i] \in Lits
      /\ \A l \in L : \E i \in DOMAIN trail' : trail'[i] = l
  BY <1>2, <1>3 DEF Range
<1>7. \A i, j \in DOMAIN trail' : VarOf(trail'[i]) = VarOf(trail'[j]) => i = j
  BY <1>4, <1>5, <1>6
<1>8. /\ CleanModel(0) = [v \in Vars |-> IF Level(v) > 0 THEN 0 ELSE model[v]]
      /\ CleanReason(0) = [v \in Vars |-> IF Level(v) > 0 THEN Nil ELSE reason[v]]
      /\ CleanPolarity(0) \in [Vars -> BOOLEAN] /\ Dropped(0) = {v \in Vars : Level(v) > 0}
  BY InvFacts, CleanFacts
<1>9. \A v \in Vars : CleanModel(0)[v] = 0 /\ CleanReason(0)[v] = Nil
  <2>1. pc = "idle"
    BY DEF Assume
  <2>2. \A v \in Vars : model[v] = 0 => reason[v] = Nil
    BY <2>1 DEF IInv, UnifyInv
  <2>3. \A v \in Vars : Level(v) > 0 \/ model[v] = 0
    BY DEF IInv, TypeOK, Level, Abs
  <2>4. \A v \in Vars : CleanModel(0)[v] = IF Level(v) > 0 THEN 0 ELSE model[v]
    BY <1>8
  <2>5. \A v \in Vars : CleanReason(0)[v] = IF Level(v) > 0 THEN Nil ELSE reason[v]
    BY <1>8
  <2> QED BY <2>2, <2>3, <2>4, <2>5
<1>10. reason' = [v \in Vars |-> Nil]
  BY <1>2, <1>8, <1>9
<1>11. \A v \in Vars : model'[v] = IF SignedLit(v, FALSE) \in L THEN 1
                                 ELSE IF SignedLit(v, TRUE) \in L THEN -1 ELSE 0
  BY <1>2, <1>9
<1>12. model' \in [Vars -> Int]
  <2>1. ASSUME NEW v \in Vars PROVE model'[v] \in Int
    <3>1. model'[v] = 1 \/ model'[v] = -1 \/ model'[v] = 0
      BY <1>11
    <3> QED BY <3>1
  <2>2. model' = [v \in Vars |-> model'[v]]
    BY <1>2
  <2> QED BY <2>1, <2>2
<1>13. ASSUME NEW l \in L
       PROVE  model'[VarOf(l)] = IF IsPositive(l) THEN 1 ELSE -1
  <2>1. l \in Lits /\ VarOf(l) \in Vars /\ IsPositive(l) \in BOOLEAN
    BY <1>3, LitFacts
  <2>2. \A b \in BOOLEAN : SignedLit(VarOf(l), b) \in L => SignedLit(VarOf(l), b) = l
    BY <2>1, <1>5, SignedLitFacts
  <2>3. l = SignedLit(VarOf(l), ~ IsPositive(l))
    BY <2>1, SignedLitFacts, SameVar
  <2>4. SignedLit(VarOf(l), TRUE) # SignedLit(VarOf(l), FALSE)
    BY <2>1 DEF SignedLit, Vars
  <2> QED BY <1>11, <2>1, <2>2, <2>3, <2>4
<1>14. \A l \in L : LitStatus(l)' = "Sat"
  <2> SUFFICES ASSUME NEW l \in L PROVE LitStatus(l)' = "Sat"
    OBVIOUS
  <2>1. IsPositive(l) \in BOOLEAN
    BY <1>3, LitFacts
  <2>2. CASE IsPositive(l)
    <3>1. model'[VarOf(l)] = 1 /\ IsPositive(l) = TRUE
      BY <1>13, <2>2, <2>1
    <3>2. model'[VarOf(l)] # 0 /\ (model'[VarOf(l)] > 0 <=> IsPositive(l))
      BY <3>1
    <3> QED BY <2>1, <3>2 DEF LitStatus
  <2>3. CASE ~ IsPositive(l)
    <3>1. model'[VarOf(l)] = -1 /\ IsPositive(l) = FALSE
      BY <1>13, <2>3, <2>1
    <3>2. model'[VarOf(l)] # 0 /\ (model'[VarOf(l)] > 0 <=> IsPositive(l))
      BY <3>1
    <3> QED BY <2>1, <3>2 DEF LitStatus
  <2> QED BY <2>2, <2>3
<1>15. \A v \in VarsOf(L) : v \in Vars /\ Level(v)' = 1
  BY <1>3, <1>13 DEF VarsOf, Level, Abs
<1>16. \A v \in Vars : Level(v)' <= 1
  <2>1. \A v \in Vars : model'[v] \in {1, -1, 0}
    BY <1>11
  <2> QED BY <2>1 DEF Level, Abs
<1>17. \A v \in Vars : model'[v] # 0 <=> \E i \in DOMAIN trail' : VarOf(trail'[i]) = v
  <2>1. ASSUME NEW v \in Vars, model'[v] # 0
        PROVE  \E i \in DOMAIN trail' : VarOf(trail'[i]) = v
    <3>1. SignedLit(v, FALSE) \in L \/ SignedLit(v, TRUE) \in L
      BY <1>11, <2>1
    <3> QED BY <3>1, <1>6, SignedLitFacts
  <2>2. ASSUME NEW i \in DOMAIN trail' PROVE model'[VarOf(trail'[i])] # 0
    <3>1. trail'[i] \in L
      BY <1>6
    <3> QED BY <3>1, <1>13
  <2> QED BY <2>1, <2>2
<1>18. CleanLocked(0) \subseteq {Nil} \union ClauseIds /\ CleanQueue(0) \subseteq Vars
  BY <1>8 DEF CleanLocked, CleanQueue, IInv, TypeOK
<1> QED BY <1>3, <1>6, <1>7, <1>8, <1>10, <1>12, <1>14, <1>15, <1>16, <1>17, <1>18

LEMMA AssumeInv ==
    ASSUME IInv, OneKindOfClient, NEW L \in Assumable, Assume(L)
    PROVE  IInv'
<1>1. /\ UNCHANGED <<clauses, watched, lbd, learned, nbMax, idxReduce, wlist, wlistBin>>
      /\ UNCHANGED <<todoBin, todo, confl, met, metLvl, lits, nbLvl, walk, lit>>
      /\ UNCHANGED <<nbConflicts, recent, lastModel, formula>>
      /\ pc = "idle" /\ nbCalls' = nbCalls + 1 /\ assumed' = L /\ result' = "none"
      /\ assumptions' = VarsOf(L) /\ status' = "Indet"
      /\ locked' = CleanLocked(0) /\ polarity' = CleanPolarity(0) /\ queue' = CleanQueue(0)
      /\ cert' = cert \o [i \in 1 .. Cardinality(L) |-> {trail'[i]}]
      /\ ptr' = 1 /\ lvl' = 1 /\ ret' = "assume" /\ pc' = "propagate"
  BY DEF Assume, dbVars, learnVars
<1>2. /\ trail' \in Seq(Lits) /\ model' \in [Vars -> Int]
      /\ DOMAIN trail' = 1 .. Cardinality(L) /\ Cardinality(L) \in Nat
      /\ \A i \in DOMAIN trail' : trail'[i] \in L /\ trail'[i] \in Lits
      /\ \A i, j \in DOMAIN trail' : VarOf(trail'[i]) = VarOf(trail'[j]) => i = j
      /\ \A v \in VarsOf(L) : v \in Vars /\ Level(v)' = 1
      /\ \A v \in Vars : Level(v)' <= 1
      /\ \A l \in L : LitStatus(l)' = "Sat"
      /\ \A v \in Vars : model'[v] # 0 <=> \E i \in DOMAIN trail' : VarOf(trail'[i]) = v
      /\ reason' = [v \in Vars |-> Nil]
      /\ CleanLocked(0) \subseteq {Nil} \union ClauseIds /\ CleanQueue(0) \subseteq Vars
      /\ CleanPolarity(0) \in [Vars -> BOOLEAN]
  BY AssumeBindings
<1>3. \A i \in DOMAIN trail' : Level(VarOf(trail[i]))' = 1 /\ VarOf(trail'[i]) \in Vars
  <2> SUFFICES ASSUME NEW i \in DOMAIN trail'
               PROVE  VarOf(trail'[i]) \in VarsOf(L)
    BY <1>2
  <2> QED BY <1>2 DEF VarsOf
<1>4. TypeOK'
  <2>1. cert' \in Seq(Clauses)
    <3> DEFINE new == [i \in 1 .. Cardinality(L) |-> {trail'[i]}]
    <3>1. \A i \in 1 .. Cardinality(L) : {trail'[i]} \in Clauses
      BY <1>2 DEF Clauses
    <3>2. new \in Seq(Clauses)
      <4>1. Cardinality(L) \in Nat
        BY <1>2
      <4>2. new \in [1 .. Cardinality(L) -> Clauses]
        BY <3>1
      <4> HIDE DEF new
      <4> QED BY <4>1, <4>2
    <3>3. cert' = cert \o new /\ cert \in Seq(Clauses)
      BY <1>1 DEF IInv, TypeOK
    <3> HIDE DEF new
    <3> QED BY <3>2, <3>3, ConcatProperties
  <2>2. /\ assumed' \in Clauses /\ assumptions' \subseteq Vars /\ nbCalls' \in Nat
        /\ reason' \in [Vars -> {Nil} \union ClauseIds']
        /\ locked' \subseteq {Nil} \union ClauseIds'
        /\ queue' \subseteq Vars /\ polarity' \in [Vars -> BOOLEAN] /\ pc' \in PCs
    BY <1>1, <1>2, ClientAssumption DEF IInv, TypeOK, ClauseIds, PCs
  <2>3. /\ clauses' \in Seq(Clauses) /\ watched' \in Seq(Lits \X Lits) /\ lbd' \in Seq(Nat)
        /\ Len(watched') = Len(clauses') /\ Len(lbd') = Len(clauses')
        /\ learned' \subseteq ClauseIds' /\ nbMax' \in Nat \ {0} /\ idxReduce' \in Nat
        /\ wlistBin' \in [Lits -> SUBSET Watchers'] /\ wlist' \in [Lits -> SUBSET Watchers']
        /\ todoBin' \subseteq Watchers' /\ todo' \subseteq Watchers'
    BY <1>1 DEF IInv, TypeOK, ClauseIds, Watchers
  <2>4. /\ met' \subseteq Vars /\ metLvl' \subseteq Vars /\ lits' \in Clauses
        /\ nbLvl' \in Int /\ walk' \in Int /\ lit' \in {NoLit} \union Lits
        /\ confl' \in {Nil} \union ClauseIds'
    BY <1>1 DEF IInv, TypeOK, ClauseIds
  <2>5. /\ nbConflicts' \in Nat /\ recent' \in Nat /\ lastModel' \in [Vars -> Int]
        /\ formula' \in SUBSET Clauses
    BY <1>1 DEF IInv, TypeOK
  <2> QED BY <1>1, <1>2, <2>1, <2>2, <2>3, <2>4, <2>5 DEF TypeOK
<1>5. ListsInv' /\ ClausesEntailed'
  BY <1>1, SameLists DEF IInv, ClausesEntailed, ClauseIds
<1>6. TrailMatchesModel'
  <2>1. \A v \in Vars : model'[v] # 0 <=> v \in TrailVars'
    BY <1>2 DEF TrailVars
  <2>2. \A i \in DOMAIN trail' : LitStatus(trail[i])' = "Sat"
    BY <1>2
  <2>3. \A i, j \in DOMAIN trail' : Level(VarOf(trail[i]))' <= Level(VarOf(trail[j]))'
    BY <1>3
  <2> QED BY <1>2, <2>1, <2>2, <2>3 DEF TrailMatchesModel
<1>7. ReasonsImply' /\ DecisionsFirst'
  <2>1. \A i \in DOMAIN trail' : reason'[VarOf(trail'[i])] = Nil
    BY <1>2, <1>3
  <2>2. \A i \in DOMAIN trail' : ~ (Level(VarOf(trail[i]))' > 1)
    BY <1>3
  <2> QED BY <2>1, <2>2 DEF ReasonsImply, DecisionsFirst
<1>8. FactsEntailed'
  <2>1. \A i \in DOMAIN trail' : {trail'[i]} \in Question'
    BY <1>1, <1>2 DEF Question, UnitClauses
  <2> QED BY <2>1, EntailsMember DEF FactsEntailed
<1>9. ClientInv'
  BY <1>1, <1>2 DEF ClientInv, OneKindOfClient
<1>10. VisitInv'
  <2>1. \A i \in DOMAIN trail' : Level(VarOf(trail[i]))' = 1
    BY <1>3
  <2> QED BY <1>1, <2>1 DEF VisitInv
<1>11. LevelsInv' /\ UnifyInv' /\ LearnInv' /\ UnsatInv'
  BY <1>1, <1>2 DEF LevelsInv, UnifyInv, LearnInv, UnsatInv
<1> QED BY <1>4, <1>5, <1>6, <1>7, <1>8, <1>9, <1>10, <1>11 DEF IInv

-----------------------------------------------------------------------------
(* The theorems.                                                           *)

LEMMA StutterInv ==
    ASSUME IInv, UNCHANGED vars
    PROVE  IInv'
<1>1. /\ UNCHANGED <<model, trail, reason, locked, polarity, queue>>
      /\ UNCHANGED <<clauses, watched, lbd, learned, nbMax, idxReduce, wlist, wlistBin>>
      /\ UNCHANGED <<assumptions, lit, ret, status, ptr, todoBin, todo, confl, lvl, pc>>
      /\ UNCHANGED <<nbConflicts, recent, cert, lastModel, formula, assumed, nbCalls, result>>
      /\ UNCHANGED <<met, metLvl, lits, nbLvl, walk>>
  BY DEF vars, bindingVars, dbVars, propVars, learnVars, ctlVars, clientVars
<1>2. TypeOK' /\ ListsInv'
  BY <1>1, SameLists DEF IInv, TypeOK, ClauseIds, Watchers
<1>3. VisitInv' /\ UnifyInv' /\ LevelsInv' /\ UnsatInv' /\ ClientInv'
  BY <1>1, SameBindings DEF IInv, VisitInv, UnifyInv, LevelsInv, UnsatInv, ClientInv
<1>4. LearnInv'
  BY <1>1, SameBindings DEF IInv, LearnInv, Pending, Resolvent, Premises
<1> QED BY <1>1, <1>2, <1>3, <1>4, SameBindings DEF IInv

LEMMA NextInv ==
    ASSUME IInv, OneKindOfClient, [Next]_vars
    PROVE  IInv'
<1>1. CASE UNCHANGED vars
  BY <1>1, StutterInv
<1>2. CASE ClientCall
  BY <1>2, SolveInv, AppendClauseInv, AssumeInv DEF ClientCall
<1>3. CASE Propagate
  BY <1>3, StartLitInv, EndLitInv, VisitBinaryInv, VisitLongInv DEF Propagate, PropagateStep
<1>4. CASE Search \/ UnifyLiteral \/ Restart \/ Branch \/ Conflict
  BY <1>4, SearchInv, UnifyLiteralInv, RestartInv, BranchInv, ConflictInv
<1>5. CASE ResolveReason \/ LearnFalse \/ UnitPropagated \/ UnitConflict \/ CallReturns
  BY <1>5, ResolveReasonInv, LearnFalseInv, UnitPropagatedInv, UnitConflictInv, CallReturnsInv
<1>6. CASE \/ \E u \in AssertingLits : LearnUnit(u)
           \/ \E u \in AssertingLits, s \in SecondLits(Minimized) : LearnClause(u, s)
  BY <1>6, LearnUnitInv, LearnClauseInv
<1> QED BY <1>1, <1>2, <1>3, <1>4, <1>5, <1>6 DEF Next, SearchStep, CallStep

\* The invariant of the search holds for every number of variables, every
\* problem and every sequence of calls of a client of one kind: every clause the
\* solver holds follows from the client's, every binding of level 1 follows from
\* the question, and the trail, the levels, the reasons and the watch lists agree.
THEOREM Invariance ==
    ASSUME OneKindOfClient
    PROVE  Spec => []IInv
<1>1. Init => IInv
  BY InitInv
<1>2. IInv /\ [Next]_vars => IInv'
  BY NextInv
<1> QED BY <1>1, <1>2, PTL DEF Spec

\* Solve only answers Unsat when no assignment satisfies the clauses given by
\* the client and the literals it assumed.
THEOREM UnsatSoundness ==
    ASSUME OneKindOfClient
    PROVE  Spec => []UnsatSound
<1>1. IInv => UnsatSound
  BY DEF IInv, UnsatInv, UnsatSound
<1> QED BY <1>1, Invariance, PTL

\* Every variable keeps its type.
THEOREM TypeCorrectness ==
    ASSUME OneKindOfClient
    PROVE  Spec => []TypeOK
<1>1. IInv => TypeOK
  BY DEF IInv
<1> QED BY <1>1, Invariance, PTL

\* The trail and the signed levels always tell the same story, whatever was
\* bound, propagated and undone.
THEOREM TrailConsistency ==
    ASSUME OneKindOfClient
    PROVE  Spec => []TrailMatchesModel
<1>1. IInv => TrailMatchesModel
  BY DEF IInv
<1> QED BY <1>1, Invariance, PTL

\* Every reason implies its literal from literals bound before it, so that
\* conflict analysis may resolve on it.
THEOREM ReasonConsistency ==
    ASSUME OneKindOfClient
    PROVE  Spec => []ReasonsImply
<1>1. IInv => ReasonsImply
  BY DEF IInv
<1> QED BY <1>1, Invariance, PTL

\* The counter of learnClause counts the variables left to resolve and never
\* reaches 0, and what it builds is false and follows from the question.
THEOREM AnalysisCorrectness ==
    ASSUME OneKindOfClient
    PROVE  Spec => []AnalysisOK
<1>1. IInv => AnalysisOK
  <2> SUFFICES ASSUME IInv, pc = "learn"
               PROVE  /\ nbLvl = Cardinality(Pending) /\ nbLvl >= 1
                      /\ \A l \in Resolvent : IsFalse(l)
                      /\ Entails(Question, Resolvent)
    BY DEF AnalysisOK
  <2>1. nbLvl = Cardinality(Pending) /\ nbLvl >= 1
    BY DEF IInv, LearnInv
  <2>2. (\A l \in Resolvent : IsFalse(l)) /\ Entails(Premises, Resolvent)
    BY InvFacts, ResolventFacts
  <2>3. Premises \subseteq Question
    BY DEF Premises, Question
  <2> QED BY <2>1, <2>2, <2>3, EntailsWeaken
<1> QED BY <1>1, Invariance, PTL

\* After backtracking the learned clause is unit: its asserting literal is
\* unbound and all its other literals are false.
THEOREM LearnedClauseIsUnit ==
    ASSUME OneKindOfClient
    PROVE  Spec => []LearnedClauseAsserts
<1>1. IInv => LearnedClauseAsserts
  <2>1. ASSUME IInv, pc = "unify" PROVE LitStatus(lit) = "Indet"
    BY <2>1, InvFacts, StatusFacts DEF IInv, UnifyInv
  <2> QED BY <2>1 DEF IInv, UnifyInv, LearnedClauseAsserts
<1> QED BY <1>1, Invariance, PTL

-----------------------------------------------------------------------------
(* The certificate.  What the solver holds is obeyed by every set of       *)
(* literals that unit propagation of the certificate does not refute, so   *)
(* that a line such a set cannot falsify has the property.                 *)

LEMMA ObeysMember ==
    ASSUME NEW F, NEW T, Closed(F, T), ~ Contradicts(F, T), NEW C \in F
    PROVE  Obeys(T, C)
BY DEF Closed, Contradicts, Obeys

LEMMA ObeysUnit ==
    ASSUME NEW T, NEW l, Obeys(T, {l})
    PROVE  l \in T
BY DEF Obeys

\* Literals that are false in such a set can be dropped from a clause.
LEMMA ObeysRest ==
    ASSUME NEW T, NEW C, NEW D, D \subseteq C, Obeys(T, C),
           \A l \in C \ D : Negation(l) \in T
    PROVE  Obeys(T, D)
<1>1. \E l \in D : Negation(l) \notin T
  BY DEF Obeys
<1>2. ASSUME NEW l \in D, \A k \in D \ {l} : Negation(k) \in T
      PROVE  l \in T
  <2>1. \A k \in C \ {l} : Negation(k) \in T
    BY <1>2
  <2> QED BY <2>1 DEF Obeys
<1> QED BY <1>1, <1>2 DEF Obeys

\* More lines leave fewer sets.
LEMMA UnrefutedShrinks ==
    ASSUME Certified \subseteq Certified'
    PROVE  Unrefuted' \subseteq Unrefuted
BY DEF Unrefuted, Closed, Contradicts

\* A clause that none of them falsifies has the property.
LEMMA RupOf ==
    ASSUME NEW C, \A T \in Unrefuted : \E l \in C : Negation(l) \notin T
    PROVE  IsRup(formula \union Range(cert), C)
BY DEF IsRup, Refutes, Unrefuted, Certified

\* The line written last.
LEMMA LineAppended ==
    ASSUME IInv, NEW C, cert' = Append(cert, C), formula' = formula
    PROVE  /\ Certified \subseteq Certified' /\ C \in Certified'
           /\ cert'[Len(cert')] = C
<1>1. cert \in Seq(Clauses) /\ Len(cert) \in Nat /\ DOMAIN cert = 1 .. Len(cert)
  BY DEF IInv, TypeOK
<1>2. /\ Len(cert') = Len(cert) + 1 /\ DOMAIN cert' = 1 .. Len(cert) + 1
      /\ \A i \in 1 .. Len(cert) : cert'[i] = cert[i]
      /\ cert'[Len(cert) + 1] = C
  BY <1>1
<1>3. Range(cert) \subseteq Range(cert') /\ C \in Range(cert')
  BY <1>1, <1>2 DEF Range
<1> QED BY <1>2, <1>3 DEF Certified

\* A literal that is false at level 1 is false in all of them.
LEMMA FalseFacts ==
    ASSUME IInv, RupInv, NEW T \in Unrefuted, NEW l \in Lits, IsFalse(l), Level(VarOf(l)) <= 1
    PROVE  Negation(l) \in T
<1>1. PICK i \in DOMAIN trail : trail[i] = Negation(l)
  BY InvFacts, TrailFacts DEF IInv
<1>2. VarOf(trail[i]) = VarOf(l) /\ VarOf(l) \in Vars
  BY <1>1, LitFacts
<1>3. Level(VarOf(l)) = 1
  BY <1>2, InvFacts, StatusFacts
<1> QED BY <1>1, <1>2, <1>3 DEF RupInv

\* A clause whose literals are all false at level 1 leaves no such set.
LEMMA TopClash ==
    ASSUME IInv, RupInv, NEW C \in Clauses,
           \A l \in C : IsFalse(l) /\ Level(VarOf(l)) <= 1,
           \A T \in Unrefuted : \E l \in C : Negation(l) \notin T
    PROVE  Unrefuted = {}
BY FalseFacts DEF Clauses

-----------------------------------------------------------------------------
(* What most steps do to what the certificate needs.                       *)

\* Every literal bound at level 1 was before.
FactsKept ==
    \A i \in DOMAIN trail' : Level(VarOf(trail[i]))' = 1 =>
        \E j \in DOMAIN trail : trail[j] = trail'[i] /\ Level(VarOf(trail[j])) = 1

\* Every clause was there before, or is obeyed.
ClausesKept ==
    \A c \in ClauseIds' : \/ c \in ClauseIds /\ clauses'[c] = clauses[c]
                          \/ \A T \in Unrefuted' : Obeys(T, clauses'[c])

LEMMA RupKept ==
    ASSUME RupInv, Certified \subseteq Certified', FactsKept, ClausesKept, pc' # "learn",
           pc' = "unify" /\ lvl' = 1 /\ reason'[VarOf(lit')] = Nil =>
              \A T \in Unrefuted' : lit' \in T
    PROVE  RupInv'
<1> SUFFICES ASSUME NEW T \in Unrefuted'
             PROVE  /\ \A c \in ClauseIds' : Obeys(T, clauses'[c])
                    /\ \A i \in DOMAIN trail' : Level(VarOf(trail[i]))' = 1 => trail'[i] \in T
  BY DEF RupInv
<1>1. T \in Unrefuted
  BY UnrefutedShrinks
<1> QED BY <1>1 DEF RupInv, FactsKept, ClausesKept

LEMMA CertifiedKept ==
    ASSUME UNCHANGED <<formula, cert>>
    PROVE  Certified' = Certified /\ (IInv => RupLine)
<1>1. IInv => Len(cert) \in Nat
  BY DEF IInv, TypeOK
<1> QED BY <1>1 DEF Certified, RupLine

\* A step that leaves the bindings, the clauses and the certificate alone, and
\* at most decides a literal.
LEMMA QuietRup ==
    ASSUME IInv, RupInv, UNCHANGED <<model, trail, clauses, formula, cert>>,
           pc' # "learn", pc' = "unify" => lvl' > 1
    PROVE  RupInv' /\ RupLine
<1>1. FactsKept
  BY DEF FactsKept, Level
<1>2. ClausesKept
  BY DEF ClausesKept, ClauseIds
<1>3. lvl' > 1 => lvl' # 1
  OBVIOUS
<1> QED BY <1>1, <1>2, <1>3, CertifiedKept, RupKept

\* cleanupBindings(level) where level is at least 1.
LEMMA CleanRup ==
    ASSUME IInv, NEW level \in Nat \ {0}, CleanupBindings(level)
    PROVE  FactsKept
<1>1. /\ trail' = CleanTrail(level) /\ model' = CleanModel(level)
      /\ KeptLen(level) \in 0 .. Len(trail)
      /\ CleanTrail(level) \in Seq(Lits) /\ Len(CleanTrail(level)) = KeptLen(level)
      /\ \A i \in 1 .. KeptLen(level) : CleanTrail(level)[i] = trail[i]
      /\ CleanModel(level) = [v \in Vars |-> IF Level(v) > level THEN 0 ELSE model[v]]
      /\ \A i \in 1 .. KeptLen(level) : Level(VarOf(trail[i])) <= level
  BY InvFacts, CleanFacts DEF CleanupBindings
<1> SUFFICES ASSUME NEW i \in DOMAIN trail', Level(VarOf(trail[i]))' = 1
             PROVE  i \in DOMAIN trail /\ trail[i] = trail'[i] /\ Level(VarOf(trail[i])) = 1
  BY DEF FactsKept
<1>2. i \in 1 .. KeptLen(level) /\ i \in 1 .. Len(trail) /\ trail'[i] = trail[i]
  BY <1>1, InvFacts
<1>3. VarOf(trail[i]) \in Vars /\ Level(VarOf(trail[i])) \in Nat
  BY <1>2, InvFacts
<1>4. model'[VarOf(trail[i])] = model[VarOf(trail[i])]
  BY <1>1, <1>2, <1>3
<1> QED BY <1>2, <1>4, InvFacts DEF Level

\* A step that binds l because of clause r, or of none.
LEMMA BindRup ==
    ASSUME IInv, RupInv, NEW l \in Lits, NEW r \in {Nil} \union ClauseIds,
           model[VarOf(l)] = 0, \A v \in Vars : Level(v) <= lvl,
           r # Nil => l \in clauses[r] /\ \A k \in clauses[r] \ {l} : IsFalse(k),
           r = Nil /\ lvl = 1 => \A T \in Unrefuted : l \in T,
           trail' = Append(trail, l),
           model' = [model EXCEPT ![VarOf(l)] = LvlToSignedLvl(l, lvl)],
           UNCHANGED <<clauses, formula, cert>>, pc' \notin {"unify", "learn"}
    PROVE  RupInv' /\ RupLine
<1>1. RupLine /\ Certified' = Certified
  BY CertifiedKept
<1>2. Unrefuted' = Unrefuted
  BY <1>1 DEF Unrefuted
<1>3. /\ DOMAIN trail = 1 .. Len(trail) /\ DOMAIN trail' = 1 .. Len(trail) + 1
      /\ \A i \in 1 .. Len(trail) : trail'[i] = trail[i] /\ VarOf(trail[i]) \in Vars
      /\ trail'[Len(trail) + 1] = l /\ Len(trail) \in Nat
  BY InvFacts
<1>4. VarOf(l) \in Vars /\ model \in [Vars -> Int] /\ lvl \in Nat \ {0}
  BY InvFacts, LitFacts
<1>5. \A i \in 1 .. Len(trail) : Level(VarOf(trail[i]))' = Level(VarOf(trail[i]))
  <2> SUFFICES ASSUME NEW i \in 1 .. Len(trail)
               PROVE  model'[VarOf(trail'[i])] = model[VarOf(trail[i])]
    BY DEF Level
  <2>1. model[VarOf(trail[i])] # 0
    BY <1>3, InvFacts, TrailFacts DEF IInv
  <2> QED BY <1>3, <1>4, <2>1
<1>6. Level(VarOf(l))' = lvl
  BY <1>4 DEF Level, Abs, LvlToSignedLvl
<1>7. ASSUME NEW T \in Unrefuted, lvl = 1 PROVE l \in T
  <2>1. CASE r = Nil
    BY <1>7, <2>1
  <2>2. CASE r # Nil
    <3>1. r \in ClauseIds /\ clauses[r] \in Clauses /\ Obeys(T, clauses[r])
      BY <2>2, InvFacts DEF RupInv
    <3>2. \A k \in clauses[r] \ {l} : Negation(k) \in T
      <4> SUFFICES ASSUME NEW k \in clauses[r] \ {l} PROVE Negation(k) \in T
        OBVIOUS
      <4>1. k \in Lits /\ IsFalse(k) /\ Level(VarOf(k)) <= 1
        BY <1>7, <2>2, <3>1, LitFacts DEF Clauses
      <4> QED BY <4>1, FalseFacts
    <3> QED BY <2>2, <3>1, <3>2 DEF Obeys
  <2> QED BY <2>1, <2>2
<1>8. ASSUME NEW T \in Unrefuted, NEW i \in DOMAIN trail', Level(VarOf(trail[i]))' = 1
      PROVE  trail'[i] \in T
  <2>1. CASE i \in 1 .. Len(trail)
    BY <1>3, <1>5, <1>8, <2>1 DEF RupInv
  <2>2. CASE i = Len(trail) + 1
    <3>1. lvl = 1
      BY <1>3, <1>6, <1>8, <2>2 DEF Level
    <3> QED BY <1>3, <1>7, <2>2, <3>1
  <2> QED BY <1>3, <2>1, <2>2
<1>9. ClauseIds' = ClauseIds
  BY DEF ClauseIds
<1> QED BY <1>1, <1>2, <1>8, <1>9 DEF RupInv

-----------------------------------------------------------------------------
(* Every action keeps what the certificate needs, and a line it writes has *)
(* the property.                                                           *)

\* The clauses and the units of the problem may be used as they are.
LEMMA InitRup == Init => RupInv
<1> SUFFICES ASSUME Init, NEW T \in Unrefuted
             PROVE  /\ \A c \in ClauseIds : Obeys(T, clauses[c])
                    /\ \A i \in DOMAIN trail : trail[i] \in T
  BY DEF RupInv, Init
<1>1. PICK pb \in Problems : New(pb)
  BY DEF Init
<1>2. \A C \in formula : Obeys(T, C)
  BY ObeysMember DEF Unrefuted, Certified
<1>3. \A c \in ClauseIds : clauses[c] \in formula
  <2>1. Len(clauses) \in Nat /\ DOMAIN clauses = 1 .. Len(clauses)
    BY InitInv DEF IInv, TypeOK
  <2> QED BY <1>1, <2>1 DEF New, Range, ClauseIds
<1>4. \A i \in DOMAIN trail : {trail[i]} \in formula
  BY <1>1 DEF New, Range, UnitClauses
<1>5. \A i \in DOMAIN trail : trail[i] \in T
  BY <1>2, <1>4, ObeysUnit
<1> QED BY <1>2, <1>3, <1>5

LEMMA StutterRup ==
    ASSUME IInv, RupInv, UNCHANGED vars
    PROVE  RupInv' /\ RupLine
<1>1. /\ UNCHANGED <<model, trail, reason, clauses, formula, cert, pc, lvl, lit>>
      /\ UNCHANGED <<lits, walk, metLvl>>
  BY DEF vars, bindingVars, dbVars, propVars, learnVars, ctlVars, clientVars
<1>2. RupLine
  BY <1>1, CertifiedKept
<1>3. RupInv'
  BY <1>1 DEF RupInv, Unrefuted, Certified, ClauseIds, Level, Resolvent
<1> QED BY <1>2, <1>3

LEMMA SolveRup ==
    ASSUME IInv, RupInv, Solve
    PROVE  RupInv' /\ RupLine
<1>1. UNCHANGED <<model, trail, clauses, formula, cert>> /\ pc' \in {"idle", "search"}
  BY DEF Solve, bindingVars, dbVars
<1> QED BY <1>1, QuietRup

LEMMA SearchRup ==
    ASSUME IInv, RupInv, Search
    PROVE  RupInv' /\ RupLine
<1>1. UNCHANGED <<model, trail, clauses, formula, cert>>
  BY DEF Search, dbVars
<1>2. pc' = "idle" \/ (pc' = "unify" /\ lvl' = 2)
  BY DEF Search, ChooseLit
<1> QED BY <1>1, <1>2, QuietRup

LEMMA BranchRup ==
    ASSUME IInv, RupInv, Branch
    PROVE  RupInv' /\ RupLine
<1>1. UNCHANGED <<model, trail, clauses, formula, cert>>
  BY DEF Branch
<1>2. pc' = "panic" \/ pc' = "idle" \/ (pc' = "unify" /\ lvl' = lvl + 1)
  BY DEF Branch, ChooseLit
<1>3. lvl + 1 > 1
  BY InvFacts
<1> QED BY <1>1, <1>2, <1>3, QuietRup

LEMMA UnitPropagatedRup ==
    ASSUME IInv, RupInv, UnitPropagated
    PROVE  RupInv' /\ RupLine
<1>1. UNCHANGED <<model, trail, clauses, formula, cert>>
  BY DEF UnitPropagated, dbVars
<1>2. pc' = "idle" \/ (pc' = "unify" /\ lvl' = 2)
  BY DEF UnitPropagated, ChooseLit
<1> QED BY <1>1, <1>2, QuietRup

LEMMA CallReturnsRup ==
    ASSUME IInv, RupInv, CallReturns
    PROVE  RupInv' /\ RupLine
<1>1. UNCHANGED <<model, trail, clauses, formula, cert>> /\ pc' = "idle"
  BY DEF CallReturns, dbVars, clientVars
<1> QED BY <1>1, QuietRup

\* The literal bound is a decision, a fact or the consequence of a clause.
LEMMA UnifyLiteralRup ==
    ASSUME IInv, RupInv, UnifyLiteral
    PROVE  RupInv' /\ RupLine
<1> DEFINE r == reason[VarOf(lit)]
<1>1. /\ UNCHANGED <<clauses, formula, cert>>
      /\ pc = "unify" /\ pc' = "propagate"
      /\ model' = [model EXCEPT ![VarOf(lit)] = LvlToSignedLvl(lit, lvl)]
      /\ trail' = Append(trail, lit)
  BY DEF UnifyLiteral, dbVars, clientVars
<1>2. /\ lit \in Lits /\ model[VarOf(lit)] = 0
      /\ r # Nil => lit \in clauses[r] /\ \A l \in clauses[r] \ {lit} : IsFalse(l)
      /\ \A v \in Vars : Level(v) <= lvl
  BY <1>1 DEF IInv, UnifyInv, LevelsInv
<1>3. r \in {Nil} \union ClauseIds
  BY <1>2, LitFacts DEF IInv, TypeOK
<1>4. r = Nil /\ lvl = 1 => \A T \in Unrefuted : lit \in T
  BY <1>1 DEF RupInv
<1> HIDE DEF r
<1> QED BY <1>1, <1>2, <1>3, <1>4, BindRup

LEMMA VisitBinaryRup ==
    ASSUME IInv, RupInv, NEW w \in todoBin, VisitBinary(w), UNCHANGED <<cert, formula>>
    PROVE  RupInv' /\ RupLine
<1>1. UNCHANGED clauses /\ pc = "visit" /\ pc' \in {"visit", "conflict"}
  BY DEF VisitBinary, ReturnConflict, dbVars
<1>2. /\ w[1] \in ClauseIds /\ w[2] \in Lits /\ clauses[w[1]] = {Negation(trail[ptr]), w[2]}
      /\ IsFalse(Negation(trail[ptr]))
  BY <1>1, BinaryFacts
<1>3. CASE UNCHANGED <<model, trail>>
  BY <1>1, <1>3, QuietRup
<1>4. CASE LitStatus(w[2]) = "Indet" /\ Imply(w[1], w[2])
  <2>1. model[VarOf(w[2])] = 0
    BY <1>2, <1>4, InvFacts, StatusFacts
  <2>2. \A v \in Vars : Level(v) <= lvl
    BY <1>1 DEF IInv, LevelsInv
  <2>3. w[1] # Nil
    BY <1>2 DEF ClauseIds, Nil
  <2> QED BY <1>1, <1>2, <1>4, <2>1, <2>2, <2>3, BindRup DEF Imply
<1> QED BY <1>3, <1>4 DEF VisitBinary

LEMMA VisitLongRup ==
    ASSUME IInv, RupInv, NEW w \in todo, VisitLong(w), UNCHANGED <<cert, formula>>
    PROVE  RupInv' /\ RupLine
<1> DEFINE c == w[1]
           p == Swapped(w[1], Negation(trail[ptr]))
<1>1. UNCHANGED clauses /\ pc = "visit" /\ pc' \in {"visit", "conflict"}
  BY DEF VisitLong, ReturnConflict
<1>2. /\ c \in ClauseIds /\ p = <<p[1], Negation(trail[ptr])>> /\ p[1] \in Lits
      /\ p[1] \in clauses[c] /\ {p[1], p[2]} = {watched[c][1], watched[c][2]}
      /\ IsFalse(Negation(trail[ptr]))
  BY <1>1, LongFacts
<1>3. CASE UNCHANGED <<model, trail>>
  BY <1>1, <1>3, QuietRup
<1>4. CASE LitStatus(p[1]) # "Sat" /\ Free(c) = {} /\ ~ IsFalse(p[1]) /\ Imply(c, p[1])
  <2>1. model[VarOf(p[1])] = 0
    BY <1>2, <1>4, InvFacts, StatusFacts DEF IsFalse
  <2>2. \A v \in Vars : Level(v) <= lvl
    BY <1>1 DEF IInv, LevelsInv
  <2>3. c # Nil
    BY <1>2 DEF ClauseIds, Nil
  <2>4. \A k \in clauses[c] \ {p[1]} : IsFalse(k)
    <3>1. \A k \in clauses[c] : k \notin {watched[c][1], watched[c][2]} => IsFalse(k)
      BY <1>4 DEF Free
    <3> HIDE DEF p, c
    <3> QED BY <1>2, <3>1
  <2> HIDE DEF p, c
  <2> QED BY <1>1, <1>2, <1>4, <2>1, <2>2, <2>3, <2>4, BindRup DEF Imply
<1>5. \/ UNCHANGED <<model, trail>>
      \/ LitStatus(p[1]) # "Sat" /\ Free(c) = {} /\ ~ IsFalse(p[1]) /\ Imply(c, p[1])
  BY DEF VisitLong, bindingVars
<1> QED BY <1>3, <1>4, <1>5

LEMMA PropagateRup ==
    ASSUME IInv, RupInv, Propagate
    PROVE  RupInv' /\ RupLine
<1>1. UNCHANGED <<cert, formula>>
  BY DEF Propagate, clientVars
<1>2. CASE StartLit \/ EndLit
  <2>1. UNCHANGED <<model, trail, clauses>> /\ pc' \in {"visit", "propagate"}
    BY <1>2 DEF StartLit, EndLit, bindingVars, dbVars
  <2> QED BY <1>1, <2>1, QuietRup
<1> QED BY <1>1, <1>2, VisitBinaryRup, VisitLongRup DEF Propagate, PropagateStep

LEMMA RestartRup ==
    ASSUME IInv, RupInv, Restart
    PROVE  RupInv' /\ RupLine
<1>1. UNCHANGED <<clauses, formula, cert>> /\ CleanupBindings(1) /\ pc' = "search"
  BY DEF Restart, Restarted, dbVars, clientVars
<1>2. FactsKept
  BY <1>1, CleanRup
<1>3. ClausesKept
  BY <1>1 DEF ClausesKept, ClauseIds
<1> QED BY <1>1, <1>2, <1>3, CertifiedKept, RupKept

\* Conflict analysis starts from a clause that is obeyed.
LEMMA ConflictRup ==
    ASSUME IInv, RupInv, Conflict
    PROVE  RupInv' /\ RupLine
<1>1. /\ UNCHANGED <<model, trail, reason, clauses, lvl, ret, cert, formula, assumed, lit>>
      /\ pc = "conflict" /\ ret = "branch" /\ pc' = "learn" /\ StartLearn(confl)
  BY DEF Conflict, bindingVars, dbVars, clientVars
<1>2. /\ confl \in ClauseIds /\ clauses[confl] \in Clauses
      /\ \A l \in clauses[confl] : IsFalse(l)
      /\ \E l \in clauses[confl] : Level(VarOf(l)) = lvl
      /\ \A v \in Vars : Level(v) <= lvl
  BY <1>1, InvFacts DEF IInv, VisitInv, LevelsInv
<1>3. clauses[confl] \subseteq Resolvent'
  <2>1. BindingsInv /\ ClausesEntailed /\ lvl \in Nat \ {0}
    BY InvFacts DEF IInv
  <2> QED BY <1>1, <1>2, <2>1, StartLearnInv
<1>4. RupLine /\ Certified' = Certified
  BY <1>1, CertifiedKept
<1>5. \A T \in Unrefuted : \E l \in Resolvent' : Negation(l) \notin T
  BY <1>2, <1>3 DEF RupInv, Obeys
<1>6. Unrefuted' = Unrefuted
  BY <1>4 DEF Unrefuted
<1> QED BY <1>1, <1>4, <1>5, <1>6 DEF RupInv, ClauseIds, Level

\* A set that falsifies the resolvent contains the literal resolved on, because
\* it obeys the reason, and falsifies what was there before.
LEMMA ResolveReasonRup ==
    ASSUME IInv, RupInv, ResolveReason
    PROVE  RupInv' /\ RupLine
<1>1. /\ UNCHANGED <<model, trail, reason, clauses, lvl, cert, formula, lit>>
      /\ pc = "learn" /\ pc' = "learn"
  BY DEF ResolveReason, Resolve, bindingVars, dbVars, ctlVars, clientVars
<1>2. PICK i \in 1 .. Len(trail) : Resolves(i)
  BY InvFacts, ResolveStep
<1>3. trail[i] \in Lits /\ VarOf(trail[i]) \in Vars /\ i \in DOMAIN trail
  BY InvFacts
<1>4. ASSUME NEW T \in Unrefuted, \A l \in Resolvent' : Negation(l) \in T
      PROVE  FALSE
  <2>1. trail[i] \in T
    <3>1. CASE reason[VarOf(trail[i])] = Nil
      BY <1>2, <1>3, <1>4, <3>1 DEF Resolves, RupInv
    <3>2. CASE reason[VarOf(trail[i])] # Nil
      <4>1. reason[VarOf(trail[i])] \in ClauseIds
        BY <1>3, <3>2 DEF IInv, TypeOK
      <4>2. Obeys(T, ReasonOf(i))
        BY <1>4, <3>2, <4>1 DEF RupInv, ReasonOf
      <4>3. \A l \in ReasonOf(i) \ {trail[i]} : Negation(l) \in T
        BY <1>2, <1>4 DEF Resolves
      <4> QED BY <1>2, <4>2, <4>3 DEF Resolves, Obeys
    <3> QED BY <3>1, <3>2
  <2>2. \A l \in Resolvent : Negation(l) \in T
    <3> SUFFICES ASSUME NEW l \in Resolvent PROVE Negation(l) \in T
      OBVIOUS
    <3>1. CASE l = Negation(trail[i])
      BY <1>3, <2>1, <3>1, LitFacts
    <3>2. CASE l # Negation(trail[i])
      BY <1>2, <1>4, <3>2 DEF Resolves
    <3> QED BY <3>1, <3>2
  <2> QED BY <1>1, <1>4, <2>2 DEF RupInv
<1>5. RupLine /\ Certified' = Certified
  BY <1>1, CertifiedKept
<1>6. Unrefuted' = Unrefuted
  BY <1>5 DEF Unrefuted
<1> QED BY <1>1, <1>4, <1>5, <1>6 DEF RupInv, ClauseIds, Level

\* setUnsat when propagation of the certificate already refutes everything.
LEMMA SetUnsatRup ==
    ASSUME IInv, RupInv, SetUnsat, Unrefuted = {}, UNCHANGED <<model, trail, clauses, formula>>
    PROVE  RupInv' /\ RupLine
<1>1. cert' = Append(cert, {}) /\ pc' = "idle"
  BY DEF SetUnsat
<1>2. /\ Certified \subseteq Certified' /\ cert'[Len(cert')] = {}
  BY <1>1, LineAppended
<1>3. IsRup(formula \union Range(cert), {})
  BY RupOf
<1>4. FactsKept /\ ClausesKept
  BY DEF FactsKept, ClausesKept, ClauseIds, Level
<1> QED BY <1>1, <1>2, <1>3, <1>4, RupKept DEF RupLine

LEMMA LearnFalseRup ==
    ASSUME IInv, RupInv, LearnFalse
    PROVE  RupInv' /\ RupLine
<1>1. UNCHANGED <<model, trail, clauses, formula>> /\ pc = "learn" /\ SetUnsat
  BY DEF LearnFalse, OnlyAssumed, Learnt, bindingVars, dbVars
<1>2. lvl = 1
  <2>1. CASE OnlyAssumed
    <3>1. Level(ResolveVar) = lvl
      BY <1>1, InvFacts, NextMetFacts
    <3>2. Level(ResolveVar) = 1
      BY <2>1 DEF OnlyAssumed, IInv, ClientInv
    <3> QED BY <3>1, <3>2
  <2>2. CASE Learnt /\ \E u \in AssertingLits : Level(VarOf(u)) = 1 /\ IsFalse(u)
    BY <2>2, InvFacts, AssertingFacts
  <2> QED BY <2>1, <2>2 DEF LearnFalse
<1>3. Resolvent \in Clauses /\ \A l \in Resolvent : IsFalse(l) /\ Level(VarOf(l)) <= 1
  BY <1>1, <1>2, InvFacts, ResolventFacts
<1>4. \A T \in Unrefuted : \E l \in Resolvent : Negation(l) \notin T
  BY <1>1 DEF RupInv
<1>5. Unrefuted = {}
  BY <1>3, <1>4, TopClash
<1> QED BY <1>1, <1>5, SetUnsatRup

LEMMA UnitConflictRup ==
    ASSUME IInv, RupInv, UnitConflict
    PROVE  RupInv' /\ RupLine
<1>1. UNCHANGED <<model, trail, clauses, formula>> /\ SetUnsat /\ pc = "conflict" /\ ret = "unit"
  BY DEF UnitConflict, bindingVars, dbVars
<1>2. /\ confl \in ClauseIds /\ clauses[confl] \in Clauses /\ lvl = 1
      /\ \A l \in clauses[confl] : IsFalse(l)
      /\ \A v \in Vars : Level(v) <= lvl
  BY <1>1, InvFacts DEF IInv, VisitInv, LevelsInv
<1>3. \A l \in clauses[confl] : IsFalse(l) /\ Level(VarOf(l)) <= 1
  BY <1>2, LitFacts DEF Clauses
<1>4. \A T \in Unrefuted : \E l \in clauses[confl] : Negation(l) \notin T
  BY <1>2 DEF RupInv, Obeys
<1>5. Unrefuted = {}
  BY <1>2, <1>3, <1>4, TopClash
<1> QED BY <1>1, <1>5, SetUnsatRup

\* What is learned, minimized, is not falsified by such a set either: it would
\* contain the negations of the literals that were dropped.
LEMMA LearnedObeyed ==
    ASSUME IInv, RupInv, Learnt, NEW u \in AssertingLits, NEW T \in Unrefuted
    PROVE  \E l \in {u} \union Minimized : Negation(l) \notin T
<1> SUFFICES ASSUME \A l \in {u} \union Minimized : Negation(l) \in T
             PROVE  FALSE
  OBVIOUS
<1>1. \A c \in ClauseIds : \A l \in clauses[c] :
        (\A k \in clauses[c] \ {l} : Negation(k) \in T) => l \in T
  BY DEF RupInv, Obeys
<1>2. \A l \in lits : Negation(l) \in T
  BY <1>1, InvFacts, MinimizedImplied
<1>3. Resolvent = lits \union {u}
  BY InvFacts, AssertingFacts
<1>4. \E l \in Resolvent : Negation(l) \notin T
  BY DEF RupInv, Learnt
<1> QED BY <1>2, <1>3, <1>4

LEMMA LearnUnitRup ==
    ASSUME IInv, RupInv, NEW u \in AssertingLits, LearnUnit(u)
    PROVE  RupInv' /\ RupLine
<1>1. /\ UNCHANGED <<clauses, formula>> /\ Learnt /\ Minimized = {}
      /\ CleanupBindings(1) /\ cert' = Append(cert, {u}) /\ pc' = "unify" /\ lit' = u
  BY DEF LearnUnit, dbVars, clientVars
<1>2. /\ Certified \subseteq Certified' /\ {u} \in Certified'
      /\ cert'[Len(cert')] = {u}
  BY <1>1, LineAppended
<1>3. IsRup(formula \union Range(cert), {u})
  <2>1. {u} \union Minimized = {u}
    BY <1>1
  <2> QED BY <1>1, <2>1, LearnedObeyed, RupOf
<1>4. \A T \in Unrefuted' : u \in T
  BY <1>2, ObeysMember, ObeysUnit DEF Unrefuted
<1>5. FactsKept
  BY <1>1, CleanRup
<1>6. ClausesKept
  BY <1>1 DEF ClausesKept, ClauseIds
<1> QED BY <1>1, <1>2, <1>3, <1>4, <1>5, <1>6, RupKept DEF RupLine

LEMMA LearnClauseRup ==
    ASSUME IInv, RupInv, NEW u \in AssertingLits, NEW s \in SecondLits(Minimized), LearnClause(u, s)
    PROVE  RupInv' /\ RupLine
<1> DEFINE C == {u} \union Minimized
           c == Len(clauses) + 1
           bt == Level(VarOf(s))
<1>1. /\ UNCHANGED formula /\ Learnt /\ pc = "learn"
      /\ AddClause(C, u, s, ComputeLbd(C)) /\ CleanupBindings(bt)
      /\ cert' = Append(cert, C) /\ pc' = "unify" /\ lit' = u
      /\ reason' = [CleanReason(bt) EXCEPT ![VarOf(u)] = c]
  BY DEF LearnClause, Learnt, clientVars
<1>2. /\ Certified \subseteq Certified' /\ C \in Certified' /\ cert'[Len(cert')] = C
  BY <1>1, LineAppended
<1>3. IsRup(formula \union Range(cert), C)
  BY <1>1, LearnedObeyed, RupOf
<1>4. s \in Lits /\ VarOf(s) \in Vars /\ bt \in Nat \ {0}
  <2>1. s \in lits /\ lits \subseteq Lits
    BY <1>1, InvFacts, AnalysisFacts DEF SecondLits, Minimized
  <2>2. IsFalse(s) /\ s \in Lits /\ VarOf(s) \in Vars
    BY <1>1, <2>1, LitFacts DEF IInv, LearnInv
  <2> QED BY <2>2, InvFacts, StatusFacts
<1>5. FactsKept
  <2> HIDE DEF bt
  <2> QED BY <1>1, <1>4, CleanRup
<1>6. ClausesKept
  <2>1. /\ ClauseIds' = ClauseIds \union {c} /\ clauses'[c] = C
        /\ \A e \in ClauseIds : clauses'[e] = clauses[e]
    <3>1. clauses' = Append(clauses, C) /\ clauses \in Seq(Clauses)
      BY <1>1 DEF AddClause, IInv, TypeOK
    <3> HIDE DEF C
    <3> QED BY <3>1 DEF ClauseIds
  <2>2. \A T \in Unrefuted' : Obeys(T, C)
    BY <1>2, ObeysMember DEF Unrefuted
  <2> HIDE DEF C, c
  <2> QED BY <2>1, <2>2 DEF ClausesKept
<1>7. reason'[VarOf(lit')] # Nil
  <2>1. u \in Lits /\ VarOf(u) \in Vars
    BY <1>1, InvFacts, AssertingFacts, LitFacts
  <2>2. CleanReason(bt) \in [Vars -> {Nil} \union ClauseIds]
    <3> HIDE DEF bt
    <3> QED BY <1>4, InvFacts, CleanFacts
  <2>3. reason'[VarOf(lit')] = c
    BY <1>1, <2>1, <2>2
  <2>4. c \in Nat \ {0}
    BY DEF IInv, TypeOK
  <2> QED BY <2>3, <2>4 DEF Nil
<1> QED BY <1>1, <1>2, <1>3, <1>5, <1>6, <1>7, RupKept DEF RupLine

\* What is left of an appended clause is obeyed: the literals dropped from it
\* are false at level 1.
LEMMA AppendClauseRup ==
    ASSUME IInv, RupInv, NEW C \in Appendable, AppendClause(C)
    PROVE  RupInv' /\ RupLine
<1> DEFINE m == CleanModel(1)
           rest == SimplifiedLits(C, m)
<1>1. /\ pc = "idle" /\ formula' = formula \union {C} /\ cert' = cert
      /\ CleanupBindings(1) /\ reason' = CleanReason(1)
  BY DEF AppendClause
<1>2. C \in Clauses /\ rest \subseteq C
  BY ClientAssumption DEF SimplifiedLits
<1>3. Certified \subseteq Certified' /\ C \in Certified'
  BY <1>1 DEF Certified
<1>4. RupLine
  <2>1. Len(cert) \in Nat
    BY DEF IInv, TypeOK
  <2> QED BY <1>1, <2>1 DEF RupLine
<1>5. FactsKept
  BY <1>1, CleanRup
<1>6. Unrefuted' \subseteq Unrefuted
  BY <1>3, UnrefutedShrinks
<1>7. ASSUME ~ SatisfiedBy(C, m), NEW l \in C \ rest
      PROVE  l \in Lits /\ IsFalse(l) /\ Level(VarOf(l)) <= 1
  <2>1. l \in Lits /\ VarOf(l) \in Vars /\ m[VarOf(l)] # 0
    BY <1>2, LitFacts DEF SimplifiedLits, Clauses
  <2>2. ~ ((m[VarOf(l)] > 0) = IsPositive(l))
    BY <1>7, <2>1 DEF SatisfiedBy
  <2>3. m = [x \in Vars |-> IF Level(x) > 1 THEN 0 ELSE model[x]]
    BY InvFacts, CleanFacts
  <2>4. ~ (Level(VarOf(l)) > 1) /\ model[VarOf(l)] = m[VarOf(l)]
    BY <2>1, <2>3
  <2>5. LitStatus(l) = "Unsat"
    BY <2>1, <2>2, <2>4 DEF LitStatus
  <2> QED BY <2>1, <2>4, <2>5, InvFacts DEF IsFalse
<1>8. ASSUME ~ SatisfiedBy(C, m), NEW T \in Unrefuted'
      PROVE  Obeys(T, rest)
  <2>1. Obeys(T, C)
    BY <1>3, ObeysMember DEF Unrefuted
  <2>2. \A l \in C \ rest : Negation(l) \in T
    BY <1>6, <1>7, <1>8, FalseFacts
  <2> HIDE DEF rest
  <2> QED BY <1>2, <2>1, <2>2, ObeysRest
<1>9. ASSUME UNCHANGED clauses PROVE ClausesKept
  BY <1>9 DEF ClausesKept, ClauseIds
<1> HIDE DEF m, rest
<1>10. CASE UNCHANGED <<clauses, pc>>
  BY <1>1, <1>3, <1>4, <1>5, <1>9, <1>10, RupKept
<1>11. CASE ~ SatisfiedBy(C, m) /\ (\E l \in rest : lit' = l) /\ Cardinality(rest) = 1
            /\ UNCHANGED clauses /\ pc' = "unify"
  <2>1. rest = {lit'}
    <3>1. IsFiniteSet(rest)
      BY <1>2, ClausesFinite, FS_Subset
    <3> QED BY <1>11, <3>1, FS_Singleton
  <2>2. \A T \in Unrefuted' : lit' \in T
    BY <1>8, <1>11, <2>1, ObeysUnit
  <2> QED BY <1>3, <1>4, <1>5, <1>9, <1>11, <2>2, RupKept
<1>12. CASE ~ SatisfiedBy(C, m) /\ pc' = pc /\ \E f, s \in rest : f # s /\ AddClause(rest, f, s, 0)
  <2>1. /\ ClauseIds' = ClauseIds \union {Len(clauses) + 1}
        /\ clauses'[Len(clauses) + 1] = rest
        /\ \A e \in ClauseIds : clauses'[e] = clauses[e]
    <3>1. clauses' = Append(clauses, rest) /\ clauses \in Seq(Clauses)
      BY <1>12 DEF AddClause, IInv, TypeOK
    <3> QED BY <3>1 DEF ClauseIds
  <2>2. ClausesKept
    BY <1>8, <1>12, <2>1 DEF ClausesKept
  <2> QED BY <1>1, <1>3, <1>4, <1>5, <1>12, <2>2, RupKept
<1> QED BY <1>10, <1>11, <1>12 DEF AppendClause, m, rest

\* An assumption is written to the certificate as a line of its own, and is
\* bound at level 1.
LEMMA AssumeRup ==
    ASSUME IInv, RupInv, NEW L \in Assumable, Assume(L)
    PROVE  RupInv' /\ RupLine
<1> DEFINE new == [i \in 1 .. Cardinality(L) |-> {trail'[i]}]
<1>1. /\ UNCHANGED <<clauses, formula>> /\ pc' = "propagate" /\ assumed' = L
      /\ cert' = cert \o new
  BY DEF Assume, dbVars
<1>2. /\ trail' \in Seq(Lits) /\ DOMAIN trail' = 1 .. Cardinality(L) /\ Cardinality(L) \in Nat
      /\ \A i \in DOMAIN trail' : trail'[i] \in L /\ trail'[i] \in Lits
  BY AssumeBindings
<1>3. /\ cert \in Seq(Clauses) /\ new \in Seq(Clauses) /\ Len(new) = Cardinality(L)
      /\ \A i \in 1 .. Cardinality(L) : new[i] = {trail'[i]}
  <2>1. cert \in Seq(Clauses)
    BY DEF IInv, TypeOK
  <2>2. new \in [1 .. Cardinality(L) -> Clauses]
    BY <1>2 DEF Clauses
  <2>3. \A i \in 1 .. Cardinality(L) : new[i] = {trail'[i]}
    OBVIOUS
  <2> HIDE DEF new
  <2> QED BY <1>2, <2>1, <2>2, <2>3
<1> HIDE DEF new
<1>4. /\ Len(cert') = Len(cert) + Cardinality(L)
      /\ \A i \in 1 .. Len(cert) : cert'[i] = cert[i]
      /\ \A i \in 1 .. Cardinality(L) : cert'[Len(cert) + i] = {trail'[i]}
      /\ DOMAIN cert = 1 .. Len(cert) /\ DOMAIN cert' = 1 .. Len(cert) + Cardinality(L)
      /\ Len(cert) \in Nat
  <2>1. Len(cert) \in Nat /\ DOMAIN cert = 1 .. Len(cert)
    BY <1>3
  <2>2. /\ Len(cert') = Len(cert) + Len(new) /\ cert' \in Seq(Clauses)
        /\ \A i \in 1 .. Len(cert) + Len(new) :
             cert'[i] = IF i <= Len(cert) THEN cert[i] ELSE new[i - Len(cert)]
    <3>1. cert \in Seq(Clauses) /\ new \in Seq(Clauses) /\ cert' = cert \o new
      BY <1>1, <1>3
    <3> QED BY <3>1, ConcatProperties
  <2>3. \A i \in 1 .. Cardinality(L) :
          /\ Len(cert) + i \in 1 .. Len(cert) + Len(new)
          /\ ~ (Len(cert) + i <= Len(cert)) /\ (Len(cert) + i) - Len(cert) = i
    BY <1>2, <1>3, <2>1
  <2>4. \A i \in 1 .. Cardinality(L) : cert'[Len(cert) + i] = {trail'[i]}
    BY <1>3, <2>2, <2>3
  <2>5. \A i \in 1 .. Len(cert) : cert'[i] = cert[i]
    BY <1>2, <1>3, <2>1, <2>2
  <2> QED BY <1>2, <1>3, <2>1, <2>2, <2>4, <2>5
<1>5. Range(cert) \subseteq Range(cert') /\ \A i \in DOMAIN trail' : {trail'[i]} \in Range(cert')
  <2>1. \A i \in 1 .. Cardinality(L) : Len(cert) + i \in DOMAIN cert'
    BY <1>2, <1>4
  <2>2. \A i \in DOMAIN cert : i \in DOMAIN cert' /\ cert'[i] = cert[i]
    BY <1>2, <1>4
  <2>3. Range(cert) = {cert[i] : i \in DOMAIN cert} /\ Range(cert') = {cert'[i] : i \in DOMAIN cert'}
    BY DEF Range
  <2>4. Range(cert) \subseteq Range(cert')
    BY ONLY <2>2, <2>3
  <2>5. \A i \in DOMAIN trail' : {trail'[i]} \in Range(cert')
    <3> SUFFICES ASSUME NEW i \in DOMAIN trail' PROVE {trail'[i]} \in Range(cert')
      OBVIOUS
    <3>1. i \in 1 .. Cardinality(L)
      BY <1>2
    <3>2. Len(cert) + i \in DOMAIN cert' /\ cert'[Len(cert) + i] = {trail'[i]}
      BY <1>4, <2>1, <3>1
    <3> QED BY ONLY <2>3, <3>2
  <2> QED BY <2>4, <2>5
<1>6. Certified \subseteq Certified' /\ \A i \in DOMAIN trail' : {trail'[i]} \in Certified'
  BY <1>1, <1>5 DEF Certified
<1>7. \A T \in Unrefuted' : \A i \in DOMAIN trail' : trail'[i] \in T
  <2> SUFFICES ASSUME NEW T \in Unrefuted', NEW i \in DOMAIN trail' PROVE trail'[i] \in T
    OBVIOUS
  <2>1. Obeys(T, {trail'[i]})
    BY <1>6, ObeysMember DEF Unrefuted
  <2> QED BY <2>1, ObeysUnit
<1>8. \A T \in Unrefuted' : T \in Unrefuted
  BY <1>6, UnrefutedShrinks
<1>9. RupInv'
  BY <1>1, <1>7, <1>8 DEF RupInv, ClauseIds
<1>10. RupLine
  <2> SUFFICES ASSUME assumed' = {} PROVE ~ (Len(cert') > Len(cert))
    BY DEF RupLine
  <2>1. Cardinality(L) = 0
    BY <1>1, FS_EmptySet
  <2> QED BY <1>4, <2>1
<1> QED BY <1>9, <1>10

LEMMA NextRup ==
    ASSUME IInv, RupInv, [Next]_vars
    PROVE  RupInv' /\ RupLine
<1>1. CASE UNCHANGED vars
  BY <1>1, StutterRup
<1>2. CASE ClientCall
  BY <1>2, SolveRup, AppendClauseRup, AssumeRup DEF ClientCall
<1>3. CASE Search \/ UnifyLiteral \/ Propagate \/ Restart \/ Branch \/ Conflict
  BY <1>3, SearchRup, UnifyLiteralRup, PropagateRup, RestartRup, BranchRup, ConflictRup
<1>4. CASE ResolveReason \/ LearnFalse \/ UnitPropagated \/ UnitConflict \/ CallReturns
  BY <1>4, ResolveReasonRup, LearnFalseRup, UnitPropagatedRup, UnitConflictRup, CallReturnsRup
<1>5. CASE \/ \E u \in AssertingLits : LearnUnit(u)
           \/ \E u \in AssertingLits, s \in SecondLits(Minimized) : LearnClause(u, s)
  BY <1>5, LearnUnitRup, LearnClauseRup
<1> QED BY <1>1, <1>2, <1>3, <1>4, <1>5 DEF Next, SearchStep, CallStep

\* All the solver holds, its clauses, its level-1 bindings and the clause it is
\* building, is obeyed by the sets of literals that unit propagation of the
\* certificate leaves alone.
THEOREM CertificateInvariance ==
    ASSUME OneKindOfClient
    PROVE  Spec => []RupInv
<1>1. Init => RupInv
  BY InitRup
<1>2. IInv /\ RupInv /\ [Next]_vars => RupInv'
  BY NextRup
<1> QED BY <1>1, <1>2, Invariance, PTL DEF Spec

\* Every line the solver writes to the certificate, a learned clause after its
\* minimization or the empty one of setUnsat, follows from the problem and the
\* lines before it by unit propagation, as long as nothing is assumed: reverse
\* unit propagation accepts the certificate of every Unsat answer.
THEOREM CertificateCorrectness ==
    ASSUME OneKindOfClient
    PROVE  Spec => CertificateIsRup
<1>1. IInv /\ RupInv /\ [Next]_vars => [RupLine]_vars
  BY NextRup
<1> QED BY <1>1, Invariance, CertificateInvariance, PTL DEF Spec, CertificateIsRup

-----------------------------------------------------------------------------
(* What the invariant says of the clauses.                                 *)

LEMMA PairCardinality ==
    ASSUME NEW x, NEW y, x # y
    PROVE  Cardinality({x, y}) = 2
<1>1. IsFiniteSet({x}) /\ Cardinality({x}) = 1
  BY FS_Singleton
<1>2. {x, y} = {x} \union {y} /\ y \notin {x}
  OBVIOUS
<1> QED BY <1>1, <1>2, FS_AddElement

\* The types the proofs of this module need most.
LEMMA ClauseFacts ==
    ASSUME IInv
    PROVE  /\ \A c \in ClauseIds :
                /\ clauses[c] \in Clauses /\ clauses[c] \subseteq Lits
                /\ watched[c] \in Lits \X Lits
                /\ watched[c][1] \in clauses[c] /\ watched[c][2] \in clauses[c]
                /\ watched[c][1] # watched[c][2]
                /\ lbd[c] \in Nat
           /\ \A l \in Lits : \A w \in wlistBin[l] \union wlist[l] :
                w[1] \in ClauseIds /\ w[2] \in Lits /\ VarOf(w[2]) \in Vars
           /\ learned \subseteq ClauseIds /\ Alive \subseteq ClauseIds
           /\ \A l \in Lits : \A w \in wlistBin[l] :
                /\ clauses[w[1]] = {Negation(l), w[2]}
                /\ Cardinality(clauses[w[1]]) = 2
<1>1. /\ clauses \in Seq(Clauses) /\ watched \in Seq(Lits \X Lits) /\ lbd \in Seq(Nat)
      /\ Len(watched) = Len(clauses) /\ Len(lbd) = Len(clauses)
      /\ ClauseIds = 1 .. Len(clauses) /\ learned \subseteq ClauseIds
      /\ wlistBin \in [Lits -> SUBSET Watchers] /\ wlist \in [Lits -> SUBSET Watchers]
  BY DEF IInv, TypeOK, ClauseIds
<1>2. \A c \in ClauseIds :
        /\ watched[c][1] \in clauses[c] /\ watched[c][2] \in clauses[c]
        /\ watched[c][1] # watched[c][2]
  BY DEF IInv, ListsInv
<1>3. \A c \in ClauseIds :
        /\ clauses[c] \in Clauses /\ watched[c] \in Lits \X Lits /\ lbd[c] \in Nat
  BY <1>1
<1>4. \A c \in ClauseIds : clauses[c] \subseteq Lits
  BY <1>3 DEF Clauses
<1>5. \A l \in Lits : \A w \in wlistBin[l] \union wlist[l] :
        w[1] \in ClauseIds /\ w[2] \in Lits /\ VarOf(w[2]) \in Vars
  <2>1. \A l \in Lits : \A w \in wlistBin[l] \union wlist[l] : w \in Watchers
    BY <1>1
  <2>2. \A w \in Watchers : w[1] \in ClauseIds /\ w[2] \in Lits
    BY DEF Watchers
  <2> QED BY <2>1, <2>2, LitFacts
<1>6. ASSUME NEW l \in Lits, NEW w \in wlistBin[l]
      PROVE  /\ clauses[w[1]] = {Negation(l), w[2]}
             /\ Cardinality(clauses[w[1]]) = 2
  <2>1. w[1] \in ClauseIds /\ clauses[w[1]] = {Negation(l), w[2]}
    BY DEF IInv, ListsInv
  <2>2. Negation(l) # w[2]
    BY <1>2, <2>1
  <2>3. Cardinality({Negation(l), w[2]}) = 2
    BY <2>2, PairCardinality
  <2> QED BY <2>1, <2>3
<1> QED BY <1>1, <1>2, <1>3, <1>4, <1>5, <1>6 DEF Alive

\* The literal of a watcher is in the clause it watches, which is alive.
LEMMA WatcherFacts ==
    ASSUME IInv, ListsComplete, NEW l \in Lits, NEW w \in wlistBin[l] \union wlist[l]
    PROVE  w[1] \in Alive /\ w[2] \in clauses[w[1]] /\ w[2] \in Lits /\ VarOf(w[2]) \in Vars
<1>1. w[2] \in Lits /\ VarOf(w[2]) \in Vars
  BY ClauseFacts
<1>2. CASE w \in wlistBin[l]
  <2>1. clauses[w[1]] = {Negation(l), w[2]} /\ w[1] \in Alive
    BY <1>2, ClauseFacts DEF ListsComplete
  <2> QED BY <1>1, <2>1
<1>3. CASE w \in wlist[l]
  BY <1>1, <1>3 DEF ListsComplete
<1> QED BY <1>2, <1>3

\* Two bound variables never have the same reason: each would have been bound
\* before the other.
LEMMA ReasonsDiffer ==
    ASSUME IInv, NEW u \in Vars, NEW v \in Vars, model[u] # 0, model[v] # 0,
           reason[u] # Nil, reason[u] = reason[v]
    PROVE  u = v
<1>1. PICK i \in DOMAIN trail : VarOf(trail[i]) = u
  BY DEF IInv, TrailMatchesModel, TrailVars
<1>2. PICK j \in DOMAIN trail : VarOf(trail[j]) = v
  BY DEF IInv, TrailMatchesModel, TrailVars
<1>3. /\ trail[i] \in clauses[reason[u]] /\ trail[j] \in clauses[reason[u]]
      /\ \A l \in clauses[reason[u]] \ {trail[j]} :
            \E k \in 1 .. j - 1 : trail[k] = Negation(l)
  BY <1>1, <1>2 DEF IInv, ReasonsImply
<1>4. trail[i] = trail[j]
  <2> SUFFICES ASSUME trail[i] # trail[j] PROVE FALSE
    OBVIOUS
  <2>1. PICK k \in 1 .. j - 1 : trail[k] = Negation(trail[i])
    BY <1>3
  <2>2. k \in DOMAIN trail /\ trail[i] \in Lits
    BY <1>2, InvFacts
  <2>3. k = i
    BY <2>1, <2>2, LitFacts DEF IInv, TrailMatchesModel
  <2> QED BY <2>1, <2>2, <2>3, LitFacts
<1> QED BY <1>1, <1>2, <1>4

-----------------------------------------------------------------------------
(* Nothing is missed.                                                      *)

\* Propagation is over, and no literal is about to be bound.
Settled == pc # "unify" /\ \A i \in DOMAIN trail : GoneThrough(i)

\* Then a living clause with a false watched literal has a true one.
LEMMA FalseWatched ==
    ASSUME IInv, CompleteInv, Settled, status # "Unsat", NEW c \in Alive,
           NEW l \in {watched[c][1], watched[c][2]}, IsFalse(l)
    PROVE  \E k \in clauses[c] : LitStatus(k) = "Sat"
<1>1. c \in ClauseIds /\ l \in Lits /\ l \in clauses[c]
  BY ClauseFacts
<1>2. Negation(l) \in Lits /\ Negation(Negation(l)) = l
  BY <1>1, LitFacts
<1>3. PICK i \in DOMAIN trail : trail[i] = Negation(l)
  BY <1>1, InvFacts, TrailFacts DEF IInv
<1>4. \A w \in wlistBin[Negation(l)] \union wlist[Negation(l)] : LitStatus(w[2]) = "Sat"
  <2>1. WatchersBlocked
    BY DEF CompleteInv
  <2>2. \A w \in DoneBin(i) \union Done(i) : LitStatus(w[2]) = "Sat"
    BY <2>1 DEF WatchersBlocked, Blocks, Settled
  <2>3. DoneBin(i) = wlistBin[trail[i]] /\ Done(i) = wlist[trail[i]]
    BY DEF DoneBin, Done, Settled
  <2> QED BY <1>3, <2>2, <2>3
<1>5. \E w \in wlistBin[Negation(l)] \union wlist[Negation(l)] : w[1] = c
  <2>1. CASE Cardinality(clauses[c]) = 2
    BY <1>1, <2>1 DEF CompleteInv, ListsComplete
  <2>2. CASE Cardinality(clauses[c]) # 2
    <3>1. IsWatched(c)
      BY <2>2 DEF CompleteInv, ListsComplete
    <3>2. \E i2 \in {1, 2} : watched[c][i2] = l
      OBVIOUS
    <3> QED BY <3>1, <3>2 DEF IsWatched
  <2> QED BY <2>1, <2>2
<1>6. PICK w \in wlistBin[Negation(l)] \union wlist[Negation(l)] : w[1] = c
  BY <1>5
<1>7. w[2] \in clauses[c]
  BY <1>2, <1>6, WatcherFacts DEF CompleteInv
<1> QED BY <1>4, <1>6, <1>7

\* When every variable is bound, every living clause is true.
LEMMA AliveTrue ==
    ASSUME IInv, CompleteInv, Settled, status # "Unsat", NEW c \in Alive,
           \A v \in Vars : model[v] # 0
    PROVE  \E k \in clauses[c] : LitStatus(k) = "Sat"
<1> DEFINE l == watched[c][1]
<1>1. c \in ClauseIds /\ l \in clauses[c] /\ l \in Lits
  BY ClauseFacts
<1>2. LitStatus(l) = "Sat" \/ IsFalse(l)
  <2>1. VarOf(l) \in Vars
    BY <1>1, LitFacts
  <2> QED BY <1>1, <2>1, InvFacts, StatusFacts DEF IsFalse
<1> QED BY <1>1, <1>2, FalseWatched

\* The answer Sat: what the solver holds represents what the client gave.
LEMMA AllSatisfied ==
    ASSUME IInv, CompleteInv, Settled, status # "Unsat", \A v \in Vars : model[v] # 0
    PROVE  SatAll([v \in Vars |-> model[v] > 0], Question)
<1> DEFINE a == [v \in Vars |-> model[v] > 0]
<1>1. ASSUME NEW l \in Lits, LitStatus(l) = "Sat" PROVE Holds(a, l)
  <2>1. VarOf(l) \in Vars /\ IsPositive(l) \in BOOLEAN
    BY LitFacts
  <2>2. (model[VarOf(l)] > 0) = IsPositive(l)
    BY <1>1, <2>1 DEF LitStatus
  <2>3. a[VarOf(l)] = (model[VarOf(l)] > 0)
    BY <2>1
  <2> HIDE DEF a
  <2> QED BY <2>2, <2>3 DEF Holds
<1> HIDE DEF a
<1>2. formula \in SUBSET Clauses /\ assumed \in Clauses
  BY DEF IInv, TypeOK
<1>3. ASSUME NEW C \in formula PROVE SatClause(a, C)
  <2>1. C \subseteq Lits
    BY <1>2 DEF Clauses
  <2>2. \E l \in C : LitStatus(l) = "Sat"
    <3>1. CASE \E c \in ClauseIds : lbd[c] = 0 /\ clauses[c] \subseteq C
      <4>1. PICK c \in ClauseIds : lbd[c] = 0 /\ clauses[c] \subseteq C
        BY <3>1
      <4>2. c \in Alive
        BY <4>1 DEF Alive
      <4> QED BY <4>1, <4>2, AliveTrue
    <3>2. CASE \E l \in C : LitStatus(l) = "Sat" /\ Level(VarOf(l)) = 1
      BY <3>2
    <3> QED BY <3>1, <3>2 DEF CompleteInv, FormulaHeld, Held, Settled
  <2> QED BY <1>1, <2>1, <2>2 DEF SatClause
<1>4. ASSUME NEW l \in assumed PROVE SatClause(a, {l})
  BY <1>1, <1>2 DEF CompleteInv, AssumedTrue, SatClause, Clauses
<1>5. SatAll(a, Question)
  BY <1>3, <1>4 DEF SatAll, Question, UnitClauses
<1> QED BY <1>5 DEF a

\* An unbound variable is not missing from the queue.
LEMMA QueueComplete ==
    ASSUME CompleteInv, pc # "unify"
    PROVE  \A v \in Vars : model[v] = 0 => v \in queue
BY DEF CompleteInv, UnboundQueued

-----------------------------------------------------------------------------
(* What a step that changes little preserves.                              *)

LEMMA SameBound ==
    ASSUME IInv, CompleteInv, UNCHANGED <<model, trail, reason, assumed>>
    PROVE  /\ \A l : LitStatus(l)' = LitStatus(l)
           /\ \A v : Level(v)' = Level(v)
           /\ AssumedTrue' /\ OneDecisionPerLevel'
<1>1. \A l : LitStatus(l)' = LitStatus(l)
  BY DEF LitStatus
<1>2. \A v : Level(v)' = Level(v)
  BY DEF Level
<1>3. AssumedTrue'
  BY <1>1, <1>2 DEF CompleteInv, AssumedTrue
<1>4. OneDecisionPerLevel'
  BY <1>2 DEF CompleteInv, OneDecisionPerLevel
<1> QED BY <1>1, <1>2, <1>3, <1>4

LEMMA SameDatabase ==
    ASSUME CompleteInv, UNCHANGED <<clauses, watched, lbd, learned, wlist, wlistBin>>
    PROVE  ListsComplete' /\ ClauseIds' = ClauseIds /\ Alive' = Alive
<1>1. ClauseIds' = ClauseIds
  BY DEF ClauseIds
<1>2. Alive' = Alive
  BY <1>1 DEF Alive
<1>3. \A c : IsWatched(c)' = IsWatched(c)
  BY DEF IsWatched
<1> QED BY <1>1, <1>2, <1>3 DEF CompleteInv, ListsComplete

\* No lock is lost and no clause dies.
LEMMA LocksKept ==
    ASSUME IInv, CompleteInv, UNCHANGED <<clauses, lbd>>, locked \subseteq locked',
           Alive \subseteq Alive', \A v \in Vars : reason'[v] \in {Nil, reason[v]}
    PROVE  LocksInv'
<1>1. ClauseIds' = ClauseIds
  BY DEF ClauseIds
<1> QED BY <1>1 DEF CompleteInv, LocksInv, ReasonsAlive

\* The clauses of the client stay held when those of the solver stay, as long
\* as the facts do.
LEMMA HeldKept ==
    ASSUME IInv, CompleteInv,
           \A c \in ClauseIds : c \in ClauseIds' /\ clauses'[c] = clauses[c] /\ lbd'[c] = lbd[c],
           Assumable = {} =>
             /\ \A l \in Lits : LitStatus(l) = "Sat" /\ Level(VarOf(l)) = 1 =>
                   LitStatus(l)' = "Sat" /\ Level(VarOf(l))' = 1
             /\ status = "Unsat" => status' = "Unsat"
             /\ pc = "unify" /\ ret = "append" =>
                   \/ \A l \in Lits : l = lit => LitStatus(l)' = "Sat" /\ Level(VarOf(l))' = 1
                   \/ UNCHANGED <<pc, ret, lit>>
    PROVE  \A C \in formula : Held(C)'
<1> SUFFICES ASSUME NEW C \in formula PROVE Held(C)'
  OBVIOUS
<1>1. C \subseteq Lits
  BY DEF IInv, TypeOK, Clauses
<1>2. Held(C)
  BY DEF CompleteInv, FormulaHeld
<1>3. CASE \E c \in ClauseIds : lbd[c] = 0 /\ clauses[c] \subseteq C
  BY <1>3 DEF Held
<1>4. CASE Assumable = {} /\ status = "Unsat"
  BY <1>4 DEF Held
<1>5. CASE Assumable = {} /\ \E l \in C : LitStatus(l) = "Sat" /\ Level(VarOf(l)) = 1
  <2>1. PICK l \in C : LitStatus(l) = "Sat" /\ Level(VarOf(l)) = 1
    BY <1>5
  <2>2. LitStatus(l)' = "Sat" /\ Level(VarOf(l))' = 1
    BY <1>1, <1>5, <2>1
  <2> QED BY <1>5, <2>2 DEF Held
<1>6. CASE Assumable = {} /\ pc = "unify" /\ ret = "append" /\ lit \in C
  <2>1. CASE \A l \in Lits : l = lit => LitStatus(l)' = "Sat" /\ Level(VarOf(l))' = 1
    <3>1. \E l \in C : LitStatus(l)' = "Sat" /\ Level(VarOf(l))' = 1
      BY <1>1, <1>6, <2>1
    <3> QED BY <1>6, <3>1 DEF Held
  <2>2. CASE UNCHANGED <<pc, ret, lit>>
    BY <1>6, <2>2 DEF Held
  <2> QED BY <1>6, <2>1, <2>2
<1> QED BY <1>2, <1>3, <1>4, <1>5, <1>6 DEF Held

\* A watcher is visited when it was already, or when it is seen to be blocked.
LEMMA BlockedKept ==
    ASSUME IInv, CompleteInv, UNCHANGED <<model, trail>>, pc # "unify",
           status = "Unsat" => status' = "Unsat",
           \A i \in DOMAIN trail : \A w \in DoneBin(i)' \union Done(i)' :
               \/ w \in DoneBin(i) \union Done(i)
               \/ LitStatus(w[2]) = "Sat" /\ Level(VarOf(w[2])) <= Level(VarOf(trail[i]))
    PROVE  WatchersBlocked'
<1> SUFFICES ASSUME status' # "Unsat", NEW i \in DOMAIN trail,
                    NEW w \in DoneBin(i)' \union Done(i)'
             PROVE  /\ LitStatus(w[2])' = "Sat"
                    /\ Level(VarOf(w[2]))' <= Level(VarOf(trail[i]))'
  BY DEF WatchersBlocked, Blocks
<1>1. LitStatus(w[2]) = "Sat" /\ Level(VarOf(w[2])) <= Level(VarOf(trail[i]))
  BY DEF CompleteInv, WatchersBlocked, Blocks
<1> QED BY <1>1 DEF LitStatus, Level

\* A step that leaves the bindings, the clauses and the lists alone.
Quiet ==
    /\ UNCHANGED <<model, trail, reason, locked>>
    /\ UNCHANGED <<clauses, watched, lbd, learned, wlist, wlistBin>>
    /\ UNCHANGED <<formula, assumed>>

LEMMA QuietStep ==
    ASSUME IInv, CompleteInv, Quiet, pc # "unify", status = "Unsat" => status' = "Unsat"
    PROVE  ListsComplete' /\ LocksInv' /\ FormulaHeld' /\ AssumedTrue' /\ OneDecisionPerLevel'
<1>1. /\ UNCHANGED <<model, trail, reason, locked>>
      /\ UNCHANGED <<clauses, watched, lbd, learned, wlist, wlistBin>>
      /\ UNCHANGED <<formula, assumed>>
  BY DEF Quiet
<1>2. ListsComplete' /\ ClauseIds' = ClauseIds /\ Alive' = Alive
  BY <1>1, SameDatabase
<1>3. /\ AssumedTrue' /\ OneDecisionPerLevel'
      /\ \A l : LitStatus(l)' = LitStatus(l)
      /\ \A v : Level(v)' = Level(v)
  BY <1>1, SameBound
<1>4. LocksInv'
  BY <1>1, <1>2, LocksKept
<1>5. FormulaHeld'
  BY <1>1, <1>2, <1>3, HeldKept DEF FormulaHeld
<1> QED BY <1>2, <1>3, <1>4, <1>5

LEMMA SatKept ==
    ASSUME CompleteInv,
           result' # "Sat" \/ UNCHANGED <<result, lastModel, formula, assumed>>
    PROVE  SatSound'
BY DEF CompleteInv, SatSound, Question

-----------------------------------------------------------------------------
(* The steps that bind nothing.                                            *)

LEMMA SolveComplete ==
    ASSUME IInv, CompleteInv, Solve
    PROVE  CompleteInv'
<1>1. /\ Quiet /\ UNCHANGED <<ret, queue, lastModel, formula, assumed, model, trail>>
      /\ UNCHANGED <<wlist, wlistBin, learned, lvl>>
      /\ pc = "idle"
      /\ \/ status = "Unsat" /\ result' = "Unsat" /\ status' = status /\ pc' = pc
         \/ status # "Unsat" /\ status' = "Indet" /\ result' = "none" /\ pc' = "search"
  BY DEF Solve, Quiet, bindingVars, dbVars
<1>2. ListsComplete' /\ LocksInv' /\ FormulaHeld' /\ AssumedTrue' /\ OneDecisionPerLevel'
  BY <1>1, QuietStep
<1>3. StatusInv' /\ PanicsWhenEmpty' /\ UnboundQueued' /\ LevelsOpen'
  BY <1>1 DEF CompleteInv, StatusInv, PanicsWhenEmpty, UnboundQueued, LevelsOpen
<1>4. WatchersBlocked'
  <2>1. \A i \in DOMAIN trail : DoneBin(i)' = DoneBin(i) /\ Done(i)' = Done(i)
    BY <1>1 DEF DoneBin, Done, GoneThrough
  <2> QED BY <1>1, <2>1, BlockedKept
<1> QED BY <1>1, <1>2, <1>3, <1>4, SatKept DEF CompleteInv

\* The steps of propagate that only go through the lists.
LEMMA StartLitComplete ==
    ASSUME IInv, CompleteInv, StartLit,
           UNCHANGED <<learnVars, assumptions, ctlVars, cert, clientVars>>
    PROVE  CompleteInv'
<1>1. /\ Quiet /\ UNCHANGED <<model, trail, queue, wlist, wlistBin, ret, status, lvl, ptr>>
      /\ UNCHANGED <<result, lastModel, formula, assumed>>
      /\ pc = "propagate" /\ pc' = "visit"
      /\ todoBin' = wlistBin[trail[ptr]] /\ todo' = wlist[trail[ptr]]
  BY DEF StartLit, Quiet, bindingVars, dbVars, ctlVars, clientVars
<1>2. ListsComplete' /\ LocksInv' /\ FormulaHeld' /\ AssumedTrue' /\ OneDecisionPerLevel'
  BY <1>1, QuietStep
<1>3. StatusInv' /\ PanicsWhenEmpty' /\ UnboundQueued'
  BY <1>1 DEF CompleteInv, StatusInv, PanicsWhenEmpty, UnboundQueued
<1>4. LevelsOpen'
  BY <1>1 DEF CompleteInv, LevelsOpen, Level
<1>5. WatchersBlocked'
  <2>1. \A i \in DOMAIN trail : DoneBin(i)' \subseteq DoneBin(i) /\ Done(i)' \subseteq Done(i)
    BY <1>1 DEF DoneBin, Done, GoneThrough
  <2> QED BY <1>1, <2>1, BlockedKept
<1> QED BY <1>1, <1>2, <1>3, <1>4, <1>5, SatKept DEF CompleteInv

LEMMA EndLitComplete ==
    ASSUME IInv, CompleteInv, EndLit,
           UNCHANGED <<learnVars, assumptions, ctlVars, cert, clientVars>>
    PROVE  CompleteInv'
<1>1. /\ Quiet /\ UNCHANGED <<model, trail, queue, wlist, wlistBin, ret, status, lvl>>
      /\ UNCHANGED <<result, lastModel, formula, assumed>>
      /\ pc = "visit" /\ pc' = "propagate" /\ todoBin = {} /\ todo = {} /\ ptr' = ptr + 1
  BY DEF EndLit, Quiet, bindingVars, dbVars, ctlVars, clientVars
<1>2. ListsComplete' /\ LocksInv' /\ FormulaHeld' /\ AssumedTrue' /\ OneDecisionPerLevel'
  BY <1>1, QuietStep
<1>3. StatusInv' /\ PanicsWhenEmpty' /\ UnboundQueued'
  BY <1>1 DEF CompleteInv, StatusInv, PanicsWhenEmpty, UnboundQueued
<1>4. LevelsOpen'
  BY <1>1 DEF CompleteInv, LevelsOpen, Level
<1>5. WatchersBlocked'
  <2>1. \A i \in DOMAIN trail : i < ptr + 1 => i < ptr \/ i = ptr
    BY InvFacts
  <2>2. \A i \in DOMAIN trail : DoneBin(i)' \subseteq DoneBin(i) /\ Done(i)' \subseteq Done(i)
    BY <1>1, <2>1 DEF DoneBin, Done, GoneThrough
  <2> QED BY <1>1, <2>2, BlockedKept
<1> QED BY <1>1, <1>2, <1>3, <1>4, <1>5, SatKept DEF CompleteInv

\* Conflict analysis reads the bindings and the clauses.
LEMMA ConflictComplete ==
    ASSUME IInv, CompleteInv, Conflict \/ ResolveReason
    PROVE  CompleteInv'
<1>1. /\ Quiet /\ UNCHANGED <<model, trail, queue, wlist, wlistBin, ret, status, lvl>>
      /\ UNCHANGED <<result, lastModel, formula, assumed>>
      /\ pc \in {"conflict", "learn"} /\ pc' = "learn"
  BY DEF Conflict, ResolveReason, Resolve, Quiet, bindingVars, dbVars, ctlVars, clientVars
<1>2. ListsComplete' /\ LocksInv' /\ FormulaHeld' /\ AssumedTrue' /\ OneDecisionPerLevel'
  BY <1>1, QuietStep
<1>3. StatusInv' /\ PanicsWhenEmpty' /\ UnboundQueued'
  BY <1>1 DEF CompleteInv, StatusInv, PanicsWhenEmpty, UnboundQueued
<1>4. LevelsOpen'
  BY <1>1 DEF CompleteInv, LevelsOpen, Level
<1>5. WatchersBlocked'
  <2>1. \A i \in DOMAIN trail : DoneBin(i)' = DoneBin(i) /\ Done(i)' = Done(i)
    BY <1>1 DEF DoneBin, Done, GoneThrough, Level
  <2> QED BY <1>1, <2>1, BlockedKept
<1> QED BY <1>1, <1>2, <1>3, <1>4, <1>5, SatKept DEF CompleteInv

\* Unsat is answered.
LEMMA SetUnsatComplete ==
    ASSUME IInv, CompleteInv, LearnFalse \/ UnitConflict
    PROVE  CompleteInv'
<1>1. /\ Quiet /\ UNCHANGED <<model, trail, queue>>
      /\ pc \in {"learn", "conflict"}
      /\ status' = "Unsat" /\ result' = "Unsat" /\ pc' = "idle" /\ ret' = "none"
  BY DEF LearnFalse, UnitConflict, OnlyAssumed, Learnt, SetUnsat, Quiet, bindingVars, dbVars
<1>2. ListsComplete' /\ LocksInv' /\ FormulaHeld' /\ AssumedTrue' /\ OneDecisionPerLevel'
  BY <1>1, QuietStep
<1>3. /\ StatusInv' /\ PanicsWhenEmpty' /\ UnboundQueued' /\ LevelsOpen' /\ WatchersBlocked'
  BY <1>1 DEF CompleteInv, StatusInv, PanicsWhenEmpty, UnboundQueued, LevelsOpen,
              WatchersBlocked
<1> QED BY <1>1, <1>2, <1>3, SatKept DEF CompleteInv

\* The end of AppendClause and of Assume: propagation is over, or found a
\* conflict.
LEMMA CallReturnsComplete ==
    ASSUME IInv, CompleteInv, CallReturns
    PROVE  CompleteInv'
<1>1. /\ Quiet /\ UNCHANGED <<model, trail, wlist, wlistBin, result, lastModel, formula, assumed>>
      /\ pc' = "idle" /\ ret' = "none"
      /\ queue' \in {queue, OrderHeap(model)}
      /\ \/ pc = "propagate" /\ ptr > Len(trail) /\ status' = status
         \/ pc = "conflict" /\ status' = "Unsat"
  BY DEF CallReturns, Propagated, Quiet, dbVars, clientVars
<1>2. ListsComplete' /\ LocksInv' /\ FormulaHeld' /\ AssumedTrue' /\ OneDecisionPerLevel'
  BY <1>1, QuietStep
<1>3. StatusInv' /\ PanicsWhenEmpty' /\ LevelsOpen'
  BY <1>1 DEF StatusInv, PanicsWhenEmpty, LevelsOpen
<1>4. UnboundQueued'
  BY <1>1 DEF CompleteInv, UnboundQueued, OrderHeap
<1>5. WatchersBlocked'
  <2>1. CASE status' = "Unsat"
    BY <2>1 DEF WatchersBlocked
  <2>2. CASE pc = "propagate" /\ ptr > Len(trail) /\ status' = status
    <3>1. \A i \in DOMAIN trail : i < ptr
      BY <2>2, InvFacts
    <3>2. \A i \in DOMAIN trail : DoneBin(i)' = DoneBin(i) /\ Done(i)' = Done(i)
      BY <1>1, <2>2, <3>1 DEF DoneBin, Done, GoneThrough
    <3> QED BY <1>1, <2>2, <3>2, BlockedKept
  <2> QED BY <1>1, <2>1, <2>2
<1> QED BY <1>1, <1>2, <1>3, <1>4, <1>5, SatKept DEF CompleteInv

-----------------------------------------------------------------------------
(* Decisions.                                                              *)

\* What chooseLit preserves, and the answer Sat when nothing is left to decide:
\* reduceLearned may have run before it.
LEMMA ChooseLitComplete ==
    ASSUME IInv, CompleteInv, Settled, status = "Indet", DecidesOnly,
           ListsComplete', LocksInv', \A l \in Lits : wlist'[l] \subseteq wlist[l],
           NEW q, q \subseteq Vars, \A v \in Vars : model[v] = 0 => v \in q,
           NEW level, level = 2 \/ (level = lvl + 1 /\ \E v \in Vars : Level(v) = lvl),
           ChooseLit(q, model, polarity, level)
    PROVE  CompleteInv'
<1>0. /\ UNCHANGED <<model, trail, reason, clauses, lbd, wlistBin, formula, assumed>>
      /\ ClauseIds' = ClauseIds /\ pc # "unify"
  BY DEF DecidesOnly, Settled, ClauseIds
<1>1. /\ AssumedTrue' /\ OneDecisionPerLevel'
      /\ \A l : LitStatus(l)' = LitStatus(l)
      /\ \A v : Level(v)' = Level(v)
  BY <1>0, SameBound
<1>2. FormulaHeld'
  BY <1>0, <1>1, HeldKept DEF FormulaHeld
<1>3. pc' \in {"idle", "unify"} /\ WatchersBlocked'
  <2>1. pc' \in {"idle", "unify"}
    BY DEF ChooseLit
  <2>2. \A i \in DOMAIN trail : trail[i] \in Lits
    BY InvFacts
  <2>3. \A i \in DOMAIN trail : DoneBin(i)' \subseteq DoneBin(i) /\ Done(i)' \subseteq Done(i)
    BY <1>0, <2>2 DEF DoneBin, Done, Settled
  <2> QED BY <1>0, <2>1, <2>3, BlockedKept
<1>4. CASE /\ {v \in q : model[v] = 0} = {}
           /\ queue' = {} /\ status' = "Sat" /\ result' = "Sat" /\ lastModel' = model
           /\ pc' = "idle" /\ ret' = "none"
  <2>1. \A v \in Vars : model[v] # 0
    BY <1>4
  <2>2. SatSound'
    <3>1. SatAll([v \in Vars |-> model[v] > 0], Question)
      BY <2>1, AllSatisfied
    <3>2. [v \in Vars |-> lastModel'[v] > 0] = [v \in Vars |-> model[v] > 0]
      BY <1>4
    <3>3. Question' = Question
      BY <1>0 DEF Question
    <3> QED BY <1>4, <2>1, <3>1, <3>2, <3>3 DEF SatSound
  <2>3. StatusInv' /\ PanicsWhenEmpty' /\ LevelsOpen' /\ UnboundQueued'
    BY <1>0, <1>4, <2>1 DEF StatusInv, PanicsWhenEmpty, LevelsOpen, UnboundQueued
  <2> QED BY <1>1, <1>2, <1>3, <2>2, <2>3 DEF CompleteInv
<1>5. CASE \E v \in {x \in q : model[x] = 0} :
             /\ queue' = {x \in q : model[x] = 0} \ {v}
             /\ lit' = SignedLit(v, ~ polarity[v])
             /\ lvl' = level
             /\ pc' = "unify" /\ ret' = "branch"
             /\ UNCHANGED <<status, result, lastModel>>
  <2>1. PICK v \in {x \in q : model[x] = 0} :
             /\ queue' = {x \in q : model[x] = 0} \ {v}
             /\ lit' = SignedLit(v, ~ polarity[v])
             /\ lvl' = level
             /\ pc' = "unify" /\ ret' = "branch"
             /\ UNCHANGED <<status, result, lastModel>>
    BY <1>5
  <2>2. StatusInv' /\ PanicsWhenEmpty' /\ SatSound'
    BY <1>0, <2>1, SatKept DEF StatusInv, PanicsWhenEmpty
  <2>3. v \in Vars /\ model[v] = 0 /\ VarOf(lit') = v
    <3>1. (~ polarity[v]) \in BOOLEAN
      OBVIOUS
    <3> QED BY <2>1, <3>1, SignedLitFacts
  <2>4. UnboundQueued'
    BY <1>0, <2>1, <2>3 DEF UnboundQueued
  <2>5. LevelsOpen'
    <3>1. reason'[VarOf(lit')] = Nil
      BY <1>0, <2>3 DEF IInv, UnifyInv
    <3>2. level = 2 \/ \E x \in Vars : Level(x)' = level - 1
      BY <1>1, InvFacts
    <3> QED BY <2>1, <3>1, <3>2 DEF LevelsOpen
  <2> QED BY <1>1, <1>2, <1>3, <2>2, <2>4, <2>5 DEF CompleteInv
<1> QED BY <1>4, <1>5 DEF ChooseLit

\* Propagation is over when propagate returns nil.
LEMMA PropagatedSettled ==
    ASSUME IInv, Propagated
    PROVE  Settled
<1>1. \A i \in DOMAIN trail : i < ptr
  BY InvFacts DEF Propagated
<1> QED BY <1>1 DEF Propagated, Settled, GoneThrough

LEMMA SearchComplete ==
    ASSUME IInv, CompleteInv, Search
    PROVE  CompleteInv'
<1>1. /\ pc = "search" /\ ChooseLit(queue, model, polarity, 2) /\ DecidesOnly
      /\ UNCHANGED <<reason, locked, clauses, watched, lbd, learned, wlist, wlistBin>>
  BY DEF Search, DecidesOnly, dbVars, learnVars, propVars
<1>2. Settled
  BY <1>1 DEF Settled, GoneThrough
<1>3. status = "Indet"
  BY <1>1 DEF CompleteInv, StatusInv
<1>4. ListsComplete' /\ LocksInv'
  BY <1>1, SameDatabase, LocksKept
<1>5. queue \subseteq Vars /\ \A v \in Vars : model[v] = 0 => v \in queue
  BY <1>1, QueueComplete DEF IInv, TypeOK
<1> QED BY <1>1, <1>2, <1>3, <1>4, <1>5, ChooseLitComplete

LEMMA UnitPropagatedComplete ==
    ASSUME IInv, CompleteInv, UnitPropagated
    PROVE  CompleteInv'
<1>1. /\ Propagated /\ ret = "unit"
      /\ ChooseLit(OrderHeap(model), model, polarity, 2) /\ DecidesOnly
      /\ UNCHANGED <<reason, locked, clauses, watched, lbd, learned, wlist, wlistBin>>
  BY DEF UnitPropagated, DecidesOnly, dbVars, learnVars, propVars
<1>2. Settled
  BY <1>1, PropagatedSettled
<1>3. status = "Indet"
  BY <1>1 DEF CompleteInv, StatusInv, Propagated
<1>4. ListsComplete' /\ LocksInv'
  BY <1>1, SameDatabase, LocksKept
<1>5. OrderHeap(model) \subseteq Vars /\ \A v \in Vars : model[v] = 0 => v \in OrderHeap(model)
  BY DEF OrderHeap
<1> QED BY <1>1, <1>2, <1>3, <1>4, <1>5, ChooseLitComplete

\* What reduceLearned removes is neither a reason nor binary, and is in both the
\* lists unwatchClause looks into.
LEMMA RemovedFacts ==
    ASSUME IInv, CompleteInv, NEW H, H \subseteq learned, NEW c \in Removed(H)
    PROVE  /\ c \in Alive /\ lbd[c] > 2 /\ Cardinality(clauses[c]) # 2
           /\ IsWatched(c)
           /\ \A v \in Vars : reason[v] # c
<1>1. c \in learned /\ lbd[c] > 2 /\ c \notin locked
  BY DEF Removed
<1>2. c \in Alive /\ c \in ClauseIds /\ lbd[c] \in Nat
  BY <1>1, ClauseFacts DEF Alive
<1>3. Cardinality(clauses[c]) # 2
  BY <1>1, <1>2 DEF CompleteInv, LocksInv
<1>4. \A v \in Vars : reason[v] # c
  <2>1. c # Nil
    BY <1>2 DEF ClauseIds, Nil
  <2> QED BY <1>1, <1>3, <2>1 DEF CompleteInv, LocksInv
<1> QED BY <1>1, <1>2, <1>3, <1>4 DEF CompleteInv, ListsComplete

LEMMA ReduceComplete ==
    ASSUME IInv, CompleteInv, NEW H, H \subseteq learned,
           wlist' = Unwatch(Removed(H)), learned' = learned \ Removed(H),
           UNCHANGED <<reason, locked, clauses, watched, lbd, wlistBin>>
    PROVE  ListsComplete' /\ LocksInv'
<1>1. ClauseIds' = ClauseIds
  BY DEF ClauseIds
<1>2. \A c \in Removed(H) : lbd[c] # 0
  BY RemovedFacts
<1>3. Alive' = Alive \ Removed(H)
  BY <1>1, <1>2 DEF Alive
<1>4. \A l \in Lits : wlist'[l] = {w \in wlist[l] :
          ~ (w[1] \in Removed(H) /\ Negation(l) \in {watched[w[1]][1], watched[w[1]][2]})}
  BY DEF Unwatch
<1>5. ASSUME NEW c \in Alive', Cardinality(clauses[c]) # 2 PROVE IsWatched(c)'
  <2> SUFFICES ASSUME NEW i \in {1, 2}
               PROVE  \E w \in wlist'[Negation(watched[c][i])] : w[1] = c
    BY DEF IsWatched
  <2>1. c \in Alive /\ c \notin Removed(H) /\ c \in ClauseIds
    BY <1>3, ClauseFacts
  <2>2. PICK w \in wlist[Negation(watched[c][i])] : w[1] = c
    BY <1>5, <2>1 DEF CompleteInv, ListsComplete, IsWatched
  <2>3. Negation(watched[c][i]) \in Lits
    <3>1. watched[c][1] \in Lits /\ watched[c][2] \in Lits
      BY <2>1, ClauseFacts
    <3> QED BY <3>1, LitFacts
  <2> QED BY <1>4, <2>1, <2>2, <2>3
<1>6. ASSUME NEW c \in Alive', Cardinality(clauses[c]) = 2
      PROVE  \A l \in clauses[c] : \E w \in wlistBin[Negation(l)] : w[1] = c
  BY <1>3, <1>6 DEF CompleteInv, ListsComplete
<1>7. ASSUME NEW l \in Lits, NEW w \in wlistBin[l] PROVE w[1] \in Alive'
  <2>1. w[1] \in Alive /\ Cardinality(clauses[w[1]]) = 2
    BY ClauseFacts DEF CompleteInv, ListsComplete
  <2>2. w[1] \notin Removed(H)
    BY <2>1, RemovedFacts
  <2> QED BY <1>3, <2>1, <2>2
<1>8. ASSUME NEW l \in Lits, NEW w \in wlist'[l]
      PROVE  w[1] \in Alive' /\ w[2] \in clauses[w[1]]
  <2>1. /\ w \in wlist[l]
        /\ ~ (w[1] \in Removed(H) /\ Negation(l) \in {watched[w[1]][1], watched[w[1]][2]})
    BY <1>4
  <2>2. Negation(l) \in {watched[w[1]][1], watched[w[1]][2]}
    BY <2>1 DEF IInv, ListsInv
  <2>3. w[1] \in Alive /\ w[2] \in clauses[w[1]]
    BY <2>1 DEF CompleteInv, ListsComplete
  <2> QED BY <1>3, <2>1, <2>2, <2>3
<1>9. ListsComplete'
  BY <1>5, <1>6, <1>7, <1>8 DEF ListsComplete
<1>10. LocksInv'
  <2>1. \A v \in Vars : reason[v] # Nil => reason[v] \in Alive'
    BY <1>3, RemovedFacts DEF CompleteInv, LocksInv, ReasonsAlive
  <2> QED BY <1>1, <2>1 DEF CompleteInv, LocksInv, ReasonsAlive
<1> QED BY <1>9, <1>10

LEMMA BranchComplete ==
    ASSUME IInv, CompleteInv, Branch
    PROVE  CompleteInv'
<1>1. /\ Propagated /\ pc = "propagate" /\ ret = "branch" /\ DecidesOnly
      /\ UNCHANGED <<reason, locked, clauses, watched, lbd, wlistBin>>
  BY DEF Branch, Propagated, DecidesOnly, dbVars, learnVars, propVars
<1>2. Settled
  BY <1>1, PropagatedSettled
<1>3. status = "Indet"
  BY <1>1 DEF CompleteInv, StatusInv
<1>4. queue \subseteq Vars /\ \A v \in Vars : model[v] = 0 => v \in queue
  BY <1>1, QueueComplete DEF IInv, TypeOK
<1>5. lvl + 1 = 2 \/ \E v \in Vars : Level(v) = lvl
  BY <1>1, InvFacts DEF CompleteInv, LevelsOpen
<1>6. CASE /\ ChooseLit(queue, model, polarity, lvl + 1)
           /\ UNCHANGED <<learned, nbMax, idxReduce, wlist>>
  <2>1. ListsComplete' /\ LocksInv'
    BY <1>1, <1>6, SameDatabase, LocksKept
  <2> QED BY <1>1, <1>2, <1>3, <1>4, <1>5, <1>6, <2>1, ChooseLitComplete
<1>7. ASSUME NEW H \in FirstHalves, ReducePanics(H), pc' = "panic",
             UNCHANGED <<queue, status, result, lastModel, lvl, lit, ret,
                         learned, nbMax, idxReduce, wlist>>
      PROVE  CompleteInv'
  <2>1. Quiet /\ UNCHANGED <<model, trail, queue, wlist, wlistBin, status, result, lastModel>>
    BY <1>1, <1>7 DEF Quiet, DecidesOnly
  <2>2. ListsComplete' /\ LocksInv' /\ FormulaHeld' /\ AssumedTrue' /\ OneDecisionPerLevel'
    BY <1>1, <2>1, QuietStep
  <2>3. learned = {}
    <3>1. H \subseteq learned
      BY <1>7 DEF FirstHalves, kSubset
    <3>2. \A c \in Removed(H) : IsWatched(c)
      BY <3>1, RemovedFacts
    <3> QED BY <1>7, <3>2 DEF ReducePanics
  <2>4. StatusInv' /\ PanicsWhenEmpty' /\ UnboundQueued' /\ LevelsOpen'
    BY <1>1, <1>3, <1>4, <1>7, <2>1, <2>3
       DEF StatusInv, PanicsWhenEmpty, UnboundQueued, LevelsOpen
  <2>5. WatchersBlocked'
    <3>1. \A i \in DOMAIN trail : DoneBin(i)' = DoneBin(i) /\ Done(i)' = Done(i)
      BY <1>2, <1>7, <2>1 DEF DoneBin, Done, GoneThrough, Settled
    <3> QED BY <1>1, <2>1, <3>1, BlockedKept
  <2> QED BY <1>1, <2>1, <2>2, <2>4, <2>5, SatKept DEF CompleteInv, DecidesOnly
<1>8. ASSUME NEW H \in FirstHalves, ReduceLearned(H, nbConflicts),
             ChooseLit(queue, model, polarity, lvl + 1)
      PROVE  CompleteInv'
  <2>1. H \subseteq learned /\ wlist' = Unwatch(Removed(H)) /\ learned' = learned \ Removed(H)
    BY <1>8 DEF FirstHalves, ReduceLearned, kSubset
  <2>2. ListsComplete' /\ LocksInv'
    BY <1>1, <2>1, ReduceComplete
  <2>3. \A l \in Lits : wlist'[l] \subseteq wlist[l]
    BY <2>1 DEF Unwatch
  <2> QED BY <1>1, <1>2, <1>3, <1>4, <1>5, <1>8, <2>2, <2>3, ChooseLitComplete
<1> QED BY <1>6, <1>7, <1>8 DEF Branch

-----------------------------------------------------------------------------
(* Binding one more literal.                                               *)

\* A step that binds l at the current level, as its decision or not.
BindsMore(l) ==
    /\ trail' = Append(trail, l)
    /\ model' = [model EXCEPT ![VarOf(l)] = LvlToSignedLvl(l, lvl)]
    /\ \A v \in Vars \ {VarOf(l)} : reason'[v] = reason[v]

\* A decision opens the next level, what has a reason is bound at an open one.
InOrder(l) ==
    lvl > 1 =>
        IF reason'[VarOf(l)] = Nil
        THEN /\ \A v \in Vars : Level(v) < lvl
             /\ lvl = 2 \/ \E v \in Vars : Level(v) = lvl - 1
        ELSE \E v \in Vars : Level(v) = lvl

LEMMA BindFacts ==
    ASSUME IInv, NEW l \in Lits, model[VarOf(l)] = 0, BindsMore(l)
    PROVE  /\ Len(trail) \in Nat /\ DOMAIN trail = 1 .. Len(trail)
           /\ DOMAIN trail' = 1 .. Len(trail) + 1
           /\ \A i \in 1 .. Len(trail) : trail'[i] = trail[i] /\ VarOf(trail[i]) # VarOf(l)
           /\ trail'[Len(trail) + 1] = l /\ VarOf(l) \in Vars
           /\ model'[VarOf(l)] # 0
           /\ \A v \in Vars : v # VarOf(l) => model'[v] = model[v]
           /\ \A v \in Vars : Level(v)' = IF v = VarOf(l) THEN lvl ELSE Level(v)
           /\ LitStatus(l)' = "Sat"
           /\ \A k \in Lits : LitStatus(k) # "Indet" =>
                LitStatus(k)' = LitStatus(k) /\ Level(VarOf(k))' = Level(VarOf(k))
<1>1. /\ Len(trail) \in Nat /\ DOMAIN trail = 1 .. Len(trail)
      /\ trail \in Seq(Lits) /\ model \in [Vars -> Int] /\ lvl \in Nat \ {0}
      /\ VarOf(l) \in Vars
  BY InvFacts, LitFacts
<1>2. /\ DOMAIN trail' = 1 .. Len(trail) + 1
      /\ \A i \in 1 .. Len(trail) : trail'[i] = trail[i]
      /\ trail'[Len(trail) + 1] = l
  BY <1>1, AppendProperties DEF BindsMore
<1>3. \A i \in 1 .. Len(trail) : VarOf(trail[i]) # VarOf(l)
  BY <1>1, InvFacts DEF IInv, TrailMatchesModel, TrailVars
<1>4. \A v \in Vars : model'[v] = IF v = VarOf(l) THEN LvlToSignedLvl(l, lvl) ELSE model[v]
  BY <1>1 DEF BindsMore
<1>5. LvlToSignedLvl(l, lvl) # 0 /\ (LvlToSignedLvl(l, lvl) > 0 <=> IsPositive(l))
  BY <1>1 DEF LvlToSignedLvl
<1>6. \A v \in Vars : Level(v)' = IF v = VarOf(l) THEN lvl ELSE Level(v)
  BY <1>1, <1>4 DEF Level, Abs, LvlToSignedLvl
<1>7. LitStatus(l)' = "Sat"
  <2>1. IsPositive(l) \in BOOLEAN
    BY LitFacts
  <2> QED BY <1>1, <1>4, <1>5, <2>1 DEF LitStatus
<1>8. ASSUME NEW k \in Lits, LitStatus(k) # "Indet"
      PROVE  LitStatus(k)' = LitStatus(k) /\ Level(VarOf(k))' = Level(VarOf(k))
  <2>1. VarOf(k) \in Vars /\ VarOf(k) # VarOf(l)
    BY <1>8, LitFacts DEF LitStatus
  <2> QED BY <1>4, <1>6, <2>1 DEF LitStatus
<1> QED BY <1>1, <1>2, <1>3, <1>4, <1>5, <1>6, <1>7, <1>8

LEMMA DecisionsKept ==
    ASSUME IInv, CompleteInv, NEW l \in Lits, model[VarOf(l)] = 0, BindsMore(l), InOrder(l),
           \A v \in Vars : Level(v) <= lvl
    PROVE  OneDecisionPerLevel'
<1> DEFINE n == Len(trail)
           u == VarOf(l)
<1>1. /\ n \in Nat /\ DOMAIN trail = 1 .. n /\ DOMAIN trail' = 1 .. n + 1
      /\ \A i \in 1 .. n : trail'[i] = trail[i] /\ VarOf(trail[i]) # u
      /\ trail'[n + 1] = l /\ u \in Vars
      /\ \A v \in Vars : Level(v)' = IF v = u THEN lvl ELSE Level(v)
  BY BindFacts
<1>2. /\ \A i \in 1 .. n : trail[i] \in Lits /\ VarOf(trail[i]) \in Vars
      /\ \A v \in Vars : Level(v) \in Nat /\ (Level(v) = 0 <=> model[v] = 0)
      /\ lvl \in Nat \ {0}
  BY <1>1, InvFacts
<1> HIDE DEF n, u
<1>3. \A i \in 1 .. n :
        /\ Level(VarOf(trail[i]))' = Level(VarOf(trail[i]))
        /\ reason'[VarOf(trail'[i])] = reason[VarOf(trail[i])]
  BY <1>1, <1>2 DEF BindsMore, u
<1>4. \A i \in DOMAIN trail' : i = n + 1 => Level(VarOf(trail[i]))' = lvl
  BY <1>1 DEF u
<1>5. \A v \in Vars : Level(v) > 0 =>
        1 <= n /\ Level(v) <= Level(VarOf(trail[n]))
  <2> SUFFICES ASSUME NEW v \in Vars, Level(v) > 0
               PROVE  1 <= n /\ Level(v) <= Level(VarOf(trail[n]))
    OBVIOUS
  <2>1. PICK j \in 1 .. n : VarOf(trail[j]) = v
    BY <1>1, <1>2 DEF IInv, TrailMatchesModel, TrailVars
  <2>2. n \in 1 .. n /\ j <= n
    BY <1>1
  <2> QED BY <1>1, <2>1, <2>2 DEF IInv, TrailMatchesModel
<1>6. \A i \in 1 .. n : Level(VarOf(trail[i])) \in 1 .. lvl
  <2>1. \A i \in 1 .. n : model[VarOf(trail[i])] # 0
    BY <1>1, <1>2 DEF IInv, TrailMatchesModel, TrailVars
  <2>2. \A i \in 1 .. n : Level(VarOf(trail[i])) <= lvl
    BY <1>2
  <2> QED BY <1>2, <2>1, <2>2
<1> SUFFICES ASSUME NEW i \in 1 .. n + 1, Level(VarOf(trail[i]))' > 1
             PROVE  /\ (reason'[VarOf(trail'[i])] = Nil)
                         <=> (i = 1 \/ Level(VarOf(trail[i - 1]))' < Level(VarOf(trail[i]))')
                    /\ i = 1 => Level(VarOf(trail[i]))' = 2
                    /\ i > 1 => Level(VarOf(trail[i]))' <= Level(VarOf(trail[i - 1]))' + 1
  BY <1>1 DEF OneDecisionPerLevel
<1>7. CASE i \in 1 .. n
  <2>1. i = 1 \/ i - 1 \in 1 .. n
    BY <1>1, <1>7
  <2>2. /\ (reason[VarOf(trail[i])] = Nil)
             <=> (i = 1 \/ Level(VarOf(trail[i - 1])) < Level(VarOf(trail[i])))
        /\ i = 1 => Level(VarOf(trail[i])) = 2
        /\ i > 1 => Level(VarOf(trail[i])) <= Level(VarOf(trail[i - 1])) + 1
    BY <1>1, <1>3, <1>7 DEF CompleteInv, OneDecisionPerLevel
  <2>3. \A j \in 1 .. n : Level(VarOf(trail[j]))' = Level(VarOf(trail[j]))
    BY <1>3
  <2> QED BY <1>3, <1>7, <2>1, <2>2, <2>3
<1>8. CASE i = n + 1
  <2>1. Level(VarOf(trail[i]))' = lvl /\ VarOf(trail'[i]) = u /\ i - 1 = n
    BY <1>1, <1>4, <1>8 DEF u
  <2>2. n >= 1 => i - 1 \in 1 .. n /\ Level(VarOf(trail[i - 1]))' = Level(VarOf(trail[i - 1]))
    BY <1>1, <1>3, <2>1
  <2>3. CASE reason'[u] = Nil
    <3>1. /\ \A v \in Vars : Level(v) < lvl
          /\ lvl = 2 \/ \E v \in Vars : Level(v) = lvl - 1
      BY <2>1, <2>3 DEF InOrder, u
    <3>2. n >= 1 => Level(VarOf(trail[i - 1])) < lvl /\ Level(VarOf(trail[i - 1])) >= 1
      BY <1>1, <1>2, <1>6, <2>2, <3>1
    <3>3. n >= 1 => lvl <= Level(VarOf(trail[i - 1])) + 1
      <4>1. ASSUME n >= 1, NEW v \in Vars, Level(v) = lvl - 1
            PROVE  lvl <= Level(VarOf(trail[i - 1])) + 1
        BY <1>2, <1>5, <1>6, <2>1, <2>2, <3>2, <4>1
      <4> QED BY <1>2, <1>6, <2>2, <3>1, <3>2, <4>1
    <3>4. n = 0 => lvl = 2
      BY <1>2, <1>5, <2>1, <3>1
    <3> QED BY <1>1, <1>2, <1>6, <1>8, <2>1, <2>2, <2>3, <3>2, <3>3, <3>4
  <2>4. CASE reason'[u] # Nil
    <3>1. PICK v \in Vars : Level(v) = lvl
      BY <2>1, <2>4 DEF InOrder, u
    <3>2. n >= 1 /\ Level(VarOf(trail[i - 1])) >= lvl
      BY <1>2, <1>5, <2>1, <3>1
    <3>3. Level(VarOf(trail[i - 1])) = lvl
      BY <1>2, <1>6, <2>2, <3>2
    <3> QED BY <1>1, <1>2, <1>8, <2>1, <2>2, <2>4, <3>2, <3>3
  <2> QED BY <2>3, <2>4
<1> QED BY <1>1, <1>7, <1>8

\* What was blocked still is, the new literal is not visited yet.
LEMMA BlockedExtended ==
    ASSUME IInv, CompleteInv, NEW l \in Lits, model[VarOf(l)] = 0, BindsMore(l),
           pc = "unify" => l = lit, status = "Unsat" => status' = "Unsat",
           \/ pc' = "propagate" /\ ptr' = Len(trail) + 1
           \/ pc' = "visit" /\ ptr' \in 1 .. Len(trail),
           \A i \in 1 .. Len(trail) : \A w \in DoneBin(i)' \union Done(i)' :
               \/ w \in DoneBin(i) \union Done(i)
               \/ LitStatus(w[2])' = "Sat" /\ Level(VarOf(w[2]))' <= Level(VarOf(trail[i]))
    PROVE  WatchersBlocked'
<1>1. /\ Len(trail) \in Nat /\ DOMAIN trail = 1 .. Len(trail)
      /\ DOMAIN trail' = 1 .. Len(trail) + 1
      /\ \A i \in 1 .. Len(trail) : trail'[i] = trail[i] /\ VarOf(trail[i]) # VarOf(l)
      /\ \A v \in Vars : Level(v)' = IF v = VarOf(l) THEN lvl ELSE Level(v)
      /\ LitStatus(l)' = "Sat" /\ VarOf(l) \in Vars
      /\ \A k \in Lits : LitStatus(k) # "Indet" =>
           LitStatus(k)' = LitStatus(k) /\ Level(VarOf(k))' = Level(VarOf(k))
  BY BindFacts
<1>2. \A i \in 1 .. Len(trail) : trail[i] \in Lits /\ VarOf(trail[i]) \in Vars
  BY InvFacts
<1>3. \A i \in 1 .. Len(trail) + 1 : i = Len(trail) + 1 => DoneBin(i)' = {} /\ Done(i)' = {}
  BY <1>1 DEF DoneBin, Done, GoneThrough
<1> SUFFICES ASSUME status' # "Unsat", NEW i \in 1 .. Len(trail) + 1,
                    NEW w \in DoneBin(i)' \union Done(i)'
             PROVE  /\ LitStatus(w[2])' = "Sat"
                    /\ Level(VarOf(w[2]))' <= Level(VarOf(trail[i]))'
  BY <1>1 DEF WatchersBlocked, Blocks
<1>4. i \in 1 .. Len(trail)
  BY <1>1, <1>3
<1>5. Level(VarOf(trail[i]))' = Level(VarOf(trail[i]))
  BY <1>1, <1>2, <1>4
<1>6. CASE LitStatus(w[2])' = "Sat" /\ Level(VarOf(w[2]))' <= Level(VarOf(trail[i]))
  BY <1>5, <1>6
<1>7. CASE w \in DoneBin(i) \union Done(i)
  <2>1. w[2] \in Lits
    BY <1>2, <1>4, <1>7, ClauseFacts DEF DoneBin, Done
  <2>2. Blocks(w[2], trail[i])
    BY <1>1, <1>4, <1>7 DEF CompleteInv, WatchersBlocked
  <2>3. CASE LitStatus(w[2]) = "Sat" /\ Level(VarOf(w[2])) <= Level(VarOf(trail[i]))
    BY <1>1, <1>5, <2>1, <2>3
  <2>4. CASE w[2] = l /\ lvl <= Level(VarOf(trail[i]))
    <3>1. \A k \in Lits : k = l => LitStatus(k)' = "Sat" /\ Level(VarOf(k))' = lvl
      BY <1>1
    <3> QED BY <1>5, <2>1, <2>4, <3>1
  <2> QED BY <2>2, <2>3, <2>4 DEF Blocks
<1> QED BY <1>4, <1>6, <1>7

LEMMA UnifyLiteralComplete ==
    ASSUME IInv, CompleteInv, UnifyLiteral
    PROVE  CompleteInv'
<1>1. /\ pc = "unify" /\ pc' = "propagate" /\ ptr' = Len(trail) + 1
      /\ trail' = Append(trail, lit)
      /\ model' = [model EXCEPT ![VarOf(lit)] = LvlToSignedLvl(lit, lvl)]
      /\ UNCHANGED <<reason, locked, queue, lvl, ret, status>>
      /\ UNCHANGED <<clauses, watched, lbd, learned, wlist, wlistBin>>
      /\ UNCHANGED <<result, lastModel, formula, assumed>>
  BY DEF UnifyLiteral, dbVars, clientVars
<1>2. lit \in Lits /\ model[VarOf(lit)] = 0
  BY <1>1 DEF IInv, UnifyInv
<1>3. PICK l \in Lits : l = lit
  BY <1>2
<1>4. BindsMore(l) /\ model[VarOf(l)] = 0
  BY <1>1, <1>2, <1>3 DEF BindsMore
<1>5. InOrder(l) /\ \A v \in Vars : Level(v) <= lvl
  BY <1>1, <1>3 DEF IInv, UnifyInv, LevelsInv, CompleteInv, LevelsOpen, InOrder
<1>6. /\ VarOf(l) \in Vars /\ model'[VarOf(l)] # 0
      /\ \A v \in Vars : v # VarOf(l) => model'[v] = model[v]
      /\ \A v \in Vars : Level(v)' = IF v = VarOf(l) THEN lvl ELSE Level(v)
      /\ LitStatus(l)' = "Sat"
      /\ \A k \in Lits : LitStatus(k) # "Indet" =>
           LitStatus(k)' = LitStatus(k) /\ Level(VarOf(k))' = Level(VarOf(k))
  BY <1>4, BindFacts
<1>7. OneDecisionPerLevel'
  BY <1>4, <1>5, DecisionsKept
<1>8. ListsComplete' /\ ClauseIds' = ClauseIds /\ Alive' = Alive
  BY <1>1, SameDatabase
<1>9. LocksInv'
  BY <1>1, <1>8, LocksKept
<1>10. WatchersBlocked'
  <2>1. /\ DOMAIN trail = 1 .. Len(trail)
        /\ \A i \in 1 .. Len(trail) : trail'[i] = trail[i]
    BY <1>4, BindFacts
  <2>2. \A i \in 1 .. Len(trail) : DoneBin(i)' \subseteq DoneBin(i) /\ Done(i)' \subseteq Done(i)
    BY <1>1, <2>1 DEF DoneBin, Done, GoneThrough
  <2> QED BY <1>1, <1>3, <1>4, <2>2, BlockedExtended
<1>11. FormulaHeld'
  <2>1. ret = "append" => lvl = 1
    BY <1>1 DEF IInv, UnifyInv
  <2>2. ret = "append" =>
          \A k \in Lits : k = lit => LitStatus(k)' = "Sat" /\ Level(VarOf(k))' = 1
    <3>1. ret = "append" => LitStatus(l)' = "Sat" /\ Level(VarOf(l))' = 1
      BY <1>6, <2>1
    <3>2. \A k \in Lits : k = l /\ ret = "append" =>
            LitStatus(k)' = "Sat" /\ Level(VarOf(k))' = 1
      BY <3>1
    <3> QED BY <1>3, <3>2
  <2> QED BY <1>1, <1>6, <1>8, <2>2, HeldKept DEF FormulaHeld
<1>12. AssumedTrue'
  <2>1. assumed \subseteq Lits
    BY DEF IInv, TypeOK, Clauses
  <2> QED BY <1>1, <1>6, <2>1 DEF CompleteInv, AssumedTrue
<1>13. StatusInv' /\ PanicsWhenEmpty'
  BY <1>1 DEF CompleteInv, StatusInv, PanicsWhenEmpty
<1>14. UnboundQueued'
  BY <1>1, <1>3, <1>6 DEF CompleteInv, UnboundQueued
<1>15. LevelsOpen'
  BY <1>1, <1>6 DEF LevelsOpen
<1> QED BY <1>1, <1>7, <1>8, <1>9, <1>10, <1>11, <1>12, <1>13, <1>14, <1>15, SatKept
        DEF CompleteInv

-----------------------------------------------------------------------------
(* Visiting a watcher.                                                     *)

\* What every visit leaves alone.
Visits ==
    /\ pc = "visit"
    /\ UNCHANGED <<queue, clauses, lbd, learned, wlistBin, lvl, ptr, ret, status, lit>>
    /\ UNCHANGED <<result, lastModel, formula, assumed>>

\* The literal at hand, and what is known of the levels.
LEMMA VisitFacts ==
    ASSUME IInv, pc = "visit"
    PROVE  /\ ptr \in 1 .. Len(trail) /\ DOMAIN trail = 1 .. Len(trail)
           /\ trail[ptr] \in Lits /\ Level(VarOf(trail[ptr])) = lvl
           /\ lvl \in Nat \ {0} /\ Len(trail) \in Nat
           /\ \A v \in Vars : Level(v) <= lvl
           /\ \A i \in 1 .. Len(trail) : trail[i] \in Lits /\ (trail[i] = trail[ptr] => i = ptr)
           /\ todoBin \subseteq wlistBin[trail[ptr]] /\ todo \subseteq wlist[trail[ptr]]
<1>1. ptr \in 1 .. Len(trail) /\ DOMAIN trail = 1 .. Len(trail)
  BY InvFacts DEF IInv, VisitInv
<1>2. \A i \in 1 .. Len(trail) : trail[i] = trail[ptr] => i = ptr
  BY <1>1 DEF IInv, TrailMatchesModel
<1> QED BY <1>1, <1>2, InvFacts DEF IInv, VisitInv, LevelsInv

\* A watcher is passed over, kept or moved.
LEMMA PassOver ==
    ASSUME IInv, CompleteInv, Visits, pc' = pc, UNCHANGED <<model, trail, reason, locked>>,
           ListsComplete',
           \A i \in DOMAIN trail : \A w \in DoneBin(i)' \union Done(i)' :
               \/ w \in DoneBin(i) \union Done(i)
               \/ LitStatus(w[2]) = "Sat" /\ Level(VarOf(w[2])) <= Level(VarOf(trail[i]))
    PROVE  CompleteInv'
<1>1. /\ pc = "visit"
      /\ UNCHANGED <<queue, clauses, lbd, learned, wlistBin, lvl, ptr, ret, status, lit>>
      /\ UNCHANGED <<result, lastModel, formula, assumed>>
  BY DEF Visits
<1>2. ClauseIds' = ClauseIds /\ Alive' = Alive
  BY <1>1 DEF ClauseIds, Alive
<1>3. /\ AssumedTrue' /\ OneDecisionPerLevel'
      /\ \A l : LitStatus(l)' = LitStatus(l)
      /\ \A v : Level(v)' = Level(v)
  BY <1>1, SameBound
<1>4. LocksInv'
  BY <1>1, <1>2, LocksKept
<1>5. FormulaHeld'
  BY <1>1, <1>2, <1>3, HeldKept DEF FormulaHeld
<1>6. StatusInv' /\ PanicsWhenEmpty' /\ UnboundQueued'
  BY <1>1 DEF CompleteInv, StatusInv, PanicsWhenEmpty, UnboundQueued
<1>7. LevelsOpen'
  BY <1>1, <1>3 DEF CompleteInv, LevelsOpen
<1>8. WatchersBlocked'
  BY <1>1, BlockedKept
<1> QED BY <1>1, <1>3, <1>4, <1>5, <1>6, <1>7, <1>8, SatKept DEF CompleteInv

\* A conflict is found in a list of the current level.
LEMMA FindConflict ==
    ASSUME IInv, CompleteInv, Visits, pc' = "conflict", UNCHANGED <<model, trail, reason, locked>>,
           ListsComplete', \A l \in Lits : l # trail[ptr] => wlist'[l] = wlist[l]
    PROVE  CompleteInv'
<1>1. /\ pc = "visit"
      /\ UNCHANGED <<queue, clauses, lbd, learned, wlistBin, lvl, ptr, ret, status, lit>>
      /\ UNCHANGED <<result, lastModel, formula, assumed>>
  BY DEF Visits
<1>2. ClauseIds' = ClauseIds /\ Alive' = Alive
  BY <1>1 DEF ClauseIds, Alive
<1>3. /\ AssumedTrue' /\ OneDecisionPerLevel'
      /\ \A l : LitStatus(l)' = LitStatus(l)
      /\ \A v : Level(v)' = Level(v)
  BY <1>1, SameBound
<1>4. LocksInv'
  BY <1>1, <1>2, LocksKept
<1>5. FormulaHeld'
  BY <1>1, <1>2, <1>3, HeldKept DEF FormulaHeld
<1>6. StatusInv' /\ PanicsWhenEmpty' /\ UnboundQueued'
  BY <1>1 DEF CompleteInv, StatusInv, PanicsWhenEmpty, UnboundQueued
<1>7. LevelsOpen'
  BY <1>1, <1>3 DEF CompleteInv, LevelsOpen
<1>8. WatchersBlocked'
  <2>1. ASSUME NEW i \in DOMAIN trail, Level(VarOf(trail[i])) < lvl
        PROVE  i < ptr /\ wlist'[trail[i]] = wlist[trail[i]]
    <3>1. i \in 1 .. Len(trail) /\ trail[i] \in Lits /\ ptr \in 1 .. Len(trail)
          /\ Level(VarOf(trail[ptr])) = lvl /\ lvl \in Nat \ {0}
      BY <1>1, VisitFacts
    <3>2. ~ (i >= ptr)
      BY <1>1, <2>1, <3>1 DEF IInv, VisitInv
    <3>3. trail[i] # trail[ptr]
      BY <1>1, <3>1, <3>2, VisitFacts
    <3> QED BY <3>1, <3>2, <3>3
  <2>2. \A i \in DOMAIN trail : DoneBin(i)' \subseteq DoneBin(i) /\ Done(i)' \subseteq Done(i)
    BY <1>1, <1>3, <2>1 DEF DoneBin, Done, GoneThrough
  <2> QED BY <1>1, <2>2, BlockedKept
<1> QED BY <1>1, <1>3, <1>4, <1>5, <1>6, <1>7, <1>8, SatKept DEF CompleteInv

\* A literal is bound because of a clause.
LEMMA ImplyComplete ==
    ASSUME IInv, CompleteInv, Visits, pc' = pc, NEW c \in Alive, NEW l \in Lits,
           model[VarOf(l)] = 0, Imply(c, l), ListsComplete',
           locked \subseteq locked', c \in locked' \/ Cardinality(clauses[c]) = 2,
           \A i \in 1 .. Len(trail) : \A w \in DoneBin(i)' \union Done(i)' :
               \/ w \in DoneBin(i) \union Done(i)
               \/ LitStatus(w[2])' = "Sat" /\ Level(VarOf(w[2]))' <= Level(VarOf(trail[i]))
    PROVE  CompleteInv'
<1>1. /\ pc = "visit"
      /\ UNCHANGED <<queue, clauses, lbd, learned, wlistBin, lvl, ptr, ret, status, lit>>
      /\ UNCHANGED <<result, lastModel, formula, assumed>>
  BY DEF Visits
<1>2. ClauseIds' = ClauseIds /\ Alive' = Alive /\ c # Nil
  BY <1>1, ClauseFacts DEF ClauseIds, Alive, Nil
<1>3. /\ BindsMore(l) /\ reason'[VarOf(l)] = c
      /\ \A v \in Vars : reason'[v] = IF v = VarOf(l) THEN c ELSE reason[v]
  <2>1. reason \in [Vars -> {Nil} \union ClauseIds] /\ VarOf(l) \in Vars
    BY LitFacts DEF IInv, TypeOK
  <2> QED BY <2>1 DEF Imply, BindsMore
<1>4. /\ ptr \in 1 .. Len(trail) /\ Level(VarOf(trail[ptr])) = lvl
      /\ \A v \in Vars : Level(v) <= lvl
      /\ VarOf(trail[ptr]) \in Vars
  BY <1>1, VisitFacts, LitFacts
<1>5. /\ VarOf(l) \in Vars /\ model'[VarOf(l)] # 0
      /\ \A v \in Vars : v # VarOf(l) => model'[v] = model[v]
      /\ \A v \in Vars : Level(v)' = IF v = VarOf(l) THEN lvl ELSE Level(v)
      /\ \A k \in Lits : LitStatus(k) # "Indet" =>
           LitStatus(k)' = LitStatus(k) /\ Level(VarOf(k))' = Level(VarOf(k))
  BY <1>3, BindFacts
<1>6. OneDecisionPerLevel'
  <2>1. InOrder(l)
    BY <1>2, <1>3, <1>4 DEF InOrder
  <2> QED BY <1>3, <1>4, <2>1, DecisionsKept
<1>7. LocksInv'
  BY <1>1, <1>2, <1>3 DEF CompleteInv, LocksInv, ReasonsAlive
<1>8. FormulaHeld'
  BY <1>1, <1>2, <1>5, HeldKept DEF FormulaHeld
<1>9. AssumedTrue'
  <2>1. assumed \subseteq Lits
    BY DEF IInv, TypeOK, Clauses
  <2> QED BY <1>1, <1>5, <2>1 DEF CompleteInv, AssumedTrue
<1>10. StatusInv' /\ PanicsWhenEmpty' /\ UnboundQueued'
  BY <1>1, <1>5 DEF CompleteInv, StatusInv, PanicsWhenEmpty, UnboundQueued
<1>11. LevelsOpen'
  BY <1>1, <1>5 DEF LevelsOpen
<1>12. WatchersBlocked'
  BY <1>1, <1>3, <1>4, BlockedExtended
<1> QED BY <1>1, <1>6, <1>7, <1>8, <1>9, <1>10, <1>11, <1>12, SatKept DEF CompleteInv

LEMMA VisitBinaryComplete ==
    ASSUME IInv, CompleteInv, NEW w \in todoBin, VisitBinary(w),
           UNCHANGED <<learnVars, assumptions, ctlVars, cert, clientVars>>
    PROVE  CompleteInv'
<1>1. /\ pc = "visit" /\ Visits
      /\ UNCHANGED <<locked, clauses, watched, lbd, learned, wlist, wlistBin, ptr>>
  BY DEF VisitBinary, Visits, dbVars, ctlVars, clientVars
<1>2. ListsComplete'
  BY <1>1, SameDatabase
<1>3. /\ w[1] \in Alive /\ w[2] \in clauses[w[1]] /\ w[2] \in Lits
      /\ Cardinality(clauses[w[1]]) = 2 /\ VarOf(w[2]) \in Vars
  BY <1>1, VisitFacts, WatcherFacts, ClauseFacts DEF CompleteInv
<1>4. CASE ReturnConflict(w[1]) /\ UNCHANGED <<model, trail, reason>>
  BY <1>1, <1>2, <1>4, FindConflict DEF ReturnConflict
<1>5. /\ ptr \in 1 .. Len(trail) /\ DOMAIN trail = 1 .. Len(trail)
      /\ Level(VarOf(trail[ptr])) = lvl /\ \A v \in Vars : Level(v) <= lvl
  BY <1>1, VisitFacts
<1>6. CASE /\ ~ IsFalse(w[2]) /\ LitStatus(w[2]) # "Indet"
           /\ UNCHANGED <<model, trail, reason>>
           /\ todoBin' = todoBin \ {w} /\ UNCHANGED <<todo, confl, pc>>
  <2>1. LitStatus(w[2]) = "Sat" /\ Level(VarOf(w[2])) <= Level(VarOf(trail[ptr]))
    BY <1>3, <1>5, <1>6, InvFacts, StatusFacts DEF IsFalse
  <2>2. \A i \in DOMAIN trail : \A x \in DoneBin(i)' \union Done(i)' :
               \/ x \in DoneBin(i) \union Done(i)
               \/ LitStatus(x[2]) = "Sat" /\ Level(VarOf(x[2])) <= Level(VarOf(trail[i]))
    BY <1>1, <1>6, <2>1 DEF DoneBin, Done, GoneThrough
  <2> QED BY <1>1, <1>2, <1>6, <2>2, PassOver
<1>7. CASE /\ LitStatus(w[2]) = "Indet" /\ Imply(w[1], w[2])
           /\ todoBin' = todoBin \ {w} /\ UNCHANGED <<todo, confl, pc>>
  <2>1. model[VarOf(w[2])] = 0
    BY <1>3, <1>7, InvFacts, StatusFacts
  <2>2. BindsMore(w[2])
    BY <1>7 DEF Imply, BindsMore
  <2>3. LitStatus(w[2])' = "Sat" /\ Level(VarOf(w[2]))' = lvl
        /\ \A i \in 1 .. Len(trail) : trail'[i] = trail[i]
    BY <1>3, <2>1, <2>2, BindFacts
  <2>4. \A i \in 1 .. Len(trail) : \A x \in DoneBin(i)' \union Done(i)' :
               \/ x \in DoneBin(i) \union Done(i)
               \/ LitStatus(x[2])' = "Sat" /\ Level(VarOf(x[2]))' <= Level(VarOf(trail[i]))
    <3>1. \A i \in 1 .. Len(trail) : \A x \in DoneBin(i)' \union Done(i)' :
               \/ x \in DoneBin(i) \union Done(i)
               \/ x = w /\ i = ptr
      BY <1>1, <1>7, <2>3 DEF DoneBin, Done, GoneThrough
    <3>2. Level(VarOf(w[2]))' <= lvl
      BY <2>3, InvFacts
    <3> QED BY <1>5, <2>3, <3>1, <3>2
  <2> QED BY <1>1, <1>2, <1>3, <1>7, <2>1, <2>4, ImplyComplete
<1>8. CASE ~ IsFalse(w[2]) /\ pc' = pc
  BY <1>6, <1>7, <1>8 DEF VisitBinary
<1> QED BY <1>4, <1>8 DEF VisitBinary

\* The watcher kept is in its list with another blocking literal; the other
\* lists are the same.
LEMMA KeepComplete ==
    ASSUME IInv, CompleteInv, Visits, NEW w \in todo,
           NEW p, p = Swapped(w[1], Negation(trail[ptr])), KeepWatcher(w, trail[ptr], p)
    PROVE  /\ ListsComplete'
           /\ \A l \in Lits : l # trail[ptr] => wlist'[l] = wlist[l]
           /\ wlist'[trail[ptr]] = (wlist[trail[ptr]] \ {w}) \union {<<w[1], p[1]>>}
<1> DEFINE a == trail[ptr]
           c == w[1]
<1>1. /\ pc = "visit" /\ UNCHANGED <<clauses, lbd, learned, wlistBin>>
      /\ ClauseIds' = ClauseIds /\ Alive' = Alive
  BY DEF Visits, ClauseIds, Alive
<1>2. /\ a \in Lits /\ w \in wlist[a] /\ c \in ClauseIds
      /\ p[1] \in clauses[c]
      /\ {p[1], p[2]} = {watched[c][1], watched[c][2]}
  BY <1>1, LongFacts
<1>3. c \in Alive
  BY <1>2 DEF CompleteInv, ListsComplete
<1>4. /\ wlist \in [Lits -> SUBSET Watchers] /\ watched \in Seq(Lits \X Lits)
      /\ DOMAIN watched = ClauseIds
  BY DEF IInv, TypeOK, ClauseIds
<1>5. /\ \A l \in Lits : wlist'[l] = IF l = a THEN (wlist[l] \ {w}) \union {<<c, p[1]>>}
                                     ELSE wlist[l]
      /\ \A d \in ClauseIds : watched'[d] = IF d = c THEN p ELSE watched[d]
  <2>1. wlist' = [wlist EXCEPT ![a] = (@ \ {w}) \union {<<c, p[1]>>}]
    BY DEF KeepWatcher
  <2>2. watched' = [watched EXCEPT ![c] = p]
    BY DEF KeepWatcher
  <2> HIDE DEF a, c
  <2> QED BY <1>2, <1>4, <2>1, <2>2
<1> HIDE DEF a
<1>6. \A l \in Lits : \A d : (\E x \in wlist[l] : x[1] = d) => \E x \in wlist'[l] : x[1] = d
  <2> SUFFICES ASSUME NEW l \in Lits, NEW x \in wlist[l]
               PROVE  \E y \in wlist'[l] : y[1] = x[1]
    OBVIOUS
  <2>1. CASE x = w /\ l = a
    <3>1. <<c, p[1]>> \in wlist'[l] /\ <<c, p[1]>>[1] = x[1]
      BY <1>5, <2>1
    <3> QED BY <3>1
  <2>2. CASE ~ (x = w /\ l = a)
    BY <1>5, <2>2
  <2> QED BY <2>1, <2>2
<1>7. ASSUME NEW d \in Alive, Cardinality(clauses[d]) # 2 PROVE IsWatched(d)'
  <2> SUFFICES ASSUME NEW i \in {1, 2}
               PROVE  \E x \in wlist'[Negation(watched'[d][i])] : x[1] = d
    BY DEF IsWatched
  <2>1. d \in ClauseIds /\ watched[d][1] \in Lits /\ watched[d][2] \in Lits
    BY ClauseFacts
  <2>2. IsWatched(d)
    BY <1>7 DEF CompleteInv, ListsComplete
  <2>3. \E j \in {1, 2} : watched'[d][i] = watched[d][j]
    BY <1>2, <1>5, <2>1
  <2>4. PICK j \in {1, 2} : watched'[d][i] = watched[d][j]
    BY <2>3
  <2>5. watched[d][j] \in Lits
    BY <2>1
  <2>6. Negation(watched[d][j]) \in Lits
    BY <2>5, LitFacts
  <2>7. \E x \in wlist[Negation(watched[d][j])] : x[1] = d
    BY <2>2 DEF IsWatched
  <2> QED BY <1>6, <2>4, <2>6, <2>7
<1>8. \A l \in Lits : \A x \in wlist'[l] : x[1] \in Alive /\ x[2] \in clauses[x[1]]
  <2>1. \A l \in Lits : \A x \in wlist'[l] : x \in wlist[l] \/ x = <<c, p[1]>>
    BY <1>5, ZenonT(30)
  <2>2. \A x : x = <<c, p[1]>> => x[1] \in Alive /\ x[2] \in clauses[x[1]]
    BY <1>2, <1>3
  <2>3. \A l \in Lits : \A x \in wlist[l] : x[1] \in Alive /\ x[2] \in clauses[x[1]]
    BY DEF CompleteInv, ListsComplete
  <2> QED BY <2>1, <2>2, <2>3
<1>9. ListsComplete'
  BY <1>1, <1>7, <1>8 DEF CompleteInv, ListsComplete
<1> QED BY <1>2, <1>5, <1>9 DEF a

\* The watcher moved is in the list of the negation of the literal that is now
\* watched, which is not on the trail.
LEMMA MoveComplete ==
    ASSUME IInv, CompleteInv, Visits, NEW w \in todo,
           NEW p, p = Swapped(w[1], Negation(trail[ptr])),
           NEW k \in Free(w[1]), MoveWatcher(w, trail[ptr], p, k)
    PROVE  /\ ListsComplete'
           /\ \A i \in DOMAIN trail :
                wlist'[trail[i]] = IF i = ptr THEN wlist[trail[i]] \ {w} ELSE wlist[trail[i]]
<1> DEFINE a == trail[ptr]
           c == w[1]
<1>1. /\ pc = "visit" /\ UNCHANGED <<clauses, lbd, learned, wlistBin>>
      /\ ClauseIds' = ClauseIds /\ Alive' = Alive
  BY DEF Visits, ClauseIds, Alive
<1>2. /\ a \in Lits /\ Negation(a) \in Lits /\ w \in wlist[a] /\ c \in ClauseIds
      /\ p[1] \in clauses[c] /\ p[1] \in Lits /\ p[1] # Negation(a) /\ p[2] = Negation(a)
      /\ {p[1], p[2]} = {watched[c][1], watched[c][2]}
      /\ \A x \in wlist[a] : x[1] = c => x = w
  BY <1>1, LongFacts
<1>3. c \in Alive
  BY <1>2 DEF CompleteInv, ListsComplete
<1>4. /\ wlist \in [Lits -> SUBSET Watchers] /\ watched \in Seq(Lits \X Lits)
      /\ DOMAIN watched = ClauseIds
  BY DEF IInv, TypeOK, ClauseIds
<1>5. /\ k \in clauses[c] /\ k \in Lits /\ ~ IsFalse(k) /\ k \notin {p[1], p[2]}
      /\ Negation(k) \in Lits /\ Negation(Negation(k)) = k
  <2>1. k \in clauses[c] /\ ~ IsFalse(k) /\ k \notin {watched[c][1], watched[c][2]}
    BY DEF Free
  <2>2. k \in Lits
    BY <1>2, <2>1, ClauseFacts
  <2> QED BY <1>2, <2>1, <2>2, LitFacts
<1>6. Negation(k) # a /\ Negation(p[1]) \in Lits /\ Negation(p[1]) # a
  BY <1>2, <1>5, LitFacts
<1>7. /\ \A l \in Lits : wlist'[l] = IF l = a THEN wlist[l] \ {w}
                                     ELSE IF l = Negation(k) THEN wlist[l] \union {<<c, p[1]>>}
                                     ELSE wlist[l]
      /\ \A d \in ClauseIds : watched'[d] = IF d = c THEN <<p[1], k>> ELSE watched[d]
  <2>1. wlist' = [wlist EXCEPT ![a] = @ \ {w}, ![Negation(k)] = @ \union {<<c, p[1]>>}]
    BY DEF MoveWatcher
  <2>2. watched' = [watched EXCEPT ![c] = <<p[1], k>>]
    BY DEF MoveWatcher
  <2> HIDE DEF a, c
  <2>3. \A l \in Lits : wlist'[l] = IF l = a THEN wlist[l] \ {w}
                                     ELSE IF l = Negation(k) THEN wlist[l] \union {<<c, p[1]>>}
                                     ELSE wlist[l]
    BY <1>2, <1>4, <1>5, <1>6, <2>1
  <2>4. \A d \in ClauseIds : watched'[d] = IF d = c THEN <<p[1], k>> ELSE watched[d]
    BY <1>2, <1>4, <2>2
  <2> QED BY <2>3, <2>4
<1>8. \A i \in DOMAIN trail :
        wlist'[trail[i]] = IF i = ptr THEN wlist[trail[i]] \ {w} ELSE wlist[trail[i]]
  <2> SUFFICES ASSUME NEW i \in DOMAIN trail
               PROVE wlist'[trail[i]] = IF i = ptr THEN wlist[trail[i]] \ {w} ELSE wlist[trail[i]]
    OBVIOUS
  <2>1. i \in 1 .. Len(trail) /\ trail[i] \in Lits /\ (trail[i] = a <=> i = ptr)
    BY <1>1, VisitFacts
  <2>2. trail[i] # Negation(k)
    BY <1>5, InvFacts, TrailFacts DEF IInv
  <2> QED BY <1>7, <2>1, <2>2
<1> HIDE DEF a
<1>9. \A l \in Lits : \A d : d # c /\ (\E x \in wlist[l] : x[1] = d) => \E x \in wlist'[l] : x[1] = d
  BY <1>7
<1>10. ASSUME NEW d \in Alive, Cardinality(clauses[d]) # 2 PROVE IsWatched(d)'
  <2> SUFFICES ASSUME NEW i \in {1, 2}
               PROVE  \E x \in wlist'[Negation(watched'[d][i])] : x[1] = d
    BY DEF IsWatched
  <2>1. d \in ClauseIds /\ watched[d][1] \in Lits /\ watched[d][2] \in Lits
    BY ClauseFacts
  <2>2. \A j \in {1, 2} : \E x \in wlist[Negation(watched[d][j])] : x[1] = d
    BY <1>10 DEF CompleteInv, ListsComplete, IsWatched
  <2>3. CASE d # c
    <3>1. watched[d][i] \in Lits
      BY <2>1
    <3>2. Negation(watched[d][i]) \in Lits /\ watched'[d][i] = watched[d][i]
      BY <1>7, <2>1, <2>3, <3>1, LitFacts
    <3> QED BY <1>9, <2>2, <2>3, <3>2
  <2>4. CASE d = c /\ i = 1
    <3>1. watched'[d][i] = p[1] /\ \E j \in {1, 2} : watched[d][j] = p[1]
      BY <1>2, <1>7, <2>4
    <3>2. PICK x \in wlist[Negation(p[1])] : x[1] = d
      BY <2>2, <3>1
    <3>3. x \in wlist'[Negation(p[1])]
      BY <1>6, <1>7
    <3> QED BY <3>1, <3>2, <3>3
  <2>5. CASE d = c /\ i = 2
    <3>1. watched'[d][i] = k
      BY <1>2, <1>7, <2>5
    <3>2. <<c, p[1]>> \in wlist'[Negation(k)] /\ <<c, p[1]>>[1] = d
      BY <1>5, <1>6, <1>7, <2>5
    <3> QED BY <3>1, <3>2
  <2> QED BY <2>3, <2>4, <2>5
<1>11. \A l \in Lits : \A x \in wlist'[l] : x[1] \in Alive /\ x[2] \in clauses[x[1]]
  <2>1. \A l \in Lits : \A x \in wlist'[l] : x \in wlist[l] \/ x = <<c, p[1]>>
    BY <1>7, ZenonT(30)
  <2>2. \A x : x = <<c, p[1]>> => x[1] \in Alive /\ x[2] \in clauses[x[1]]
    BY <1>2, <1>3
  <2>3. \A l \in Lits : \A x \in wlist[l] : x[1] \in Alive /\ x[2] \in clauses[x[1]]
    BY DEF CompleteInv, ListsComplete
  <2> QED BY <2>1, <2>2, <2>3
<1>12. ListsComplete'
  BY <1>1, <1>10, <1>11 DEF CompleteInv, ListsComplete
<1> QED BY <1>8, <1>12 DEF a

LEMMA VisitLongComplete ==
    ASSUME IInv, CompleteInv, NEW w \in todo, VisitLong(w),
           UNCHANGED <<learnVars, assumptions, ctlVars, cert, clientVars>>
    PROVE  CompleteInv'
<1> DEFINE p == Swapped(w[1], Negation(trail[ptr]))
<1>1. /\ pc = "visit" /\ todoBin = {}
      /\ UNCHANGED <<clauses, lbd, learned, ptr, lvl>>
      /\ UNCHANGED <<lit, ret, status, lastModel, result, formula, assumed>>
  BY DEF VisitLong, ctlVars, clientVars
<1>2. /\ ptr \in 1 .. Len(trail) /\ DOMAIN trail = 1 .. Len(trail)
      /\ trail[ptr] \in Lits /\ Level(VarOf(trail[ptr])) = lvl
      /\ lvl \in Nat \ {0}
      /\ \A v \in Vars : Level(v) <= lvl
      /\ \A i \in 1 .. Len(trail) : trail[i] \in Lits /\ (trail[i] = trail[ptr] => i = ptr)
  BY <1>1, VisitFacts
<1>3. /\ w \in wlist[trail[ptr]] /\ w[1] \in Alive
      /\ w[2] \in Lits /\ VarOf(w[2]) \in Vars
      /\ p[1] \in clauses[w[1]] /\ p[1] \in Lits /\ VarOf(p[1]) \in Vars
  <2>1. w \in wlist[trail[ptr]] /\ w[1] \in ClauseIds
    BY <1>1, LongFacts
  <2>2. p[1] \in clauses[w[1]] /\ p[1] \in Lits
    BY <1>1, LongFacts
  <2> HIDE DEF p
  <2> QED BY <1>2, <2>1, <2>2, WatcherFacts, LitFacts DEF CompleteInv
<1>4. PICK q \in {p} : q = p
  OBVIOUS
<1> HIDE DEF p
<1>5. q = Swapped(w[1], Negation(trail[ptr]))
  BY <1>4 DEF p
<1>6. CASE /\ LitStatus(w[2]) = "Sat" /\ todo' = todo \ {w}
           /\ UNCHANGED <<bindingVars, watchVars, confl, pc, todoBin>>
  <2>1. Visits /\ UNCHANGED <<model, trail, reason, locked, watched, wlist, wlistBin>>
    BY <1>1, <1>6 DEF Visits, bindingVars, watchVars
  <2>2. ListsComplete'
    BY <1>1, <2>1, SameDatabase
  <2>3. Level(VarOf(w[2])) <= Level(VarOf(trail[ptr]))
    BY <1>2, <1>3
  <2>4. \A i \in DOMAIN trail : \A x \in DoneBin(i)' \union Done(i)' :
               \/ x \in DoneBin(i) \union Done(i)
               \/ LitStatus(x[2]) = "Sat" /\ Level(VarOf(x[2])) <= Level(VarOf(trail[i]))
    BY <1>1, <1>6, <2>1, <2>3 DEF DoneBin, Done, GoneThrough
  <2> QED BY <1>6, <2>1, <2>2, <2>4, PassOver
<1>7. CASE /\ LitStatus(w[2]) # "Sat" /\ LitStatus(q[1]) = "Sat"
           /\ KeepWatcher(w, trail[ptr], q) /\ todo' = todo \ {w}
           /\ UNCHANGED <<bindingVars, wlistBin, confl, pc, todoBin>>
  <2>1. Visits /\ UNCHANGED <<model, trail, reason, locked>>
    BY <1>1, <1>7 DEF Visits, bindingVars
  <2>2. /\ ListsComplete'
        /\ \A l \in Lits : l # trail[ptr] => wlist'[l] = wlist[l]
        /\ wlist'[trail[ptr]] = (wlist[trail[ptr]] \ {w}) \union {<<w[1], q[1]>>}
    BY <1>5, <1>7, <2>1, KeepComplete
  <2>3. Level(VarOf(q[1])) <= Level(VarOf(trail[ptr]))
    BY <1>2, <1>3, <1>4
  <2>4. \A i \in DOMAIN trail : \A x \in DoneBin(i)' \union Done(i)' :
               \/ x \in DoneBin(i) \union Done(i)
               \/ LitStatus(x[2]) = "Sat" /\ Level(VarOf(x[2])) <= Level(VarOf(trail[i]))
    <3> SUFFICES ASSUME NEW i \in 1 .. Len(trail), NEW x \in DoneBin(i)' \union Done(i)'
                 PROVE  \/ x \in DoneBin(i) \union Done(i)
                        \/ i = ptr /\ x = <<w[1], q[1]>>
      BY <1>2, <1>7, <2>3
    <3>1. CASE i = ptr
      BY <1>1, <1>7, <2>1, <2>2, <3>1 DEF DoneBin, Done, GoneThrough
    <3>2. CASE i # ptr
      <4>1. wlist'[trail[i]] = wlist[trail[i]]
        BY <1>2, <2>2, <3>2
      <4> QED BY <1>1, <1>7, <2>1, <3>2, <4>1 DEF DoneBin, Done, GoneThrough
    <3> QED BY <3>1, <3>2
  <2> QED BY <1>7, <2>1, <2>2, <2>4, PassOver
<1>8. ASSUME NEW k \in Free(w[1]), MoveWatcher(w, trail[ptr], q, k), todo' = todo \ {w},
             UNCHANGED <<bindingVars, wlistBin, confl, pc, todoBin>>
      PROVE  CompleteInv'
  <2>1. Visits /\ UNCHANGED <<model, trail, reason, locked>>
    BY <1>1, <1>8 DEF Visits, bindingVars
  <2>2. /\ ListsComplete'
        /\ \A i \in DOMAIN trail :
             wlist'[trail[i]] = IF i = ptr THEN wlist[trail[i]] \ {w} ELSE wlist[trail[i]]
    BY <1>5, <1>8, <2>1, MoveComplete
  <2>3. \A i \in DOMAIN trail : DoneBin(i)' \subseteq DoneBin(i) /\ Done(i)' \subseteq Done(i)
    BY <1>1, <1>8, <2>1, <2>2 DEF DoneBin, Done, GoneThrough
  <2> QED BY <1>8, <2>1, <2>2, <2>3, PassOver
<1>9. ASSUME KeepWatcher(w, trail[ptr], q), ReturnConflict(w[1]),
             UNCHANGED bindingVars, UNCHANGED wlistBin
      PROVE  CompleteInv'
  <2>1. Visits /\ UNCHANGED <<model, trail, reason, locked>> /\ pc' = "conflict"
    BY <1>1, <1>9 DEF Visits, bindingVars, ReturnConflict
  <2>2. ListsComplete' /\ \A l \in Lits : l # trail[ptr] => wlist'[l] = wlist[l]
    BY <1>5, <1>9, <2>1, KeepComplete
  <2> QED BY <2>1, <2>2, FindConflict
<1>10. ASSUME KeepWatcher(w, trail[ptr], q), ~ IsFalse(q[1]), LitStatus(q[1]) # "Sat",
              Imply(w[1], q[1]), locked' = locked \union {w[1]}, todo' = todo \ {w},
              UNCHANGED <<polarity, queue, confl, pc, todoBin>>, UNCHANGED wlistBin
       PROVE  CompleteInv'
  <2>1. Visits
    BY <1>1, <1>10 DEF Visits
  <2>2. /\ ListsComplete'
        /\ \A l \in Lits : l # trail[ptr] => wlist'[l] = wlist[l]
        /\ wlist'[trail[ptr]] = (wlist[trail[ptr]] \ {w}) \union {<<w[1], q[1]>>}
    BY <1>5, <1>10, <2>1, KeepComplete
  <2>3. model[VarOf(q[1])] = 0 /\ q[1] \in Lits
    BY <1>3, <1>4, <1>10, InvFacts, StatusFacts DEF IsFalse
  <2>4. BindsMore(q[1])
    BY <1>10 DEF Imply, BindsMore
  <2>5. /\ LitStatus(q[1])' = "Sat" /\ Level(VarOf(q[1]))' = lvl
        /\ \A i \in 1 .. Len(trail) : trail'[i] = trail[i]
    BY <2>3, <2>4, <1>3, <1>4, BindFacts
  <2>6. \A i \in 1 .. Len(trail) : \A x \in DoneBin(i)' \union Done(i)' :
               \/ x \in DoneBin(i) \union Done(i)
               \/ LitStatus(x[2])' = "Sat" /\ Level(VarOf(x[2]))' <= Level(VarOf(trail[i]))
    <3>1. ASSUME NEW i \in 1 .. Len(trail), NEW x \in DoneBin(i)' \union Done(i)'
          PROVE  \/ x \in DoneBin(i) \union Done(i)
                 \/ i = ptr /\ x = <<w[1], q[1]>>
      <4>1. CASE i = ptr
        BY <1>1, <1>10, <2>2, <2>5, <4>1 DEF DoneBin, Done, GoneThrough
      <4>2. CASE i # ptr
        <5>1. wlist'[trail[i]] = wlist[trail[i]]
          BY <1>2, <2>2, <4>2
        <5> QED BY <1>1, <1>10, <2>5, <4>2, <5>1 DEF DoneBin, Done, GoneThrough
      <4> QED BY <4>1, <4>2
    <3>2. \A x : x = <<w[1], q[1]>> =>
            LitStatus(x[2])' = "Sat" /\ Level(VarOf(x[2]))' <= Level(VarOf(trail[ptr]))
      BY <1>2, <2>5
    <3> QED BY <3>1, <3>2
  <2> QED BY <1>3, <1>10, <2>1, <2>2, <2>3, <2>6, ImplyComplete
<1> QED BY <1>4, <1>6, <1>7, <1>8, <1>9, <1>10 DEF VisitLong, p

-----------------------------------------------------------------------------
(* Undoing the levels above some level.                                    *)

\* The part of the reason of a step that CleanupBindings preserves.
Cleans(level) ==
    /\ CleanupBindings(level)
    /\ \A v \in Vars : model[v] # 0 /\ Level(v) <= level => reason'[v] = reason[v]
    /\ \A c \in ClauseIds : c \in ClauseIds' /\ clauses'[c] = clauses[c] /\ lbd'[c] = lbd[c]
    /\ formula \subseteq formula' /\ UNCHANGED <<assumed, assumptions>>

LEMMA CleanedFacts ==
    ASSUME IInv, CompleteInv, NEW level \in Nat \ {0}, Cleans(level)
    PROVE  /\ KeptLen(level) \in 0 .. Len(trail) /\ DOMAIN trail = 1 .. Len(trail)
           /\ DOMAIN trail' = 1 .. KeptLen(level)
           /\ \A i \in 1 .. KeptLen(level) :
                /\ trail'[i] = trail[i] /\ trail[i] \in Lits /\ VarOf(trail[i]) \in Vars
                /\ model[VarOf(trail[i])] # 0
                /\ Level(VarOf(trail[i])) <= level
                /\ Level(VarOf(trail[i]))' = Level(VarOf(trail[i]))
           /\ \A k \in Lits : LitStatus(k) # "Indet" /\ Level(VarOf(k)) <= level =>
                LitStatus(k)' = LitStatus(k) /\ Level(VarOf(k))' = Level(VarOf(k))
           /\ \A v \in Vars : model'[v] = IF Level(v) > level THEN 0 ELSE model[v]
           /\ Dropped(level) = {v \in Vars : Level(v) > level}
           /\ AssumedTrue' /\ OneDecisionPerLevel'
<1> DEFINE n == KeptLen(level)
<1>1. /\ n \in 0 .. Len(trail) /\ Len(CleanTrail(level)) = n
      /\ CleanTrail(level) \in Seq(Lits)
      /\ \A i \in 1 .. n : CleanTrail(level)[i] = trail[i]
      /\ \A i \in 1 .. n : Level(VarOf(trail[i])) <= level
      /\ Dropped(level) = {v \in Vars : Level(v) > level}
  BY CleanFacts, InvFacts
<1>2. trail' = CleanTrail(level)
  BY DEF Cleans, CleanupBindings
<1>3. /\ Len(trail) \in Nat /\ DOMAIN trail = 1 .. Len(trail)
      /\ \A i \in 1 .. Len(trail) : trail[i] \in Lits /\ VarOf(trail[i]) \in Vars
      /\ \A v \in Vars : Level(v) \in Nat /\ (Level(v) = 0 <=> model[v] = 0)
      /\ model \in [Vars -> Int]
  BY InvFacts
<1> HIDE DEF n
<1>4. /\ \A v \in Vars : model'[v] = IF Level(v) > level THEN 0 ELSE model[v]
      /\ \A v \in Vars : Level(v)' = IF Level(v) > level THEN 0 ELSE Level(v)
  BY CleanStep DEF Cleans
<1>5. /\ DOMAIN trail' = 1 .. n
      /\ \A i \in 1 .. n :
            /\ trail'[i] = trail[i] /\ i \in 1 .. Len(trail)
            /\ Level(VarOf(trail[i])) <= level
  BY <1>1, <1>2, <1>3
<1>6. \A i \in 1 .. n : model[VarOf(trail[i])] # 0
  BY <1>3, <1>5 DEF IInv, TrailMatchesModel, TrailVars
<1>7. \A i \in 1 .. n : /\ Level(VarOf(trail[i]))' = Level(VarOf(trail[i]))
                        /\ reason'[VarOf(trail'[i])] = reason[VarOf(trail[i])]
  <2>1. \A i \in 1 .. n : Level(VarOf(trail[i]))' = Level(VarOf(trail[i]))
    BY <1>3, <1>4, <1>5
  <2>2. \A i \in 1 .. n : reason'[VarOf(trail[i])] = reason[VarOf(trail[i])]
    BY <1>3, <1>5, <1>6 DEF Cleans
  <2> QED BY <1>5, <2>1, <2>2
<1>8. ASSUME NEW k \in Lits, LitStatus(k) # "Indet", Level(VarOf(k)) <= level
      PROVE  LitStatus(k)' = LitStatus(k) /\ Level(VarOf(k))' = Level(VarOf(k))
  <2>1. VarOf(k) \in Vars
    BY LitFacts
  <2>2. model'[VarOf(k)] = model[VarOf(k)]
    BY <1>3, <1>4, <1>8, <2>1
  <2> QED BY <2>2 DEF LitStatus, Level
<1>9. AssumedTrue'
  <2>1. assumed \subseteq Lits /\ assumed' = assumed
    BY DEF IInv, TypeOK, Clauses, Cleans
  <2> QED BY <1>8, <2>1 DEF CompleteInv, AssumedTrue
<1>10. OneDecisionPerLevel'
  <2> SUFFICES ASSUME NEW i \in 1 .. n, Level(VarOf(trail[i]))' > 1
               PROVE  /\ (reason'[VarOf(trail'[i])] = Nil)
                           <=> (i = 1 \/ Level(VarOf(trail[i - 1]))' < Level(VarOf(trail[i]))')
                      /\ i = 1 => Level(VarOf(trail[i]))' = 2
                      /\ i > 1 => Level(VarOf(trail[i]))' <= Level(VarOf(trail[i - 1]))' + 1
    BY <1>5 DEF OneDecisionPerLevel
  <2>1. i = 1 \/ i - 1 \in 1 .. n
    BY <1>1, <1>3
  <2>2. /\ (reason[VarOf(trail[i])] = Nil)
             <=> (i = 1 \/ Level(VarOf(trail[i - 1])) < Level(VarOf(trail[i])))
        /\ i = 1 => Level(VarOf(trail[i])) = 2
        /\ i > 1 => Level(VarOf(trail[i])) <= Level(VarOf(trail[i - 1])) + 1
    BY <1>3, <1>5, <1>7 DEF CompleteInv, OneDecisionPerLevel
  <2>3. \A j \in 1 .. n : Level(VarOf(trail[j]))' = Level(VarOf(trail[j]))
    BY <1>7
  <2> QED BY <1>7, <2>1, <2>2, <2>3
<1> QED BY <1>1, <1>3, <1>4, <1>5, <1>6, <1>7, <1>8, <1>9, <1>10 DEF n

\* The watchers that block literals that stay true are still blocked.
LEMMA BlockedCleaned ==
    ASSUME IInv, CompleteInv, NEW level \in Nat \ {0}, Cleans(level), pc # "unify",
           status = "Unsat" => status' = "Unsat",
           \A i \in 1 .. KeptLen(level) : \A w \in DoneBin(i)' \union Done(i)' :
               \/ w \in DoneBin(i) \union Done(i)
               \/ pc' = "unify" /\ w[2] = lit' /\ lvl' <= Level(VarOf(trail[i]))
    PROVE  WatchersBlocked'
<1>1. /\ KeptLen(level) \in 0 .. Len(trail) /\ DOMAIN trail = 1 .. Len(trail)
      /\ DOMAIN trail' = 1 .. KeptLen(level)
      /\ \A i \in 1 .. KeptLen(level) :
                /\ trail'[i] = trail[i] /\ trail[i] \in Lits
                /\ Level(VarOf(trail[i])) <= level
                /\ Level(VarOf(trail[i]))' = Level(VarOf(trail[i]))
      /\ \A k \in Lits : LitStatus(k) # "Indet" /\ Level(VarOf(k)) <= level =>
                LitStatus(k)' = LitStatus(k) /\ Level(VarOf(k))' = Level(VarOf(k))
  BY CleanedFacts
<1> SUFFICES ASSUME status' # "Unsat", NEW i \in 1 .. KeptLen(level),
                    NEW w \in DoneBin(i)' \union Done(i)'
             PROVE  \/ /\ LitStatus(w[2])' = "Sat"
                       /\ Level(VarOf(w[2]))' <= Level(VarOf(trail[i]))'
                    \/ pc' = "unify" /\ w[2] = lit' /\ lvl' <= Level(VarOf(trail[i]))'
  BY <1>1 DEF WatchersBlocked, Blocks
<1>2. CASE pc' = "unify" /\ w[2] = lit' /\ lvl' <= Level(VarOf(trail[i]))
  BY <1>1, <1>2
<1>3. CASE w \in DoneBin(i) \union Done(i)
  <2>1. i \in DOMAIN trail /\ w[2] \in Lits /\ VarOf(w[2]) \in Vars
    BY <1>1, <1>3, ClauseFacts DEF DoneBin, Done
  <2>2. LitStatus(w[2]) = "Sat" /\ Level(VarOf(w[2])) <= Level(VarOf(trail[i]))
    BY <1>3, <2>1 DEF CompleteInv, WatchersBlocked, Blocks
  <2>3. Level(VarOf(w[2])) <= level
    <3>1. Level(VarOf(w[2])) \in Nat /\ Level(VarOf(trail[i])) \in Nat
      BY <2>1, <1>1, InvFacts, LitFacts
    <3> QED BY <1>1, <2>2, <3>1
  <2> QED BY <1>1, <2>1, <2>2, <2>3
<1> QED BY <1>2, <1>3

\* The reasons that stay are locked still: they are reasons of no other variable.
LEMMA LocksCleaned ==
    ASSUME IInv, CompleteInv, pc # "unify", NEW level \in Nat \ {0}, NEW v \in Vars,
           CleanReason(level)[v] # Nil
    PROVE  /\ CleanReason(level)[v] = reason[v] /\ reason[v] \in Alive
           /\ reason[v] \in CleanLocked(level) \/ Cardinality(clauses[reason[v]]) = 2
<1>1. /\ CleanReason(level) = [x \in Vars |-> IF Level(x) > level THEN Nil ELSE reason[x]]
      /\ Dropped(level) = {x \in Vars : Level(x) > level}
      /\ \A x \in Vars : Level(x) \in Nat /\ (Level(x) = 0 <=> model[x] = 0)
  BY CleanFacts, InvFacts
<1>2. ~ (Level(v) > level) /\ CleanReason(level)[v] = reason[v] /\ reason[v] # Nil
  BY <1>1
<1>3. model[v] # 0
  BY <1>2 DEF IInv, UnifyInv
<1>4. reason[v] \in Alive /\ (reason[v] \in locked \/ Cardinality(clauses[reason[v]]) = 2)
  BY <1>2 DEF CompleteInv, LocksInv, ReasonsAlive
<1>5. \A x \in Dropped(level) : reason[x] # reason[v]
  <2> SUFFICES ASSUME NEW x \in Vars, Level(x) > level, reason[x] = reason[v] PROVE FALSE
    BY <1>1
  <2>1. model[x] # 0
    BY <1>1
  <2>2. x = v
    BY <1>2, <1>3, <2>1, ReasonsDiffer
  <2> QED BY <1>2, <2>2
<1> QED BY <1>2, <1>4, <1>5 DEF CleanLocked

\* What is unbound goes back to the queue.
LEMMA QueueCleaned ==
    ASSUME IInv, CompleteInv, pc # "unify", NEW level \in Nat \ {0}, Cleans(level),
           CleanQueue(level) \subseteq queue'
    PROVE  UnboundQueued'
<1>1. /\ \A v \in Vars : model'[v] = IF Level(v) > level THEN 0 ELSE model[v]
      /\ Dropped(level) = {v \in Vars : Level(v) > level}
  BY CleanedFacts
<1>2. \A v \in Vars : model[v] = 0 => v \in queue
  BY QueueComplete
<1> QED BY <1>1, <1>2 DEF UnboundQueued, CleanQueue

\* A step that undoes everything but the facts, whose lists were gone through,
\* and leaves the clauses alone.
LEMMA CleanTop ==
    ASSUME IInv, CompleteInv, pc # "unify", pc' \in {"idle", "search", "unify"}, Cleans(1),
           reason' = CleanReason(1), locked' = CleanLocked(1),
           UNCHANGED <<clauses, watched, lbd, learned, wlist, wlistBin>>,
           status = "Unsat" => status' = "Unsat",
           \A i \in 1 .. KeptLen(1) : GoneThrough(i)
    PROVE  /\ ListsComplete' /\ LocksInv' /\ WatchersBlocked'
           /\ AssumedTrue' /\ OneDecisionPerLevel'
           /\ \A C \in formula : Held(C)'
<1>1. /\ \A i \in 1 .. KeptLen(1) : trail'[i] = trail[i]
      /\ \A k \in Lits : LitStatus(k) # "Indet" /\ Level(VarOf(k)) <= 1 =>
            LitStatus(k)' = LitStatus(k) /\ Level(VarOf(k))' = Level(VarOf(k))
      /\ AssumedTrue' /\ OneDecisionPerLevel'
  BY CleanedFacts
<1>2. ListsComplete' /\ ClauseIds' = ClauseIds /\ Alive' = Alive
  BY SameDatabase
<1>3. LocksInv'
  <2>1. \A v \in Vars : CleanReason(1)[v] # Nil =>
          /\ CleanReason(1)[v] \in Alive
          /\ CleanReason(1)[v] \in CleanLocked(1) \/ Cardinality(clauses[CleanReason(1)[v]]) = 2
    BY LocksCleaned
  <2> QED BY <1>2, <2>1 DEF CompleteInv, LocksInv, ReasonsAlive
<1>4. WatchersBlocked'
  <2>1. \A i \in 1 .. KeptLen(1) : DoneBin(i)' \subseteq DoneBin(i) /\ Done(i)' \subseteq Done(i)
    BY <1>1 DEF DoneBin, Done
  <2> QED BY <2>1, BlockedCleaned
<1>5. \A C \in formula : Held(C)'
  <2>1. \A k \in Lits : LitStatus(k) = "Sat" /\ Level(VarOf(k)) = 1 =>
            LitStatus(k)' = "Sat" /\ Level(VarOf(k))' = 1
    BY <1>1
  <2> QED BY <1>2, <2>1, HeldKept
<1> QED BY <1>1, <1>2, <1>3, <1>4, <1>5

\* What the actions that call cleanupBindings(1) do is a Cleans(1).
LEMMA CleansTop ==
    ASSUME IInv, CleanupBindings(1), reason' = CleanReason(1),
           \A c \in ClauseIds : c \in ClauseIds' /\ clauses'[c] = clauses[c] /\ lbd'[c] = lbd[c],
           formula \subseteq formula', UNCHANGED <<assumed, assumptions>>
    PROVE  Cleans(1)
<1>1. CleanReason(1) = [v \in Vars |-> IF Level(v) > 1 THEN Nil ELSE reason[v]]
  BY CleanFacts, InvFacts
<1>2. \A v \in Vars : Level(v) \in Nat
  BY InvFacts
<1>3. \A v \in Vars : Level(v) <= 1 => reason'[v] = reason[v]
  BY <1>1, <1>2
<1> QED BY <1>3 DEF Cleans

LEMMA RestartComplete ==
    ASSUME IInv, CompleteInv, Restart
    PROVE  CompleteInv'
<1>1. /\ Propagated /\ pc = "propagate" /\ ret = "branch" /\ CleanupBindings(1)
      /\ reason' = CleanReason(1) /\ locked' = CleanLocked(1)
      /\ queue' = OrderHeap(CleanModel(1)) /\ model' = CleanModel(1)
      /\ pc' = "search" /\ ret' = "none"
      /\ UNCHANGED <<clauses, watched, lbd, learned, wlist, wlistBin>>
      /\ UNCHANGED <<status, result, lastModel, formula, assumed, assumptions>>
  BY DEF Restart, Restarted, Propagated, CleanupBindings, dbVars, clientVars
<1>2. Cleans(1)
  BY <1>1, CleansTop DEF ClauseIds
<1>3. \A i \in 1 .. KeptLen(1) : GoneThrough(i)
  <2>1. \A i \in 1 .. KeptLen(1) : i \in DOMAIN trail
    BY <1>2, CleanedFacts
  <2> QED BY <1>1, <2>1, PropagatedSettled DEF Settled
<1>4. /\ ListsComplete' /\ LocksInv' /\ WatchersBlocked'
      /\ AssumedTrue' /\ OneDecisionPerLevel'
      /\ \A C \in formula : Held(C)'
  BY <1>1, <1>2, <1>3, CleanTop
<1>5. FormulaHeld'
  BY <1>1, <1>4 DEF FormulaHeld
<1>6. status = "Indet"
  BY <1>1 DEF CompleteInv, StatusInv
<1>7. StatusInv' /\ PanicsWhenEmpty' /\ UnboundQueued' /\ LevelsOpen'
  BY <1>1, <1>6 DEF StatusInv, PanicsWhenEmpty, UnboundQueued, LevelsOpen, OrderHeap
<1> QED BY <1>1, <1>4, <1>5, <1>7, SatKept DEF CompleteInv

\* Learning is done with at a level above 1, whose literals are undone.
LEMMA LearnUnitComplete ==
    ASSUME IInv, CompleteInv, NEW u \in AssertingLits, LearnUnit(u)
    PROVE  CompleteInv'
<1>1. /\ Learnt /\ pc = "learn" /\ ~ (Level(VarOf(u)) = 1 /\ IsFalse(u)) /\ CleanupBindings(1)
      /\ reason' = CleanReason(1) /\ locked' = CleanLocked(1) /\ queue' = CleanQueue(1)
      /\ lit' = u /\ lvl' = 1 /\ ret' = "unit" /\ pc' = "unify"
      /\ UNCHANGED <<clauses, watched, lbd, learned, wlist, wlistBin>>
      /\ UNCHANGED <<status, result, lastModel, formula, assumed, assumptions>>
  BY DEF LearnUnit, Learnt, dbVars, clientVars
<1>2. Cleans(1)
  BY <1>1, CleansTop DEF ClauseIds
<1>3. \A i \in 1 .. KeptLen(1) : GoneThrough(i)
  <2>1. lvl > 1
    <3>1. IsFalse(u) /\ Level(VarOf(u)) = lvl
      BY <1>1, InvFacts, AssertingFacts
    <3> QED BY <1>1, <3>1, InvFacts
  <2>2. \A i \in 1 .. KeptLen(1) : Level(VarOf(trail[i])) <= 1 /\ Level(VarOf(trail[i])) \in Nat
    BY <1>2, CleanedFacts, InvFacts, SMTT(30)
  <2> QED BY <1>1, <2>1, <2>2, InvFacts DEF GoneThrough
<1>4. /\ ListsComplete' /\ LocksInv' /\ WatchersBlocked'
      /\ AssumedTrue' /\ OneDecisionPerLevel'
      /\ \A C \in formula : Held(C)'
  BY <1>1, <1>2, <1>3, CleanTop
<1>5. FormulaHeld'
  BY <1>1, <1>4 DEF FormulaHeld
<1>6. status = "Indet"
  BY <1>1 DEF CompleteInv, StatusInv, IInv, LearnInv
<1>7. StatusInv' /\ PanicsWhenEmpty' /\ LevelsOpen'
  BY <1>1, <1>6 DEF StatusInv, PanicsWhenEmpty, LevelsOpen
<1>8. UnboundQueued'
  BY <1>1, <1>2, QueueCleaned
<1> QED BY <1>1, <1>4, <1>5, <1>7, <1>8, SatKept DEF CompleteInv

-----------------------------------------------------------------------------
(* Adding a clause.                                                        *)

LEMMA AddClauseComplete ==
    ASSUME IInv, CompleteInv, NEW C \in Clauses, NEW f \in C, NEW s \in C, f # s, NEW d \in Nat,
           NEW c, c = Len(clauses) + 1, AddClause(C, f, s, d),
           learned' \subseteq learned \union {c}, learned \subseteq learned',
           d = 0 \/ c \in learned'
    PROVE  /\ ListsComplete'
           /\ Alive' = Alive \union {c}
           /\ ClauseIds' = ClauseIds \union {c} /\ c \notin ClauseIds /\ c # Nil
           /\ clauses'[c] = C /\ lbd'[c] = d
           /\ \A e \in ClauseIds : clauses'[e] = clauses[e] /\ lbd'[e] = lbd[e]
           /\ \A l \in Lits : \A w \in wlistBin'[l] \union wlist'[l] :
                \/ w \in wlistBin[l] \union wlist[l]
                \/ w = <<c, s>> /\ l = Negation(f)
                \/ w = <<c, f>> /\ l = Negation(s)
<1>1. /\ clauses \in Seq(Clauses) /\ watched \in Seq(Lits \X Lits) /\ lbd \in Seq(Nat)
      /\ Len(watched) = Len(clauses) /\ Len(lbd) = Len(clauses)
      /\ wlistBin \in [Lits -> SUBSET Watchers] /\ wlist \in [Lits -> SUBSET Watchers]
  BY DEF IInv, TypeOK
<1>2. /\ clauses' = Append(clauses, C) /\ watched' = Append(watched, <<f, s>>)
      /\ lbd' = Append(lbd, d)
      /\ IF Cardinality(C) = 2
         THEN wlistBin' = Watch(wlistBin, c, f, s) /\ wlist' = wlist
         ELSE wlist' = Watch(wlist, c, f, s) /\ wlistBin' = wlistBin
  BY DEF AddClause
<1>3. /\ ClauseIds = 1 .. Len(clauses) /\ Len(clauses) \in Nat
      /\ ClauseIds' = ClauseIds \union {c} /\ c \notin ClauseIds /\ c # Nil
      /\ clauses'[c] = C /\ lbd'[c] = d /\ watched'[c] = <<f, s>>
      /\ \A e \in ClauseIds :
            clauses'[e] = clauses[e] /\ lbd'[e] = lbd[e] /\ watched'[e] = watched[e]
  BY <1>1, <1>2, AppendProperties, SMTT(30) DEF ClauseIds, Nil
<1>4. f \in Lits /\ s \in Lits /\ Negation(f) \in Lits /\ Negation(s) \in Lits
      /\ Negation(f) # Negation(s)
  BY LitFacts DEF Clauses
<1>5. Alive' = Alive \union {c}
  <2>1. Alive' = {e \in ClauseIds' : lbd'[e] = 0} \union learned'
    BY DEF Alive
  <2> QED BY <1>3, <2>1, ClauseFacts DEF Alive
<1>6. ASSUME NEW l \in Lits
      PROVE
        /\ Cardinality(C) = 2 =>
             /\ wlist'[l] = wlist[l]
             /\ wlistBin'[l] = IF l = Negation(f) THEN wlistBin[l] \union {<<c, s>>}
                               ELSE IF l = Negation(s) THEN wlistBin[l] \union {<<c, f>>}
                               ELSE wlistBin[l]
        /\ Cardinality(C) # 2 =>
             /\ wlistBin'[l] = wlistBin[l]
             /\ wlist'[l] = IF l = Negation(f) THEN wlist[l] \union {<<c, s>>}
                            ELSE IF l = Negation(s) THEN wlist[l] \union {<<c, f>>}
                            ELSE wlist[l]
  <2>1. Watch(wlistBin, c, f, s)[l] = IF l = Negation(f) THEN wlistBin[l] \union {<<c, s>>}
                               ELSE IF l = Negation(s) THEN wlistBin[l] \union {<<c, f>>}
                               ELSE wlistBin[l]
    BY <1>1, <1>4 DEF Watch
  <2>2. Watch(wlist, c, f, s)[l] = IF l = Negation(f) THEN wlist[l] \union {<<c, s>>}
                            ELSE IF l = Negation(s) THEN wlist[l] \union {<<c, f>>}
                            ELSE wlist[l]
    BY <1>1, <1>4 DEF Watch
  <2> QED BY <1>2, <2>1, <2>2
<1>7. <<c, s>>[1] = c /\ <<c, f>>[1] = c /\ <<c, s>>[2] = s /\ <<c, f>>[2] = f
  OBVIOUS
<1>8. \A l \in Lits : wlistBin[l] \subseteq wlistBin'[l] /\ wlist[l] \subseteq wlist'[l]
  BY <1>6
<1>9. ASSUME NEW e \in Alive'
      PROVE  IF Cardinality(clauses'[e]) = 2
             THEN \A l \in clauses'[e] : \E w \in wlistBin'[Negation(l)] : w[1] = e
             ELSE IsWatched(e)'
  <2>1. CASE e = c /\ Cardinality(C) = 2
    <3>1. C = {f, s}
      BY <2>1, PairOfTwo
    <3>2. <<c, s>> \in wlistBin'[Negation(f)] /\ <<c, f>> \in wlistBin'[Negation(s)]
      BY <1>4, <1>6, <2>1
    <3> QED BY <1>3, <1>7, <2>1, <3>1, <3>2
  <2>2. CASE e = c /\ Cardinality(C) # 2
    <3>1. <<c, s>> \in wlist'[Negation(f)] /\ <<c, f>> \in wlist'[Negation(s)]
      BY <1>4, <1>6, <2>2
    <3>2. watched'[c][1] = f /\ watched'[c][2] = s
      BY <1>3
    <3>3. IsWatched(c)'
      BY <1>7, <3>1, <3>2 DEF IsWatched
    <3>4. IsWatched(e)'
      BY <2>2, <3>3
    <3> QED BY <1>3, <2>2, <3>4
  <2>3. CASE e \in Alive
    <3>1. e \in ClauseIds /\ clauses'[e] = clauses[e] /\ watched'[e] = watched[e]
          /\ clauses[e] \subseteq Lits /\ watched[e][1] \in Lits /\ watched[e][2] \in Lits
      BY <1>3, <2>3, ClauseFacts
    <3>2. \A l \in clauses[e] : Negation(l) \in Lits
      BY <3>1, LitFacts
    <3>3. \A i \in {1, 2} : Negation(watched[e][i]) \in Lits
      BY <3>1, LitFacts
    <3>4. CASE Cardinality(clauses[e]) = 2
      BY <1>8, <2>3, <3>1, <3>2, <3>4 DEF CompleteInv, ListsComplete
    <3>5. CASE Cardinality(clauses[e]) # 2
      <4>1. IsWatched(e)
        BY <2>3, <3>5 DEF CompleteInv, ListsComplete
      <4>2. IsWatched(e)'
        BY <1>8, <3>1, <3>3, <4>1 DEF IsWatched
      <4> QED BY <3>1, <3>5, <4>2
    <3> QED BY <3>4, <3>5
  <2> QED BY <1>5, <2>1, <2>2, <2>3
<1>10. /\ \A l \in Lits : \A w \in wlistBin'[l] : w[1] \in Alive'
       /\ \A l \in Lits : \A w \in wlist'[l] : w[1] \in Alive' /\ w[2] \in clauses'[w[1]]
  <2>1. \A l \in Lits : \A w \in wlistBin[l] : w[1] \in Alive'
    BY <1>5 DEF CompleteInv, ListsComplete
  <2>2. \A l \in Lits : \A w \in wlist[l] : w[1] \in Alive' /\ w[2] \in clauses'[w[1]]
    BY <1>3, <1>5, ClauseFacts DEF CompleteInv, ListsComplete
  <2>3. c \in Alive' /\ f \in clauses'[c] /\ s \in clauses'[c]
    BY <1>3, <1>5
  <2>4. \A l \in Lits : \A w \in wlistBin'[l] : w \in wlistBin[l] \/ w \in {<<c, s>>, <<c, f>>}
    BY <1>6
  <2>5. \A l \in Lits : \A w \in wlist'[l] : w \in wlist[l] \/ w \in {<<c, s>>, <<c, f>>}
    <3> SUFFICES ASSUME NEW l \in Lits, NEW w \in wlist'[l]
                 PROVE  w \in wlist[l] \/ w = <<c, s>> \/ w = <<c, f>>
      OBVIOUS
    <3>1. CASE Cardinality(C) = 2
      BY <1>6, <3>1
    <3>2. CASE Cardinality(C) # 2
      BY <1>6, <3>2, ZenonT(30)
    <3> QED BY <3>1, <3>2
  <2> QED BY <1>7, <2>1, <2>2, <2>3, <2>4, <2>5
<1>11. ListsComplete'
  BY <1>9, <1>10 DEF ListsComplete
<1>12. \A l \in Lits : \A w \in wlistBin'[l] \union wlist'[l] :
                \/ w \in wlistBin[l] \union wlist[l]
                \/ w = <<c, s>> /\ l = Negation(f)
                \/ w = <<c, f>> /\ l = Negation(s)
  BY <1>6, ZenonT(30)
<1> QED BY <1>3, <1>5, <1>11, <1>12

\* The LBD of a clause of two literals is 1 or 2.
LEMMA LbdOfPair ==
    ASSUME IInv, NEW C \in Clauses
    PROVE  /\ ComputeLbd(C) \in Nat
           /\ Cardinality(C) = 2 => ComputeLbd(C) <= 2
<1> DEFINE f == [l \in C |-> Level(VarOf(l))]
           T == {Level(VarOf(l)) : l \in C}
<1>1. IsFiniteSet(C) /\ Cardinality(C) \in Nat
  BY ClausesFinite
<1>2. f \in Surjection(C, T)
  BY DEF Surjection
<1>3. IsFiniteSet(T) /\ Cardinality(T) <= Cardinality(C)
  <2> HIDE DEF f, T
  <2> QED BY <1>1, <1>2, FS_Surjection
<1>4. Cardinality(T) \in Nat
  BY <1>3, FS_CardinalityType
<1> QED BY <1>1, <1>3, <1>4 DEF ComputeLbd

\* The learned clause is watched by the literal about to be bound, in the list
\* of a literal of the level it is bound at.
LEMMA LearnClauseComplete ==
    ASSUME IInv, CompleteInv, NEW u \in AssertingLits, NEW s \in SecondLits(Minimized),
           LearnClause(u, s)
    PROVE  CompleteInv'
<1> DEFINE C == {u} \union Minimized
           b == Level(VarOf(s))
<1>1. PICK c \in Nat : c = Len(clauses) + 1
  BY DEF IInv, TypeOK
<1>2. /\ Learnt /\ pc = "learn" /\ AddClause(C, u, s, ComputeLbd(C))
      /\ learned' = learned \union {c} /\ CleanupBindings(b)
      /\ reason' = [CleanReason(b) EXCEPT ![VarOf(u)] = c]
      /\ locked' = CleanLocked(b) \union {c} /\ queue' = CleanQueue(b)
      /\ lit' = u /\ lvl' = b /\ pc' = "unify"
      /\ UNCHANGED <<ret, status, result, lastModel, formula, assumed, assumptions>>
  BY <1>1 DEF LearnClause, Learnt, clientVars
<1>3. /\ s \in Minimized /\ Minimized \subseteq lits
      /\ \A l \in lits : l \in Lits /\ IsFalse(l) /\ Level(VarOf(l)) < lvl
  BY <1>2 DEF SecondLits, Minimized, IInv, LearnInv, TypeOK, Clauses
<1>4. /\ u \in Lits /\ VarOf(u) \in Vars /\ IsFalse(u) /\ Level(VarOf(u)) = lvl
      /\ s \in Lits /\ VarOf(s) \in Vars /\ IsFalse(s) /\ u # s /\ C \in Clauses
  <2>1. u \in Lits /\ IsFalse(u) /\ Level(VarOf(u)) = lvl
    BY <1>2, InvFacts, AssertingFacts
  <2> QED BY <1>3, <2>1, LitFacts, InvFacts DEF Clauses
<1>5. b \in Nat \ {0} /\ b < lvl /\ lvl \in Nat
  <2>1. model[VarOf(s)] # 0
    BY <1>4, InvFacts, StatusFacts
  <2> QED BY <1>3, <1>4, <2>1, InvFacts
<1> HIDE DEF C, b
<1>6. u \in C /\ s \in C
  BY <1>3 DEF C
<1>7. ComputeLbd(C) \in Nat /\ (Cardinality(C) = 2 => ComputeLbd(C) <= 2)
  BY <1>4, LbdOfPair
<1>8. /\ ListsComplete' /\ Alive' = Alive \union {c}
      /\ ClauseIds' = ClauseIds \union {c} /\ c \notin ClauseIds /\ c # Nil
      /\ clauses'[c] = C /\ lbd'[c] = ComputeLbd(C)
      /\ \A e \in ClauseIds : clauses'[e] = clauses[e] /\ lbd'[e] = lbd[e]
      /\ \A l \in Lits : \A w \in wlistBin'[l] \union wlist'[l] :
           \/ w \in wlistBin[l] \union wlist[l]
           \/ w = <<c, s>> /\ l = Negation(u)
           \/ w = <<c, u>> /\ l = Negation(s)
  <2>1. c \in learned' /\ learned' \subseteq learned \union {c} /\ learned \subseteq learned'
    BY <1>2
  <2> QED BY <1>1, <1>2, <1>4, <1>6, <1>7, <2>1, AddClauseComplete
<1>9. \A v \in Vars : reason'[v] = IF v = VarOf(u) THEN c ELSE CleanReason(b)[v]
  <2>1. CleanReason(b) \in [Vars -> {Nil} \union ClauseIds]
    BY <1>5, CleanFacts, InvFacts
  <2> QED BY <1>2, <1>4, <2>1
<1>10. Cleans(b)
  <2>1. CleanReason(b) = [v \in Vars |-> IF Level(v) > b THEN Nil ELSE reason[v]]
    BY <1>5, CleanFacts, InvFacts
  <2>2. \A v \in Vars : Level(v) <= b => reason'[v] = reason[v]
    BY <1>4, <1>5, <1>9, <2>1, InvFacts, SMTT(30)
  <2> QED BY <1>2, <1>8, <2>2 DEF Cleans
<1>11. /\ KeptLen(b) \in 0 .. Len(trail) /\ DOMAIN trail = 1 .. Len(trail)
       /\ \A i \in 1 .. KeptLen(b) :
            /\ trail'[i] = trail[i] /\ trail[i] \in Lits
            /\ Level(VarOf(trail[i])) <= b
       /\ \A k \in Lits : LitStatus(k) # "Indet" /\ Level(VarOf(k)) <= b =>
            LitStatus(k)' = LitStatus(k) /\ Level(VarOf(k))' = Level(VarOf(k))
       /\ AssumedTrue' /\ OneDecisionPerLevel'
  BY <1>5, <1>10, CleanedFacts
<1>12. WatchersBlocked'
  <2>1. ASSUME NEW i \in 1 .. KeptLen(b), NEW w \in DoneBin(i)' \union Done(i)'
        PROVE  \/ w \in DoneBin(i) \union Done(i)
               \/ pc' = "unify" /\ w[2] = lit' /\ lvl' <= Level(VarOf(trail[i]))
    <3>1. Level(VarOf(trail[i])) < lvl /\ i \in DOMAIN trail
      BY <1>5, <1>11, InvFacts
    <3>2. DoneBin(i) = wlistBin[trail[i]] /\ Done(i) = wlist[trail[i]]
      BY <1>2, <3>1 DEF DoneBin, Done, GoneThrough
    <3>3. w \in wlistBin'[trail[i]] \union wlist'[trail[i]]
      BY <1>11 DEF DoneBin, Done
    <3>4. trail[i] # Negation(u)
      BY <1>4, <3>1, LitFacts, InvFacts
    <3>5. CASE w = <<c, u>> /\ trail[i] = Negation(s)
      <4>1. w[2] = u
        BY <3>5
      <4>2. Level(VarOf(trail[i])) = b
        BY <1>4, <3>5, LitFacts DEF b
      <4> QED BY <1>2, <1>5, <4>1, <4>2
    <3> QED BY <1>8, <1>11, <3>2, <3>3, <3>4, <3>5
  <2> QED BY <1>2, <1>5, <1>10, <2>1, BlockedCleaned
<1>13. LocksInv'
  <2>1. ASSUME NEW v \in Vars, reason'[v] # Nil
        PROVE  /\ reason'[v] \in Alive'
               /\ reason'[v] \in locked' \/ Cardinality(clauses'[reason'[v]]) = 2
    <3>1. CASE v = VarOf(u)
      BY <1>2, <1>8, <1>9, <3>1
    <3>2. CASE v # VarOf(u)
      <4>1. /\ CleanReason(b)[v] \in Alive
            /\ CleanReason(b)[v] \in CleanLocked(b) \/ Cardinality(clauses[CleanReason(b)[v]]) = 2
        BY <1>2, <1>5, <1>9, <2>1, <3>2, LocksCleaned
      <4>2. CleanReason(b)[v] \in ClauseIds
        BY <4>1, ClauseFacts
      <4> QED BY <1>2, <1>8, <1>9, <3>2, <4>1, <4>2
    <3> QED BY <3>1, <3>2
  <2>2. \A e \in ClauseIds' : Cardinality(clauses'[e]) = 2 => lbd'[e] <= 2
    BY <1>7, <1>8 DEF CompleteInv, LocksInv
  <2> QED BY <2>1, <2>2 DEF LocksInv, ReasonsAlive
<1>14. FormulaHeld'
  <2>1. \A k \in Lits : LitStatus(k) = "Sat" /\ Level(VarOf(k)) = 1 =>
            LitStatus(k)' = "Sat" /\ Level(VarOf(k))' = 1
    BY <1>5, <1>11
  <2>2. \A e \in ClauseIds : e \in ClauseIds' /\ clauses'[e] = clauses[e] /\ lbd'[e] = lbd[e]
    BY <1>8
  <2> QED BY <1>2, <2>1, <2>2, HeldKept DEF FormulaHeld
<1>15. StatusInv' /\ PanicsWhenEmpty'
  <2>1. status = "Indet" /\ ret = "branch"
    BY <1>2 DEF CompleteInv, StatusInv, IInv, LearnInv
  <2> QED BY <1>2, <2>1 DEF StatusInv, PanicsWhenEmpty
<1>16. UnboundQueued'
  BY <1>2, <1>5, <1>10, QueueCleaned
<1>17. LevelsOpen'
  <2>1. Level(VarOf(s))' = b
    BY <1>4, <1>5, <1>11 DEF b, IsFalse
  <2>2. reason'[VarOf(lit')] # Nil
    BY <1>2, <1>4, <1>8, <1>9
  <2> QED BY <1>2, <1>4, <2>1, <2>2 DEF LevelsOpen
<1> QED BY <1>2, <1>8, <1>11, <1>12, <1>13, <1>14, <1>15, <1>16, <1>17, SatKept DEF CompleteInv

\* The new clause is true or false for good, about to be, or watched by two
\* unbound literals.
LEMMA AppendClauseComplete ==
    ASSUME IInv, CompleteInv, OneKindOfClient, NEW C \in Appendable, AppendClause(C)
    PROVE  CompleteInv'
<1> DEFINE m == CleanModel(1)
           rest == SimplifiedLits(C, m)
<1>1. /\ pc = "idle" /\ formula' = formula \union {C} /\ result' = "none"
      /\ CleanupBindings(1) /\ model' = m /\ queue' = CleanQueue(1)
      /\ reason' = CleanReason(1) /\ locked' = CleanLocked(1)
      /\ UNCHANGED <<learned, assumptions, lastModel, assumed>>
  BY DEF AppendClause, CleanupBindings
<1>2. Assumable = {} /\ C \subseteq Lits
  BY ClientAssumption DEF OneKindOfClient, Clauses
<1>3. ret = "none"
  BY <1>1 DEF CompleteInv, StatusInv
<1>4. \A i : GoneThrough(i)
  BY <1>1 DEF GoneThrough
<1>5. ASSUME UNCHANGED <<clauses, watched, lbd, wlist, wlistBin>>, pc' \in {"idle", "unify"},
             status = "Unsat" => status' = "Unsat", Held(C)', StatusInv', LevelsOpen'
      PROVE  CompleteInv'
  <2>1. Cleans(1)
    BY <1>1, <1>5, CleansTop DEF ClauseIds
  <2>2. /\ ListsComplete' /\ LocksInv' /\ WatchersBlocked'
        /\ AssumedTrue' /\ OneDecisionPerLevel'
        /\ \A D \in formula : Held(D)'
    BY <1>1, <1>4, <1>5, <2>1, CleanTop
  <2>3. FormulaHeld'
    BY <1>1, <1>5, <2>2 DEF FormulaHeld
  <2>4. UnboundQueued'
    BY <1>1, <2>1, QueueCleaned
  <2>5. PanicsWhenEmpty' /\ SatSound'
    BY <1>1, <1>5 DEF PanicsWhenEmpty, SatSound
  <2> QED BY <1>5, <2>2, <2>3, <2>4, <2>5 DEF CompleteInv
<1>6. CASE /\ SatisfiedBy(C, m)
           /\ UNCHANGED <<clauses, watched, lbd, wlist, wlistBin, lvl, lit, ret, pc,
                          status, recent>>
  <2>1. PICK l \in C : m[VarOf(l)] # 0 /\ (m[VarOf(l)] > 0) = IsPositive(l)
    BY <1>6 DEF SatisfiedBy
  <2>2. VarOf(l) \in Vars /\ LitStatus(l)' = "Sat"
    BY <1>1, <1>2, <2>1, LitFacts DEF LitStatus
  <2>3. Level(VarOf(l))' = 1
    <3>1. model[VarOf(l)] = model'[VarOf(l)] /\ Level(VarOf(l)) = 1
      BY <1>1, <1>6, <2>1, <2>2, AppendBindings DEF ClauseIds
    <3> QED BY <3>1 DEF Level
  <2>4. Held(C)'
    BY <1>2, <2>2, <2>3 DEF Held
  <2>5. StatusInv' /\ LevelsOpen'
    BY <1>1, <1>3, <1>6 DEF StatusInv, LevelsOpen
  <2> QED BY <1>1, <1>5, <1>6, <2>4, <2>5
<1>7. CASE /\ status' = "Unsat"
           /\ UNCHANGED <<clauses, watched, lbd, wlist, wlistBin, lvl, lit, ret, pc, recent>>
  <2>1. Held(C)'
    BY <1>2, <1>7 DEF Held
  <2>2. StatusInv' /\ LevelsOpen'
    BY <1>1, <1>3, <1>7 DEF StatusInv, LevelsOpen
  <2> QED BY <1>1, <1>5, <1>7, <2>1, <2>2
<1>8. CASE /\ \E l \in rest : lit' = l
           /\ lvl' = 1 /\ ret' = "append" /\ pc' = "unify"
           /\ UNCHANGED <<clauses, watched, lbd, wlist, wlistBin, status>>
  <2>1. Held(C)'
    BY <1>2, <1>8 DEF Held, SimplifiedLits
  <2>2. StatusInv' /\ LevelsOpen'
    BY <1>8 DEF StatusInv, LevelsOpen
  <2> QED BY <1>5, <1>8, <2>1, <2>2
<1>9. ASSUME NEW f \in rest, NEW s \in rest, f # s, AddClause(rest, f, s, 0),
             UNCHANGED <<lvl, lit, ret, pc, status, recent>>
      PROVE  CompleteInv'
  <2>1. PICK c \in Nat : c = Len(clauses) + 1
    BY DEF IInv, TypeOK
  <2>2. rest \in Clauses /\ rest \subseteq C /\ \A l \in rest : model'[VarOf(l)] = 0
    BY <1>1, <1>2 DEF SimplifiedLits, Clauses
  <2> HIDE DEF rest, m
  <2>3. f \in Lits /\ s \in Lits /\ 0 \in Nat
    BY <2>2 DEF Clauses
  <2>4. /\ ListsComplete' /\ Alive' = Alive \union {c}
        /\ ClauseIds' = ClauseIds \union {c} /\ c \notin ClauseIds /\ c # Nil
        /\ clauses'[c] = rest /\ lbd'[c] = 0
        /\ \A e \in ClauseIds : clauses'[e] = clauses[e] /\ lbd'[e] = lbd[e]
        /\ \A l \in Lits : \A w \in wlistBin'[l] \union wlist'[l] :
             \/ w \in wlistBin[l] \union wlist[l]
             \/ w = <<c, s>> /\ l = Negation(f)
             \/ w = <<c, f>> /\ l = Negation(s)
    BY <1>1, <1>9, <2>1, <2>2, <2>3, AddClauseComplete
  <2>5. Cleans(1)
    BY <1>1, <2>4, CleansTop
  <2>6. /\ KeptLen(1) \in 0 .. Len(trail) /\ DOMAIN trail = 1 .. Len(trail)
        /\ \A i \in 1 .. KeptLen(1) :
             /\ trail'[i] = trail[i] /\ trail[i] \in Lits /\ VarOf(trail[i]) \in Vars
             /\ model[VarOf(trail[i])] # 0 /\ Level(VarOf(trail[i])) <= 1
        /\ \A k \in Lits : LitStatus(k) # "Indet" /\ Level(VarOf(k)) <= 1 =>
             LitStatus(k)' = LitStatus(k) /\ Level(VarOf(k))' = Level(VarOf(k))
        /\ \A v \in Vars : model'[v] = IF Level(v) > 1 THEN 0 ELSE model[v]
        /\ AssumedTrue' /\ OneDecisionPerLevel'
    BY <2>5, CleanedFacts
  <2>7. WatchersBlocked'
    <3>1. ASSUME NEW i \in 1 .. KeptLen(1), NEW w \in DoneBin(i)' \union Done(i)'
          PROVE  w \in DoneBin(i) \union Done(i)
      <4>1. model'[VarOf(trail[i])] # 0
        BY <2>6, InvFacts
      <4>2. trail[i] # Negation(f) /\ trail[i] # Negation(s)
        BY <2>2, <2>3, <4>1, LitFacts
      <4>3. w \in wlistBin'[trail[i]] \union wlist'[trail[i]]
        BY <2>6 DEF DoneBin, Done
      <4>4. DoneBin(i) = wlistBin[trail[i]] /\ Done(i) = wlist[trail[i]]
        BY <1>4 DEF DoneBin, Done
      <4> QED BY <2>4, <2>6, <4>2, <4>3, <4>4
    <3> QED BY <1>1, <1>9, <2>5, <3>1, BlockedCleaned
  <2>8. LocksInv'
    <3>1. ASSUME NEW v \in Vars, reason'[v] # Nil
          PROVE  /\ reason'[v] \in Alive'
                 /\ reason'[v] \in locked' \/ Cardinality(clauses'[reason'[v]]) = 2
      <4>1. /\ CleanReason(1)[v] \in Alive
            /\ CleanReason(1)[v] \in CleanLocked(1) \/ Cardinality(clauses[CleanReason(1)[v]]) = 2
        BY <1>1, <3>1, LocksCleaned
      <4>2. CleanReason(1)[v] \in ClauseIds
        BY <4>1, ClauseFacts
      <4> QED BY <1>1, <2>4, <4>1, <4>2
    <3>2. \A e \in ClauseIds' : Cardinality(clauses'[e]) = 2 => lbd'[e] <= 2
      BY <2>4 DEF CompleteInv, LocksInv
    <3> QED BY <3>1, <3>2 DEF LocksInv, ReasonsAlive
  <2>9. FormulaHeld'
    <3>1. \A k \in Lits : LitStatus(k) = "Sat" /\ Level(VarOf(k)) = 1 =>
              LitStatus(k)' = "Sat" /\ Level(VarOf(k))' = 1
      BY <2>6
    <3>2. \A e \in ClauseIds : e \in ClauseIds' /\ clauses'[e] = clauses[e] /\ lbd'[e] = lbd[e]
      BY <2>4
    <3>3. \A D \in formula : Held(D)'
      BY <1>1, <1>9, <3>1, <3>2, HeldKept
    <3>4. Held(C)'
      BY <2>2, <2>4 DEF Held
    <3> QED BY <1>1, <3>3, <3>4 DEF FormulaHeld
  <2>10. UnboundQueued'
    BY <1>1, <2>5, QueueCleaned
  <2>11. StatusInv' /\ LevelsOpen' /\ PanicsWhenEmpty' /\ SatSound'
    BY <1>1, <1>3, <1>9 DEF StatusInv, LevelsOpen, PanicsWhenEmpty, SatSound
  <2> QED BY <2>4, <2>6, <2>7, <2>8, <2>9, <2>10, <2>11 DEF CompleteInv
<1> QED BY <1>6, <1>7, <1>8, <1>9 DEF AppendClause

-----------------------------------------------------------------------------
(* Assumptions, and the beginning.                                         *)

\* Every binding is undone: nothing was visited, everything is in the queue.
LEMMA AssumeComplete ==
    ASSUME IInv, CompleteInv, NEW L \in Assumable, Assume(L)
    PROVE  CompleteInv'
<1>1. /\ pc = "idle" /\ assumed' = L /\ result' = "none" /\ status' = "Indet"
      /\ ptr' = 1 /\ lvl' = 1 /\ ret' = "assume" /\ pc' = "propagate"
      /\ queue' = CleanQueue(0)
      /\ UNCHANGED <<clauses, watched, lbd, learned, wlist, wlistBin, formula>>
  BY DEF Assume, dbVars
<1>2. /\ \A i \in DOMAIN trail' : trail'[i] \in Lits /\ ~ (i < 1)
      /\ \A v \in VarsOf(L) : Level(v)' = 1
      /\ \A v \in Vars : Level(v)' <= 1
      /\ \A l \in L : LitStatus(l)' = "Sat"
      /\ reason' = [v \in Vars |-> Nil]
  BY AssumeBindings
<1>3. ListsComplete' /\ ClauseIds' = ClauseIds /\ Alive' = Alive
  BY <1>1, SameDatabase
<1>4. WatchersBlocked'
  <2>1. \A i \in DOMAIN trail' : DoneBin(i)' = {} /\ Done(i)' = {}
    BY <1>1, <1>2 DEF DoneBin, Done, GoneThrough
  <2> QED BY <2>1 DEF WatchersBlocked
<1>5. LocksInv'
  BY <1>1, <1>2, <1>3 DEF CompleteInv, LocksInv, ReasonsAlive
<1>6. UnboundQueued'
  <2>1. \A v \in Vars : v \in queue \/ v \in Dropped(0)
    <3>1. Dropped(0) = {v \in Vars : Level(v) > 0}
      BY CleanFacts, InvFacts
    <3>2. \A v \in Vars : Level(v) \in Nat /\ (Level(v) = 0 <=> model[v] = 0)
      BY InvFacts
    <3> QED BY <1>1, <3>1, <3>2, QueueComplete
  <2> QED BY <1>1, <2>1 DEF UnboundQueued, CleanQueue
<1>7. FormulaHeld'
  BY <1>1, <1>3, HeldKept DEF FormulaHeld
<1>8. AssumedTrue'
  BY <1>1, <1>2 DEF AssumedTrue, VarsOf
<1>9. OneDecisionPerLevel'
  <2>1. \A i \in DOMAIN trail' : Level(VarOf(trail[i]))' <= 1 /\ Level(VarOf(trail[i]))' \in Int
    BY <1>2, LitFacts, AssumeBindings DEF Level, Abs
  <2>2. \A i \in DOMAIN trail' : ~ (Level(VarOf(trail[i]))' > 1)
    BY <2>1
  <2> QED BY <2>2 DEF OneDecisionPerLevel
<1>10. StatusInv' /\ PanicsWhenEmpty' /\ LevelsOpen' /\ SatSound'
  BY <1>1 DEF StatusInv, PanicsWhenEmpty, LevelsOpen, SatSound
<1> QED BY <1>3, <1>4, <1>5, <1>6, <1>7, <1>8, <1>9, <1>10 DEF CompleteInv

\* The units are bound in no clause.
LEMMA InitComplete ==
    ASSUME UnitsKept, Init
    PROVE  CompleteInv
<1>1. PICK pb \in Problems : New(pb)
  BY DEF Init
<1>2. WellFormed(pb)
  BY ProblemsAssumption
<1>3. IInv
  BY InitInv
<1>4. /\ reason = [v \in Vars |-> Nil] /\ pc = "idle" /\ ret = "none" /\ result = "none"
      /\ assumed = {} /\ learned = {} /\ queue = Vars /\ lvl = 1
      /\ trail = pb.units /\ Len(clauses) = Len(pb.clauses) /\ Len(pb.clauses) \in Nat
      /\ \A c \in ClauseIds : lbd[c] = 0 /\ clauses[c] = Range(pb.clauses[c])
      /\ formula = Range(clauses) \union UnitClauses(Range(pb.units))
      /\ wlistBin = WatchLists(BinaryIds) /\ wlist = WatchLists(ClauseIds \ BinaryIds)
  <2>1. Len(pb.clauses) \in Nat
    BY <1>2 DEF WellFormed
  <2> QED BY <1>1, <2>1 DEF Init, New, ClauseIds
<1>5. Alive = ClauseIds
  BY <1>4 DEF Alive
<1>6. /\ \A l \in Lits : wlistBin[l] = {w \in BinaryIds \X Lits :
            watched[w[1]] \in {<<Negation(l), w[2]>>, <<w[2], Negation(l)>>}}
      /\ \A l \in Lits : wlist[l] = {w \in (ClauseIds \ BinaryIds) \X Lits :
            watched[w[1]] \in {<<Negation(l), w[2]>>, <<w[2], Negation(l)>>}}
  BY <1>4 DEF WatchLists
<1>7. \A c \in ClauseIds :
        /\ watched[c][1] \in Lits /\ watched[c][2] \in Lits
        /\ watched[c][1] \in clauses[c] /\ watched[c][2] \in clauses[c]
        /\ watched[c][1] # watched[c][2]
        /\ watched[c] = <<watched[c][1], watched[c][2]>>
        /\ clauses[c] \in Clauses
  <2>1. \A c \in ClauseIds : watched[c] \in Lits \X Lits
    BY <1>3, ClauseFacts
  <2> QED BY <1>3, <2>1, ClauseFacts
<1>8. \A c \in ClauseIds : \A P : c \in P =>
        LET W(l) == {w \in P \X Lits :
                watched[w[1]] \in {<<Negation(l), w[2]>>, <<w[2], Negation(l)>>}}
        IN  /\ <<c, watched[c][2]>> \in W(Negation(watched[c][1]))
            /\ <<c, watched[c][1]>> \in W(Negation(watched[c][2]))
  BY <1>7, LitFacts
<1>9. \A c \in ClauseIds :
        IF Cardinality(clauses[c]) = 2
        THEN /\ <<c, watched[c][2]>> \in wlistBin[Negation(watched[c][1])]
             /\ <<c, watched[c][1]>> \in wlistBin[Negation(watched[c][2])]
        ELSE /\ <<c, watched[c][2]>> \in wlist[Negation(watched[c][1])]
             /\ <<c, watched[c][1]>> \in wlist[Negation(watched[c][2])]
  <2>1. \A c \in ClauseIds : Negation(watched[c][1]) \in Lits /\ Negation(watched[c][2]) \in Lits
    BY <1>7, LitFacts
  <2>2. \A c \in ClauseIds : c \in BinaryIds <=> Cardinality(clauses[c]) = 2
    BY DEF BinaryIds
  <2> QED BY <1>6, <1>8, <2>1, <2>2
<1>10. \A x, y : <<x, y>>[1] = x
  OBVIOUS
<1>11. ListsComplete
  <2>1. ASSUME NEW c \in ClauseIds, Cardinality(clauses[c]) = 2
        PROVE  \A l \in clauses[c] : \E w \in wlistBin[Negation(l)] : w[1] = c
    <3>1. clauses[c] = {watched[c][1], watched[c][2]}
      BY <1>7, <2>1, PairOfTwo
    <3>2. /\ \E w \in wlistBin[Negation(watched[c][1])] : w[1] = c
          /\ \E w \in wlistBin[Negation(watched[c][2])] : w[1] = c
      BY <1>9, <1>10, <2>1
    <3> QED BY <3>1, <3>2
  <2>2. ASSUME NEW c \in ClauseIds, Cardinality(clauses[c]) # 2 PROVE IsWatched(c)
    <3>1. /\ \E w \in wlist[Negation(watched[c][1])] : w[1] = c
          /\ \E w \in wlist[Negation(watched[c][2])] : w[1] = c
      BY <1>9, <1>10, <2>2
    <3> QED BY <3>1 DEF IsWatched
  <2>3. \A l \in Lits : \A w \in wlistBin[l] : w[1] \in ClauseIds
    BY <1>3, ClauseFacts
  <2>4. ASSUME NEW l \in Lits, NEW w \in wlist[l]
        PROVE  w[1] \in ClauseIds /\ w[2] \in clauses[w[1]]
    <3>1. w[1] \in ClauseIds /\ watched[w[1]] \in {<<Negation(l), w[2]>>, <<w[2], Negation(l)>>}
      BY <1>6
    <3>2. w[2] = watched[w[1]][1] \/ w[2] = watched[w[1]][2]
      BY <3>1
    <3> QED BY <1>7, <3>1, <3>2
  <2> QED BY <1>5, <2>1, <2>2, <2>3, <2>4 DEF ListsComplete
<1>12. WatchersBlocked
  <2>1. ASSUME NEW i \in DOMAIN trail, NEW w \in wlistBin[trail[i]] \union wlist[trail[i]]
        PROVE  FALSE
    <3>1. trail[i] \in Lits
      BY <1>3, InvFacts
    <3>2. w[1] \in ClauseIds /\ Negation(trail[i]) \in clauses[w[1]]
      BY <1>3, <1>7, <3>1, SMTT(30) DEF IInv, ListsInv
    <3>3. PICK j \in DOMAIN pb.clauses[w[1]] : pb.clauses[w[1]][j] = Negation(trail[i])
      BY <1>4, <3>2 DEF Range
    <3>4. VarOf(Negation(trail[i])) = VarOf(trail[i]) /\ w[1] \in DOMAIN pb.clauses
      BY <1>2, <1>4, <3>1, <3>2, LitFacts DEF ClauseIds, WellFormed
    <3> QED BY <1>2, <1>4, <3>3, <3>4 DEF WellFormed
  <2> QED BY <2>1 DEF WatchersBlocked, DoneBin, Done
<1>13. FormulaHeld
  <2> SUFFICES ASSUME NEW C \in formula PROVE Held(C)
    BY DEF FormulaHeld
  <2>1. CASE C \in Range(clauses)
    <3>1. PICK c \in DOMAIN clauses : C = clauses[c]
      BY <2>1 DEF Range
    <3>2. c \in ClauseIds
      BY <1>3, <3>1 DEF IInv, TypeOK, ClauseIds
    <3> QED BY <1>4, <3>1, <3>2 DEF Held
  <2>2. CASE C \in UnitClauses(Range(pb.units))
    <3>1. PICK i \in DOMAIN trail : C = {trail[i]}
      BY <1>4, <2>2 DEF UnitClauses, Range
    <3>2. Assumable = {}
      BY <1>4, <3>1 DEF UnitsKept
    <3>3. LitStatus(trail[i]) = "Sat"
      BY <1>3 DEF IInv, TrailMatchesModel
    <3>4. Level(VarOf(trail[i])) = 1
      <4>1. VarOf(trail[i]) \in Vars /\ model[VarOf(trail[i])] # 0
        BY <1>3, <3>3, InvFacts DEF LitStatus
      <4>2. model[VarOf(trail[i])] \in {1, -1, 0}
        BY <1>1, <4>1 DEF New
      <4> QED BY <4>1, <4>2 DEF Level, Abs
    <3> QED BY <3>1, <3>2, <3>3, <3>4 DEF Held
  <2> QED BY <1>4, <2>1, <2>2
<1>14. LocksInv
  BY <1>4 DEF LocksInv, ReasonsAlive
<1>15. OneDecisionPerLevel
  <2>1. \A v \in Vars : model[v] \in {1, -1, 0}
    BY <1>1 DEF New
  <2>2. \A i \in DOMAIN trail : ~ (Level(VarOf(trail[i])) > 1)
    BY <1>3, <2>1, InvFacts DEF Level, Abs
  <2> QED BY <2>2 DEF OneDecisionPerLevel
<1>16. /\ StatusInv /\ PanicsWhenEmpty /\ UnboundQueued /\ AssumedTrue /\ SatSound /\ LevelsOpen
  BY <1>4 DEF StatusInv, PanicsWhenEmpty, UnboundQueued, AssumedTrue, SatSound, LevelsOpen
<1> QED BY <1>11, <1>12, <1>13, <1>14, <1>15, <1>16 DEF CompleteInv

-----------------------------------------------------------------------------
(* The invariant.                                                          *)

LEMMA StutterComplete ==
    ASSUME IInv, CompleteInv, UNCHANGED vars
    PROVE  CompleteInv'
<1>1. /\ UNCHANGED <<model, trail, reason, locked, queue>>
      /\ UNCHANGED <<clauses, watched, lbd, learned, wlist, wlistBin>>
      /\ UNCHANGED <<lit, ret, status, ptr, todoBin, todo, lvl, pc>>
      /\ UNCHANGED <<lastModel, formula, assumed, result>>
  BY DEF vars, bindingVars, dbVars, propVars, learnVars, ctlVars, clientVars
<1>2. ListsComplete' /\ ClauseIds' = ClauseIds /\ Alive' = Alive
  BY <1>1, SameDatabase
<1>3. /\ AssumedTrue' /\ OneDecisionPerLevel'
      /\ \A l : LitStatus(l)' = LitStatus(l)
      /\ \A v : Level(v)' = Level(v)
  BY <1>1, SameBound
<1>4. LocksInv'
  BY <1>1, <1>2, LocksKept
<1>5. FormulaHeld'
  BY <1>1, <1>2, <1>3, HeldKept DEF FormulaHeld
<1>6. WatchersBlocked'
  <2>1. \A i : DoneBin(i)' = DoneBin(i) /\ Done(i)' = Done(i)
    BY <1>1 DEF DoneBin, Done, GoneThrough, Level
  <2>2. \A i \in DOMAIN trail : \A w : Blocks(w[2], trail[i])' <=> Blocks(w[2], trail[i])
    BY <1>1 DEF Blocks, LitStatus, Level
  <2> QED BY <1>1, <2>1, <2>2 DEF CompleteInv, WatchersBlocked
<1>7. StatusInv' /\ PanicsWhenEmpty' /\ UnboundQueued'
  BY <1>1 DEF CompleteInv, StatusInv, PanicsWhenEmpty, UnboundQueued
<1>8. LevelsOpen'
  BY <1>1, <1>3 DEF CompleteInv, LevelsOpen
<1> QED BY <1>1, <1>2, <1>3, <1>4, <1>5, <1>6, <1>7, <1>8, SatKept DEF CompleteInv

LEMMA NextComplete ==
    ASSUME IInv, CompleteInv, OneKindOfClient, [Next]_vars
    PROVE  CompleteInv'
<1>1. CASE UNCHANGED vars
  BY <1>1, StutterComplete
<1>2. CASE ClientCall
  BY <1>2, SolveComplete, AppendClauseComplete, AssumeComplete DEF ClientCall
<1>3. CASE Propagate
  BY <1>3, StartLitComplete, EndLitComplete, VisitBinaryComplete, VisitLongComplete
     DEF Propagate, PropagateStep
<1>4. CASE Search \/ UnifyLiteral \/ Restart \/ Branch
  BY <1>4, SearchComplete, UnifyLiteralComplete, RestartComplete, BranchComplete
<1>5. CASE Conflict \/ ResolveReason \/ LearnFalse \/ UnitConflict
  BY <1>5, ConflictComplete, SetUnsatComplete
<1>6. CASE UnitPropagated \/ CallReturns
  BY <1>6, UnitPropagatedComplete, CallReturnsComplete
<1>7. CASE \/ \E u \in AssertingLits : LearnUnit(u)
           \/ \E u \in AssertingLits, s \in SecondLits(Minimized) : LearnClause(u, s)
  BY <1>7, LearnUnitComplete, LearnClauseComplete
<1> QED BY <1>1, <1>2, <1>3, <1>4, <1>5, <1>6, <1>7 DEF Next, SearchStep, CallStep

\* The whole invariant: besides what Invariance says, no clause of the client is
\* lost, the lists hold every living clause, and a watcher propagation left
\* behind has a blocking literal that stays true as long as it must.
THEOREM Completeness ==
    ASSUME OneKindOfClient, UnitsKept
    PROVE  Spec => []Inv
<1>1. Init => Inv
  BY InitInv, InitComplete DEF Inv
<1>2. Inv /\ [Next]_vars => Inv'
  BY NextInv, NextComplete DEF Inv
<1> QED BY <1>1, <1>2, PTL DEF Spec

\* When Solve answers Sat the model it keeps binds every variable and satisfies
\* the clauses given by the client and the literals it assumed.
THEOREM SatSoundness ==
    ASSUME OneKindOfClient, UnitsKept
    PROVE  Spec => []SatSound
<1>1. Inv => SatSound
  BY DEF Inv, CompleteInv
<1> QED BY <1>1, Completeness, PTL

\* reduceLearned never removes the clause some variable was propagated by.
THEOREM ReasonsStayAlive ==
    ASSUME OneKindOfClient, UnitsKept
    PROVE  Spec => []ReasonsAlive
<1>1. Inv => ReasonsAlive
  BY DEF Inv, CompleteInv, LocksInv
<1> QED BY <1>1, Completeness, PTL

\* chooseLit finds every unbound variable in the queue.
THEOREM QueueCorrectness ==
    ASSUME OneKindOfClient, UnitsKept
    PROVE  Spec => []UnboundQueued
<1>1. Inv => UnboundQueued
  BY DEF Inv, CompleteInv
<1> QED BY <1>1, Completeness, PTL

\* Every level above 1 has one decision, which opens it, and no level is
\* skipped.
THEOREM DecisionLevels ==
    ASSUME OneKindOfClient, UnitsKept
    PROVE  Spec => []OneDecisionPerLevel
<1>1. Inv => OneDecisionPerLevel
  BY DEF Inv, CompleteInv
<1> QED BY <1>1, Completeness, PTL

\* unwatchClause always finds the clause in the two lists it looks into:
\* reduceLearned only panics when there is no learned clause at all.
THEOREM PanicsOnlyWhenEmpty ==
    ASSUME OneKindOfClient, UnitsKept
    PROVE  Spec => []PanicsWhenEmpty
<1>1. Inv => PanicsWhenEmpty
  BY DEF Inv, CompleteInv
<1> QED BY <1>1, Completeness, PTL

\* The watch lists hold every living clause of three literals or more, where
\* its first two literals say, once, and nothing else.
THEOREM WatchListsCorrectness ==
    ASSUME OneKindOfClient, UnitsKept
    PROVE  Spec => []WatchListsAgree
<1>1. ASSUME Inv PROVE WatchListsAgree
  <2>0. IInv /\ CompleteInv
    BY <1>1 DEF Inv
  <2> SUFFICES ASSUME NEW l \in Lits
               PROVE  /\ \A w \in wlist[l] :
                           /\ w[1] \in Alive /\ w[2] \in clauses[w[1]]
                           /\ Negation(l) \in {watched[w[1]][1], watched[w[1]][2]}
                      /\ \A c \in Alive : Cardinality(clauses[c]) > 2 =>
                           (Negation(l) \in {watched[c][1], watched[c][2]} =>
                               Cardinality({w \in wlist[l] : w[1] = c}) = 1)
    BY DEF WatchListsAgree
  <2>1. \A w \in wlist[l] :
          /\ w[1] \in Alive /\ w[2] \in clauses[w[1]]
          /\ Negation(l) \in {watched[w[1]][1], watched[w[1]][2]}
    BY <2>0 DEF IInv, ListsInv, CompleteInv, ListsComplete
  <2>2. ASSUME NEW c \in Alive, Cardinality(clauses[c]) > 2,
               Negation(l) \in {watched[c][1], watched[c][2]}
        PROVE  Cardinality({w \in wlist[l] : w[1] = c}) = 1
    <3>1. Cardinality(clauses[c]) # 2
      <4>1. Cardinality(clauses[c]) \in Nat
        BY <2>0, ClauseFacts, ClausesFinite
      <4> QED BY <2>2, <4>1
    <3>2. IsWatched(c)
      BY <2>0, <3>1 DEF CompleteInv, ListsComplete
    <3>3. \E i \in {1, 2} : watched[c][i] = Negation(l)
      BY <2>2
    <3>4. Negation(Negation(l)) = l
      BY LitFacts
    <3>5. PICK w \in wlist[l] : w[1] = c
      BY <3>2, <3>3, <3>4 DEF IsWatched
    <3>6. \A x \in wlist[l] : x[1] = c => x = w
      BY <2>0, <3>5 DEF IInv, ListsInv
    <3>7. {x \in wlist[l] : x[1] = c} = {w}
      BY <3>5, <3>6
    <3> QED BY <3>7, FS_Singleton
  <2> QED BY <2>1, <2>2
<1> QED BY <1>1, Completeness, PTL

\* When propagate returns nil, every living clause is true or has two literals
\* that are not false: no consequence and no conflict was missed.
THEOREM PropagationCompleteness ==
    ASSUME OneKindOfClient, UnitsKept
    PROVE  Spec => []PropagationComplete
<1>1. ASSUME Inv PROVE PropagationComplete
  <2>0. IInv /\ CompleteInv
    BY <1>1 DEF Inv
  <2> SUFFICES ASSUME Propagated, status # "Unsat", NEW c \in Alive
               PROVE  \/ \E l \in clauses[c] : LitStatus(l) = "Sat"
                      \/ \E l, k \in clauses[c] : l # k /\ ~ IsFalse(l) /\ ~ IsFalse(k)
    BY DEF PropagationComplete
  <2>1. Settled
    BY <2>0, PropagatedSettled
  <2>2. /\ watched[c][1] \in clauses[c] /\ watched[c][2] \in clauses[c]
        /\ watched[c][1] # watched[c][2]
    BY <2>0, ClauseFacts
  <2>3. CASE \E l \in {watched[c][1], watched[c][2]} : IsFalse(l)
    BY <2>0, <2>1, <2>3, FalseWatched
  <2>4. CASE ~ \E l \in {watched[c][1], watched[c][2]} : IsFalse(l)
    BY <2>2, <2>4
  <2> QED BY <2>3, <2>4
<1> QED BY <1>1, Completeness, PTL

-----------------------------------------------------------------------------
(* The solver implements the service of module SatService.                 *)

\* The service means by its question what the solver means.
LEMMA SameQuestion ==
    /\ Service!Question = Question
    /\ Service!Satisfiable(Question) <=> Satisfiable(Question)
    /\ Service!Clauses = Clauses
  BY DEF Service!Question, Service!UnitClauses, Question, UnitClauses,
         Service!Satisfiable, Satisfiable, Service!Assignments, Assignments,
         Service!SatAll, SatAll, Service!SatClause, SatClause, Service!Holds, Holds,
         Service!VarOf, VarOf, Service!IsPositive, IsPositive, Service!Vars, Vars,
         Service!Clauses, Clauses, Service!Lits, Lits

\* A step by which a call of Solve returns answers the question: UnsatSound and
\* SatSound hold of the answer.
LEMMA StepAnswers ==
    ASSUME Inv, Inv', Call \in {"none", "solve"}, Call' = "none",
           result' \in {"Sat", "Unsat"}, UNCHANGED <<formula, assumed>>
    PROVE  Service!Answer
<1>1. Question' = Question
  BY DEF Question, UnitClauses
<1>2. CASE result' = "Unsat"
  <2>1. ~ Satisfiable(Question)'
    BY <1>2 DEF Inv, IInv, UnsatInv
  <2>2. ~ Satisfiable(Question)
    BY <1>1, <2>1 DEF Satisfiable, SatAll
  <2> QED BY <1>2, <2>2, SameQuestion DEF Service!Answer
<1>3. CASE result' = "Sat"
  <2>1. SatAll([v \in Vars |-> lastModel'[v] > 0], Question)
    BY <1>1, <1>3 DEF Inv, CompleteInv, SatSound, SatAll
  <2>2. [v \in Vars |-> lastModel'[v] > 0] \in Assignments
    BY DEF Assignments
  <2>3. Satisfiable(Question)
    BY <2>1, <2>2 DEF Satisfiable
  <2> QED BY <1>3, <2>3, SameQuestion DEF Service!Answer
<1> QED BY <1>2, <1>3

\* chooseLit answers Sat or goes on with the call.
LEMMA ChooseLitServes ==
    ASSUME Inv, Inv', UNCHANGED <<formula, assumed>>,
           pc # "idle", ret \notin {"append", "assume"},
           NEW q, NEW m, NEW pol, NEW k, ChooseLit(q, m, pol, k)
    PROVE  [Service!Next]_(Service!vars)
<1>1. Call = "solve"
  BY DEF Call
<1>2. CASE pc' = "idle" /\ result' = "Sat"
  <2>1. Call' = "none"
    BY <1>2 DEF Call
  <2> QED BY <1>1, <1>2, <2>1, StepAnswers DEF Service!Next
<1>3. CASE pc' = "unify" /\ ret' = "branch" /\ UNCHANGED result
  <2>1. Call' = "solve"
    BY <1>3 DEF Call
  <2> QED BY <1>1, <1>3, <2>1 DEF Service!vars
<1> QED BY <1>2, <1>3 DEF ChooseLit

\* What Solve, AppendClause and Assume do when they are called.
LEMMA ClientServed ==
    ASSUME Inv, Inv', ClientCall
    PROVE  [Service!Next]_(Service!vars)
<1>1. CASE Solve
  <2>1. pc = "idle" /\ Call = "none" /\ UNCHANGED <<formula, assumed>>
    BY <1>1 DEF Solve, Call
  <2>2. ret = "none"
    BY <2>1 DEF Inv, CompleteInv, StatusInv
  <2>3. CASE status = "Unsat"
    <3>1. result' = "Unsat" /\ Call' = "none"
      BY <1>1, <2>1, <2>3 DEF Solve, Call
    <3> QED BY <2>1, <3>1, StepAnswers DEF Service!Next
  <2>4. CASE status # "Unsat"
    <3>1. result' = "none" /\ pc' = "search" /\ ret' = "none"
      BY <1>1, <2>2, <2>4 DEF Solve
    <3>2. Call' = "solve"
      BY <3>1 DEF Call
    <3> QED BY <2>1, <3>1, <3>2 DEF Service!Next, Service!Ask
  <2> QED BY <2>3, <2>4
<1>2. ASSUME NEW C \in Appendable, AppendClause(C)
      PROVE  [Service!Next]_(Service!vars)
  <2>1. /\ pc = "idle" /\ result' = "none" /\ formula' = formula \union {C}
        /\ UNCHANGED assumed
        /\ UNCHANGED <<pc, ret>> \/ (pc' = "unify" /\ ret' = "append")
    BY <1>2 DEF AppendClause
  <2>2. C \in Service!Clauses
    BY <1>2, ClientAssumption, SameQuestion
  <2>3. Call = "none" /\ Call' \in {"none", "update"}
    BY <2>1 DEF Call
  <2> QED BY <2>1, <2>2, <2>3 DEF Service!Next, Service!Give
<1>3. ASSUME NEW L \in Assumable, Assume(L)
      PROVE  [Service!Next]_(Service!vars)
  <2>1. /\ pc = "idle" /\ result' = "none" /\ assumed' = L
        /\ UNCHANGED formula
        /\ pc' = "propagate" /\ ret' = "assume"
    BY <1>3 DEF Assume
  <2>2. L \in Service!Clauses
    BY <1>3, ClientAssumption, SameQuestion
  <2>3. Call = "none" /\ Call' = "update"
    BY <2>1 DEF Call
  <2> QED BY <2>1, <2>2, <2>3 DEF Service!Next, Service!Assume
<1> QED BY <1>1, <1>2, <1>3 DEF ClientCall

\* Inside a call the client sees nothing, except the answer and the end of the
\* call.
LEMMA SearchServes ==
    ASSUME Inv, Inv', SearchStep
    PROVE  [Service!Next]_(Service!vars)
<1>1. CASE Search \/ UnitPropagated
  <2>1. pc # "idle" /\ ret \notin {"append", "assume"} /\ UNCHANGED <<formula, assumed>>
    BY <1>1 DEF Search, UnitPropagated, Propagated, Inv, CompleteInv, StatusInv
  <2>2. \/ ChooseLit(queue, model, polarity, 2)
        \/ ChooseLit(OrderHeap(model), model, polarity, 2)
    BY <1>1 DEF Search, UnitPropagated
  <2> QED BY <2>1, <2>2, ChooseLitServes
<1>2. CASE Branch
  <2>1. pc = "propagate" /\ ret = "branch" /\ UNCHANGED <<formula, assumed>>
    BY <1>2 DEF Branch, Propagated
  <2>2. CASE ChooseLit(queue, model, polarity, lvl + 1)
    BY <2>1, <2>2, ChooseLitServes
  <2>3. CASE pc' = "panic" /\ UNCHANGED <<ret, result>>
    BY <2>1, <2>3 DEF Service!vars, Call
  <2> QED BY <1>2, <2>2, <2>3 DEF Branch
<1>3. CASE LearnFalse \/ UnitConflict
  <2>1. /\ pc \in {"learn", "conflict"} /\ ret \notin {"append", "assume"}
        /\ pc' = "idle" /\ result' = "Unsat" /\ UNCHANGED <<formula, assumed>>
    BY <1>3 DEF LearnFalse, UnitConflict, OnlyAssumed, Learnt, SetUnsat, Inv, IInv, LearnInv
  <2>2. Call = "solve" /\ Call' = "none"
    BY <2>1 DEF Call
  <2> QED BY <2>1, <2>2, StepAnswers DEF Service!Next
<1>4. CASE CallReturns
  <2>1. /\ pc # "idle" /\ ret \in {"append", "assume"}
        /\ pc' = "idle" /\ UNCHANGED <<formula, assumed, result>>
    BY <1>4 DEF CallReturns, Propagated, clientVars
  <2>2. Call = "update" /\ Call' = "none"
    BY <2>1 DEF Call
  <2> QED BY <2>1, <2>2 DEF Service!Next, Service!Updated
<1>5. CASE \/ UnifyLiteral \/ Propagate \/ Restart \/ Conflict \/ ResolveReason
           \/ \E u \in AssertingLits : LearnUnit(u)
           \/ \E u \in AssertingLits, s \in SecondLits(Minimized) : LearnClause(u, s)
  <2>1. /\ pc # "idle" /\ pc' # "idle" /\ UNCHANGED <<formula, assumed, result>>
        /\ ret' = ret \/ {ret, ret'} \subseteq {"branch", "unit", "none"}
    <3>1. CASE UnifyLiteral \/ Restart \/ Conflict
      BY <3>1 DEF UnifyLiteral, Restart, Restarted, Conflict, Propagated, clientVars
    <3>2. CASE Propagate
      <4>1. UNCHANGED <<ret, formula, assumed, result>>
        BY <3>2 DEF Propagate, ctlVars, clientVars
      <4>2. pc # "idle" /\ pc' \in {"propagate", "visit", "conflict"}
        <5>1. CASE StartLit
          BY <5>1 DEF StartLit
        <5>2. CASE EndLit
          BY <5>2 DEF EndLit
        <5>3. CASE \E w \in todoBin : VisitBinary(w)
          BY <5>3 DEF VisitBinary, ReturnConflict, Imply
        <5>4. CASE \E w \in todo : VisitLong(w)
          BY <5>4 DEF VisitLong, ReturnConflict
        <5> QED BY <3>2, <5>1, <5>2, <5>3, <5>4 DEF Propagate, PropagateStep
      <4> QED BY <4>1, <4>2
    <3>3. CASE ResolveReason
      BY <3>3 DEF ResolveReason, Resolve, ctlVars, clientVars
    <3>4. CASE \/ \E u \in AssertingLits : LearnUnit(u)
               \/ \E u \in AssertingLits, s \in SecondLits(Minimized) : LearnClause(u, s)
      BY <3>4 DEF LearnUnit, LearnClause, Learnt, clientVars, Inv, IInv, LearnInv
    <3> QED BY <1>5, <3>1, <3>2, <3>3, <3>4
  <2>2. Call' = Call
    BY <2>1 DEF Call
  <2> QED BY <2>1, <2>2 DEF Service!vars
<1> QED BY <1>1, <1>2, <1>3, <1>4, <1>5 DEF SearchStep, CallStep

\* The solver implements its service: seen from the client, a call of Solve does
\* nothing but answer whether the clauses given and the literals assumed can be
\* satisfied together, and the other calls only change this question.
THEOREM Refinement ==
    ASSUME OneKindOfClient, UnitsKept
    PROVE  Spec => RefinesService
<1>1. Init => Service!Init
  <2>1. Init => formula \in SUBSET Clauses
    BY InitInv DEF IInv, TypeOK
  <2>2. Init => Call = "none" /\ assumed = {} /\ result = "none"
    BY DEF Init, Call
  <2> QED BY <2>1, <2>2, SameQuestion DEF Service!Init
<1>2. Inv /\ Inv' /\ [Next]_vars => [Service!Next]_(Service!vars)
  <2>1. CASE UNCHANGED vars
    BY <2>1 DEF vars, clientVars, ctlVars, Service!vars, Call
  <2> QED BY <2>1, ClientServed, SearchServes DEF Next
<1>3. Init /\ [][Next]_vars /\ []Inv => Service!Init /\ [][Service!Next]_(Service!vars)
  BY <1>1, <1>2, PTL
<1>4. Spec => Init /\ [][Next]_vars /\ []Inv
  BY Completeness DEF Spec
<1> QED BY <1>3, <1>4 DEF RefinesService, Service!Spec
=============================================================================
