------------------------------ MODULE PBProofs ------------------------------
(***************************************************************************)
(* Why the search on pseudo-boolean problems (module PBSolver) only holds  *)
(* what follows from what it was given: every step keeps the invariant     *)
(* PBInv of module PBSafety, whether the solver learns clauses or          *)
(* constraints.  Hence Unsat is right when it learns clauses, what it      *)
(* learns and what it binds follows from the problem, and no step panics.  *)
(***************************************************************************)
EXTENDS PBLemmas

-----------------------------------------------------------------------------
(* Conflict analysis with clauses.                                         *)

\* Only one literal of a variable is false.
LEMMA OneFalse ==
    ASSUME model \in [Vars -> Int], NEW k \in Lits, NEW l \in Lits, VarOf(k) = VarOf(l),
           IsFalse(k), IsFalse(l)
    PROVE  k = l
<1>1. IsPositive(k) \in BOOLEAN /\ IsPositive(l) \in BOOLEAN
  BY LitFacts
<1>2. IsPositive(k) = IsPositive(l)
  BY <1>1, StatusFacts
<1> QED BY <1>2, SameVar

\* What is said below uses this of the invariant.
LEMMA LearnFacts ==
    ASSUME LiveInv, pc \in {"conflict", "learn"}
    PROVE  /\ Bound(Len(trail)) /\ TrailBound(Len(trail)) /\ ReasonsHold
           /\ model \in [Vars -> Int] /\ trail \in Seq(Lits)
           /\ Len(trail) \in Nat /\ DOMAIN trail = 1 .. Len(trail)
           /\ \A i \in 1 .. Len(trail) : trail[i] \in Lits /\ VarOf(trail[i]) \in Vars
           /\ \A i \in 1 .. Len(trail) : Negation(trail[i]) \in Lits
           /\ \A i \in 1 .. Len(trail) : VarOf(Negation(trail[i])) = VarOf(trail[i])
           /\ \A i \in 1 .. Len(trail) : IsFalse(Negation(trail[i]))
           /\ \A v \in Vars : Level(v) \in Nat /\ (Level(v) = 0 <=> model[v] = 0)
           /\ \A v \in Vars : Level(v) <= lvl
           /\ lvl \in Nat \ {0} /\ lits \subseteq Lits /\ met \subseteq Vars
<1>1. PICK n : n = Len(trail) /\ n \in Nat /\ Bound(n)
  BY BoundNow
<1>2. PBTypeOK /\ TrailBound(n) /\ ReasonsHold
  BY <1>1 DEF Bound
<1>3. /\ model \in [Vars -> Int] /\ trail \in Seq(Lits) /\ lits \subseteq Lits /\ met \subseteq Vars
      /\ lvl \in Nat
  BY <1>2 DEF PBTypeOK, Clauses
<1>4. /\ Len(trail) \in Nat /\ DOMAIN trail = 1 .. Len(trail)
      /\ \A i \in DOMAIN trail : trail[i] \in Lits /\ VarOf(trail[i]) \in Vars
      /\ \A v \in Vars : Level(v) \in Nat /\ (Level(v) = 0 <=> model[v] = 0)
  BY <1>2, TrailType
<1>5. \A i \in 1 .. Len(trail) : Negation(trail[i]) \in Lits /\ VarOf(Negation(trail[i])) = VarOf(trail[i])
  BY <1>4, LitFacts
<1>6. \A i \in 1 .. Len(trail) : LitStatus(trail[i]) = "Sat"
  BY <1>1, <1>2 DEF TrailBound
<1>7. \A i \in 1 .. Len(trail) : IsFalse(Negation(trail[i]))
  <2> SUFFICES ASSUME NEW i \in 1 .. Len(trail) PROVE IsFalse(Negation(trail[i]))
    OBVIOUS
  <2>1. trail[i] \in Lits /\ Negation(trail[i]) \in Lits /\ Negation(Negation(trail[i])) = trail[i]
    BY <1>4, LitFacts
  <2> QED BY <1>2, <1>6, <2>1, BoundFacts
<1>8. lvl >= 1 /\ \A v \in Vars : Level(v) <= lvl
  <2>1. PBLevelsInv /\ (pc = "learn" => lvl > 1)
    BY DEF LiveInv, PBLearnInv
  <2> QED BY <2>1, <1>3 DEF PBLevelsInv
<1>9. lvl \in Nat \ {0}
  BY <1>3, <1>8
<1> QED BY <1>1, <1>2, <1>3, <1>4, <1>5, <1>7, <1>8, <1>9

\* A false literal is on the trail, negated.
LEMMA FalseOnTrail ==
    ASSUME LiveInv, pc \in {"conflict", "learn"}, NEW l \in Lits, IsFalse(l)
    PROVE  \E i \in 1 .. Len(trail) :
              /\ trail[i] = Negation(l) /\ Negation(trail[i]) = l /\ VarOf(trail[i]) = VarOf(l)
<1>1. PBTypeOK /\ TrailBound(Len(trail)) /\ Len(trail) \in Nat
  BY LearnFacts DEF LiveInv
<1>2. Negation(l) \in UpTo(Len(trail))
  BY <1>1, BoundFacts
<1> QED BY <1>2, LitFacts DEF UpTo

\* What the analysis leaves alone.
LearnKeeps ==
    UNCHANGED <<model, trail, reason, polarity, queue, clauses, watched, wlistBin, wlist, pbs,
                wlistPb, visiting, pos, ptr, lvl, todoBin, todo, lit, pending, assumptions, cut,
                cutPtr, problem>>

LEMMA LearnGoesOn ==
    ASSUME LiveInv, pc \in {"conflict", "learn"}, pc' = "learn", LearnKeeps, PBLearnInv',
           met' \subseteq Vars, metLvl' \subseteq Vars, lits' \in Clauses, nbLvl' \in Int, walk' \in Int
    PROVE  LiveInv'
<1>1. UNCHANGED <<model, trail, reason, polarity, queue, clauses, watched, wlistBin, wlist, pbs,
                  wlistPb, visiting, pos, ptr, lvl, todoBin, todo, lit, pending, assumptions, cut,
                  cutPtr, problem>>
  BY DEF LearnKeeps
<1>2. /\ KeepsAll /\ DatabaseOK' /\ Solutions' = Solutions /\ ClauseIds' = ClauseIds
  BY <1>1, SameDatabase DEF LiveInv
<1>3. PBTypeOK /\ PBListsInv'
  BY <1>1, SameLists DEF LiveInv
<1>4. BindingsOK' /\ \A v \in Vars : Level(v)' = Level(v)
  BY <1>1, <1>2, BindingsStay
<1>5. PBTypeOK'
  BY <1>1, <1>2, <1>3 DEF PBTypeOK, Watchers
<1>6. PBVisitInv' /\ CutInv'
  BY DEF PBVisitInv, CutInv
<1>7. PBLevelsInv'
  BY <1>1, <1>4, LearnFacts DEF PBLevelsInv
<1>8. PBUnifyInv'
  <2>1. \A k \in DOMAIN pending : Follows(pending[k])
    BY DEF LiveInv, PBUnifyInv
  <2>2. \A l : Follows(l)' <=> Follows(l)
    BY <1>2 DEF Follows
  <2>3. \A k \in DOMAIN pending' : Follows(pending[k])'
    BY <1>1, <2>1, <2>2
  <2> QED BY <2>3 DEF PBUnifyInv
<1> QED BY <1>2, <1>3, <1>4, <1>5, <1>6, <1>7, <1>8 DEF LiveInv

\* The start of the analysis, with the literals of the constraint that are false.
LEMMA ConflictLive ==
    ASSUME LiveInv, Conflict, UNCHANGED <<pbVars, cutVars, pbCtlVars>>, Solutions # {}
    PROVE  LiveInv'
<1> DEFINE F == {l \in clauses[confl] : IsFalse(l)}
           D == AtLvl(F)
<1>0. pc = "conflict" /\ pc' = "learn" /\ StartLearn(confl) /\ LearnKeeps
  BY DEF Conflict, LearnKeeps, bindingVars, dbVars, propVars, ctlVars, clientVars, pbVars, cutVars,
         pbCtlVars
<1>1. /\ met' = VarsOf(F) /\ metLvl' = VarsOf(D) /\ nbLvl' = Cardinality(D)
      /\ lits' = F \ D /\ walk' = Len(trail)
  BY <1>0 DEF StartLearn
<1>2. /\ confl \in ClauseIds /\ ~ Enough({l \in Lits : ~ IsFalse(l)}, confl)
      /\ \E l \in clauses[confl] : IsFalse(l) /\ Level(VarOf(l)) = lvl
  BY <1>0 DEF LiveInv, PBVisitInv
<1>3. /\ PBTypeOK /\ DatabaseOK /\ FactsFollow /\ TrailBound(Len(trail)) /\ Len(trail) \in Nat
      /\ model \in [Vars -> Int] /\ lvl \in Nat \ {0}
      /\ \A v \in Vars : Level(v) \in Nat /\ (Level(v) = 0 <=> model[v] = 0)
      /\ \A v \in Vars : Level(v) <= lvl
      /\ \A i \in 1 .. Len(trail) : trail[i] \in Lits /\ VarOf(trail[i]) \in Vars
      /\ \A i \in 1 .. Len(trail) : IsFalse(Negation(trail[i])) /\ Negation(trail[i]) \in Lits
      /\ \A i \in 1 .. Len(trail) : VarOf(Negation(trail[i])) = VarOf(trail[i])
  BY <1>0, LearnFacts DEF LiveInv, Bound
<1>4. lvl > 1
  <2> SUFFICES ASSUME ~ (lvl > 1) PROVE FALSE
    OBVIOUS
  <2>1. \A v \in Vars : Level(v) <= 1
    BY <1>3
  <2> QED BY <1>2, <1>3, <2>1, NoConflictAtLevelOne
<1>5. /\ ConstraintOK(confl) /\ clauses[confl] \in Clauses
      /\ \A a \in Solutions : a \in Assignments /\ Enough(Made(a), confl)
  BY <1>2, <1>3, ConstraintsOK
<1>6. \A l \in F : /\ l \in Lits /\ IsFalse(l) /\ VarOf(l) \in Vars /\ Level(VarOf(l)) \in Nat
                   /\ Level(VarOf(l)) <= lvl /\ model[VarOf(l)] # 0
  <2> SUFFICES ASSUME NEW l \in F
               PROVE  /\ l \in Lits /\ IsFalse(l) /\ VarOf(l) \in Vars /\ Level(VarOf(l)) \in Nat
                      /\ Level(VarOf(l)) <= lvl /\ model[VarOf(l)] # 0
    OBVIOUS
  <2>1. l \in Lits /\ IsFalse(l)
    BY <1>5 DEF Clauses
  <2>2. VarOf(l) \in Vars /\ model[VarOf(l)] # 0
    BY <1>3, <2>1, LitFacts, StatusFacts
  <2> QED BY <1>3, <2>1, <2>2
<1>7. D = {l \in F : Level(VarOf(l)) = lvl}
  BY DEF AtLvl
<1>8. \E l \in D : TRUE
  BY <1>2, <1>7
<1>9. \A a \in Solutions : \E l \in F : Holds(a, l)
  <2> SUFFICES ASSUME NEW a \in Solutions PROVE \E l \in F : Holds(a, l)
    OBVIOUS
  <2>1. PICK k \in clauses[confl] : k \notin {l \in Lits : ~ IsFalse(l)} /\ k \in Lits /\ Holds(a, k)
    BY <1>2, <1>5, NotEnough
  <2> QED BY <2>1
<1> HIDE DEF F, D
<1>10. \A l \in F : \E i \in 1 .. Len(trail) : Negation(trail[i]) = l /\ VarOf(trail[i]) = VarOf(l)
  BY <1>0, <1>6, FalseOnTrail
<1>11. \A k, l \in F : VarOf(k) = VarOf(l) => k = l
  BY <1>3, <1>6, OneFalse
<1>12. \A i \in 1 .. Len(trail), l \in F : VarOf(trail[i]) = VarOf(l) => Negation(trail[i]) = l
  <2> SUFFICES ASSUME NEW i \in 1 .. Len(trail), NEW l \in F, VarOf(trail[i]) = VarOf(l)
               PROVE  Negation(trail[i]) = l
    OBVIOUS
  <2>1. Negation(trail[i]) \in Lits /\ IsFalse(Negation(trail[i])) /\ VarOf(Negation(trail[i])) = VarOf(l)
    BY <1>3
  <2> QED BY <1>3, <1>6, <2>1, OneFalse
<1>13. D \in Clauses /\ D \subseteq F
  BY <1>6, <1>7 DEF Clauses
<1>14. Pending' = VarsOf(D)
  <2>1. \A l \in D : \E i \in 1 .. Len(trail) : VarOf(trail[i]) = VarOf(l)
    BY <1>10, <1>13
  <2>2. trail' = trail
    BY <1>0 DEF LearnKeeps
  <2> QED BY <1>1, <2>1, <2>2 DEF Pending, VarsOf
<1>15. nbLvl' = Cardinality(Pending') /\ nbLvl' >= 1 /\ nbLvl' \in Int
  <2>1. Cardinality(VarsOf(D)) = Cardinality(D)
    BY <1>11, <1>13, CardinalityVarsOf
  <2>2. IsFiniteSet(D) /\ Cardinality(D) \in Nat
    BY <1>13, ClausesFinite
  <2>3. Cardinality(D) # 0
    BY <1>8, <2>2, FS_EmptySet
  <2> QED BY <1>1, <1>14, <2>1, <2>2, <2>3
<1>16. /\ met' \subseteq Vars /\ metLvl' \subseteq Vars /\ metLvl' \subseteq met'
       /\ lits' \in Clauses
  BY <1>1, <1>6, <1>13 DEF VarsOf, Clauses
<1>17. /\ UNCHANGED <<model, trail, lvl, problem>>
       /\ \A l \in Lits : IsFalse(l)' = IsFalse(l)
       /\ \A v \in Vars : Level(v)' = Level(v)
       /\ Solutions' = Solutions
  BY <1>0 DEF LearnKeeps, IsFalse, LitStatus, Level, Solutions
<1>18. \A v \in metLvl' : Level(v)' = lvl'
  <2>1. \A v \in metLvl' : Level(v) = lvl
    BY <1>1, <1>7 DEF VarsOf
  <2> QED BY <2>1, <1>16, <1>17
<1>19. \A l \in lits' : IsFalse(l)' /\ Level(VarOf(l))' < lvl'
  <2>1. \A l \in lits' : l \in F /\ IsFalse(l) /\ Level(VarOf(l)) < lvl
    BY <1>1, <1>3, <1>6, <1>7
  <2> QED BY <2>1, <1>6, <1>17
<1>20. \A i \in 1 .. walk' :
         VarOf(trail'[i]) \in met' => VarOf(trail'[i]) \in metLvl' \/ Negation(trail'[i]) \in lits'
  BY <1>1, <1>12, <1>17 DEF VarsOf
<1>21. \A v \in met' : model'[v] # 0 /\ (Level(v)' < lvl' => \E l \in lits' : VarOf(l) = v)
  <2>1. \A v \in met' : model[v] # 0 /\ (Level(v) < lvl => \E l \in lits' : VarOf(l) = v)
    BY <1>1, <1>3, <1>6, <1>7 DEF VarsOf
  <2> QED BY <2>1, <1>16, <1>17
<1>22. F \subseteq Resolvent'
  <2> SUFFICES ASSUME NEW l \in F, l \notin lits' PROVE l \in Resolvent'
    BY DEF Resolvent
  <2>1. VarOf(l) \in metLvl'
    BY <1>1 DEF VarsOf
  <2> QED BY <1>1, <1>10, <1>17, <2>1 DEF Resolvent
<1>23. \A a \in Solutions' : SatClause(a, Resolvent')
  BY <1>9, <1>17, <1>22 DEF SatClause
<1>24. walk' \in 0 .. Len(trail') /\ walk' \in Int /\ lvl' > 1
  BY <1>1, <1>3, <1>4, <1>17
<1>25. \A i \in walk' + 1 .. Len(trail') : Level(VarOf(trail[i]))' = lvl' => VarOf(trail'[i]) \in met'
  BY <1>1, <1>3, <1>17
<1>26. PBLearnInv'
  BY <1>15, <1>16, <1>18, <1>19, <1>20, <1>21, <1>23, <1>24, <1>25 DEF PBLearnInv
<1> QED BY <1>0, <1>15, <1>16, <1>24, <1>26, LearnGoesOn

\* The inner loop of learnClause finds a variable: one is pending.
LEMMA MetFacts ==
    ASSUME LiveInv, pc = "learn"
    PROVE  /\ NextMet \in 1 .. walk /\ ResolveVar \in metLvl /\ Level(ResolveVar) = lvl
           /\ \A i \in 1 .. walk : VarOf(trail[i]) \in metLvl => i <= NextMet
<1> DEFINE K == {i \in 1 .. walk : VarOf(trail[i]) \in metLvl}
<1>1. /\ nbLvl = Cardinality(Pending) /\ nbLvl >= 1 /\ \A v \in metLvl : Level(v) = lvl
      /\ walk \in 0 .. Len(trail)
  BY DEF LiveInv, PBLearnInv
<1>2. Pending # {}
  BY <1>1, FS_EmptySet
<1>3. K # {} /\ K \subseteq 0 .. walk /\ walk \in Nat
  <2>1. walk \in Nat
    BY <1>1, LearnFacts
  <2>2. \E i \in 1 .. walk : VarOf(trail[i]) \in metLvl
    BY <1>2 DEF Pending
  <2> QED BY <2>1, <2>2
<1>4. NextMet = Max(K)
  BY DEF NextMet
<1>5. Max(K) \in K /\ \A i \in K : i <= Max(K)
  <2> HIDE DEF K
  <2> QED BY <1>3, MaxOfNats
<1> QED BY <1>1, <1>4, <1>5 DEF ResolveVar

\* One turn of the loop.  The variable at hand has a reason, since another one
\* of the level comes before it on the trail; what does not satisfy its literal
\* satisfies one of those that were false when it was bound.
LEMMA ResolveLive ==
    ASSUME LiveInv, ResolveReason, UNCHANGED <<pbVars, cutVars, pbCtlVars>>
    PROVE  LiveInv'
<1> DEFINE K == {i \in 1 .. walk : VarOf(trail[i]) \in metLvl}
           n == NextMet
           v == ResolveVar
           seen == met \union SteppedOver
           new == NewLits(v, seen)
           D == AtLvl(new)
<1>0. pc = "learn" /\ pc' = "learn" /\ nbLvl > 1 /\ LearnKeeps
  BY DEF ResolveReason, Resolve, LearnKeeps, bindingVars, dbVars, ctlVars, clientVars, pbVars,
         cutVars, pbCtlVars
<1>1. /\ met' = seen \union VarsOf(new) /\ metLvl' = metLvl \union VarsOf(D)
      /\ nbLvl' = (nbLvl - 1) + Cardinality(D)
      /\ lits' = lits \union (new \ D) /\ walk' = n - 1
  BY DEF ResolveReason, Resolve
<1>2. /\ PBTypeOK /\ DatabaseOK /\ TrailBound(Len(trail)) /\ ReasonsHold
      /\ model \in [Vars -> Int] /\ Len(trail) \in Nat /\ DOMAIN trail = 1 .. Len(trail)
      /\ \A i \in 1 .. Len(trail) : trail[i] \in Lits /\ VarOf(trail[i]) \in Vars
      /\ \A i \in 1 .. Len(trail) : Negation(trail[i]) \in Lits /\ IsFalse(Negation(trail[i]))
      /\ \A i \in 1 .. Len(trail) : VarOf(Negation(trail[i])) = VarOf(trail[i])
      /\ lits \subseteq Lits /\ met \subseteq Vars
      /\ \A x \in Vars : Level(x) \in Nat /\ (Level(x) = 0 <=> model[x] = 0)
      /\ \A x \in Vars : Level(x) <= lvl
      /\ lvl \in Nat \ {0}
  BY <1>0, LearnFacts DEF LiveInv
<1>3. /\ lvl > 1 /\ walk \in 0 .. Len(trail) /\ walk \in Nat /\ metLvl \subseteq met
      /\ nbLvl = Cardinality(Pending)
      /\ \A x \in metLvl : Level(x) = lvl
      /\ \A l \in lits : IsFalse(l) /\ Level(VarOf(l)) < lvl
      /\ \A i \in 1 .. walk :
            VarOf(trail[i]) \in met => \/ VarOf(trail[i]) \in metLvl
                                       \/ Negation(trail[i]) \in lits
      /\ \A i \in walk + 1 .. Len(trail) : Level(VarOf(trail[i])) = lvl => VarOf(trail[i]) \in met
      /\ \A x \in met : model[x] # 0 /\ (Level(x) < lvl => \E l \in lits : VarOf(l) = x)
      /\ \A a \in Solutions : SatClause(a, Resolvent)
  BY <1>0, <1>2 DEF LiveInv, PBLearnInv
<1>4. Pending \subseteq Vars /\ IsFiniteSet(Pending) /\ Cardinality(Pending) \in Nat
  <2>1. Pending \subseteq Vars
    BY <1>2, <1>3 DEF Pending
  <2> QED BY <2>1, VarsFinite
<1>5. n \in 1 .. walk /\ VarOf(trail[n]) \in metLvl /\ \A i \in K : i <= n
  BY <1>0, MetFacts DEF ResolveVar
<1>6. v = VarOf(trail[n])
  BY DEF ResolveVar
<1>7. \A x : x \in SteppedOver <=>
        x \in Vars /\ Level(x) = lvl /\ \E i \in n + 1 .. walk : VarOf(trail[i]) = x
  BY DEF SteppedOver
<1> HIDE DEF n
<1>8. /\ n \in 1 .. Len(trail) /\ n \in Nat /\ v \in Vars /\ v \in Pending /\ v \in metLvl
      /\ Level(v) = lvl
  BY <1>2, <1>3, <1>5, <1>6 DEF Pending
<1>9. \A i, j \in 1 .. Len(trail) :
        VarOf(trail[i]) = VarOf(trail[j]) /\ Level(VarOf(trail[i])) = lvl => i = j
  <2> SUFFICES ASSUME NEW i \in 1 .. Len(trail), NEW j \in 1 .. Len(trail),
                      VarOf(trail[i]) = VarOf(trail[j]), Level(VarOf(trail[i])) = lvl, i # j
               PROVE  FALSE
    OBVIOUS
  <2>1. Level(VarOf(trail[i])) = 1
    BY <1>2 DEF TrailBound
  <2> QED BY <1>3, <2>1
<1>10. PICK j1 \in 1 .. n - 1 : VarOf(trail[j1]) \in metLvl
  <2>1. Pending # {v}
    <3>1. Cardinality(Pending) # 1
      BY <1>0, <1>3
    <3>2. Cardinality({v}) = 1
      BY FS_Singleton
    <3> QED BY <3>1, <3>2
  <2>2. PICK x \in Pending : x # v
    BY <1>8, <2>1
  <2>3. PICK j \in 1 .. walk : VarOf(trail[j]) = x /\ x \in metLvl
    BY <2>2 DEF Pending
  <2>4. j \in K /\ j # n
    BY <2>2, <2>3, <1>6
  <2>5. j \in 1 .. n - 1
    BY <2>3, <2>4, <1>5, <1>3
  <2> QED BY <2>3, <2>5
<1>11. reason[v] # Nil
  <2> SUFFICES ASSUME reason[v] = Nil PROVE FALSE
    OBVIOUS
  <2>1. j1 \in 1 .. Len(trail) /\ j1 < n /\ Level(VarOf(trail[j1])) = lvl
    BY <1>3, <1>8, <1>10
  <2>2. Level(VarOf(trail[j1])) < Level(VarOf(trail[n]))
    <3>1. \A i, j \in 1 .. Len(trail) :
            Level(VarOf(trail[i])) > 1 /\ reason[VarOf(trail[i])] = Nil /\ j < i =>
                Level(VarOf(trail[j])) < Level(VarOf(trail[i]))
      BY <1>2 DEF TrailBound
    <3>2. Level(VarOf(trail[n])) > 1 /\ reason[VarOf(trail[n])] = Nil
      BY <1>3, <1>6, <1>8
    <3> QED BY <1>8, <2>1, <3>1, <3>2
  <2>3. lvl < lvl /\ lvl \in Nat
    BY <1>2, <1>6, <1>8, <2>1, <2>2
  <2> QED BY <2>3
<1> DEFINE r == reason[v]
           R == clauses[r]
<1>12. r \in ClauseIds
  BY <1>2, <1>8, <1>11 DEF PBTypeOK
<1>13. ConstraintOK(r) /\ R \in Clauses /\ \A a \in Solutions : a \in Assignments /\ Enough(Made(a), r)
  BY <1>2, <1>12, ConstraintsOK
<1>14. ImpliedBy(r, trail[n], FalseBefore(n))
  BY <1>2, <1>6, <1>8, <1>11 DEF ReasonsHold
<1>15. new = {l \in R : VarOf(l) \notin seen /\ IsFalse(l)}
  BY <1>11 DEF NewLits
<1> HIDE DEF v, R, r, new, seen, K, D
<1>16. \A i \in 1 .. n : VarOf(trail[i]) \notin SteppedOver
  <2> SUFFICES ASSUME NEW i \in 1 .. n, VarOf(trail[i]) \in SteppedOver PROVE FALSE
    OBVIOUS
  <2>1. PICK j \in n + 1 .. walk : VarOf(trail[j]) = VarOf(trail[i])
    BY <1>7
  <2>2. i \in 1 .. Len(trail) /\ j \in 1 .. Len(trail) /\ i # j
    BY <1>2, <1>3, <1>8
  <2> QED BY <1>7, <1>9, <2>1, <2>2
\* A new literal was bound before the one at hand.
<1>17. ASSUME NEW l \in new
       PROVE  /\ VarOf(l) \notin seen /\ IsFalse(l) /\ l \in Lits /\ VarOf(l) \in Vars
              /\ \E j \in 1 .. n - 1 : Negation(trail[j]) = l /\ VarOf(trail[j]) = VarOf(l)
              /\ model[VarOf(l)] # 0 /\ Level(VarOf(l)) \in Nat /\ Level(VarOf(l)) <= lvl
  <2>1. l \in R /\ VarOf(l) \notin seen /\ IsFalse(l)
    BY <1>15
  <2>2. l \in Lits /\ VarOf(l) \in Vars
    BY <1>13, <2>1, LitFacts DEF Clauses
  <2>3. model[VarOf(l)] # 0
    BY <1>2, <2>1, <2>2, StatusFacts
  <2>4. PICK j \in 1 .. Len(trail) : Negation(trail[j]) = l /\ VarOf(trail[j]) = VarOf(l)
    BY <1>0, <2>1, <2>2, FalseOnTrail
  <2>5. j \in 1 .. n - 1
    <3> SUFFICES ASSUME j >= n PROVE FALSE
      BY <1>8
    <3>1. j # n
      BY <1>3, <1>5, <2>1, <2>4 DEF seen
    <3>2. Level(VarOf(trail[n])) <= Level(VarOf(trail[j]))
      BY <1>2, <1>8 DEF TrailBound
    <3>3. Level(VarOf(trail[j])) = lvl
      BY <1>2, <1>6, <1>8, <3>2
    <3>4. CASE j <= walk
      <4>1. j \in n + 1 .. walk
        BY <1>8, <3>1, <3>4
      <4> QED BY <1>2, <1>7, <2>1, <2>4, <3>3, <4>1 DEF seen
    <3>5. CASE j > walk
      <4>1. j \in walk + 1 .. Len(trail)
        BY <1>3, <3>5
      <4> QED BY <1>3, <2>1, <2>4, <3>3, <4>1 DEF seen
    <3> QED BY <1>3, <3>4, <3>5
  <2> QED BY <1>2, <2>1, <2>2, <2>3, <2>4, <2>5
<1>18. ASSUME NEW i \in 1 .. n - 1, NEW l \in new, VarOf(trail[i]) = VarOf(l)
       PROVE  Negation(trail[i]) = l
  <2>1. i \in 1 .. Len(trail)
    BY <1>8
  <2>2. /\ Negation(trail[i]) \in Lits /\ IsFalse(Negation(trail[i]))
        /\ VarOf(Negation(trail[i])) = VarOf(l)
    BY <1>2, <1>18, <2>1
  <2> QED BY <1>2, <1>17, <2>2, OneFalse
<1>19. D \subseteq new /\ D \in Clauses /\ \A l \in new : l \in D <=> Level(VarOf(l)) = lvl
  BY <1>17 DEF D, AtLvl, Clauses
<1>20. SteppedOver \subseteq Vars /\ VarsOf(new) \subseteq Vars /\ VarsOf(D) \subseteq VarsOf(new)
  BY <1>7, <1>17, <1>19 DEF VarsOf
<1>21. trail' = trail /\ model' = model /\ lvl' = lvl
  BY <1>0 DEF LearnKeeps
<1>22. Pending' = (Pending \ {v}) \union VarsOf(D)
  <2>1. Pending' = {x \in metLvl \union VarsOf(D) : \E i \in 1 .. n - 1 : VarOf(trail[i]) = x}
    BY <1>1, <1>21 DEF Pending
  <2>2. ASSUME NEW x \in Pending, x # v PROVE \E i \in 1 .. n - 1 : VarOf(trail[i]) = x
    <3>1. PICK i \in 1 .. walk : VarOf(trail[i]) = x /\ x \in metLvl
      BY DEF Pending
    <3>2. i \in K /\ i # n
      BY <2>2, <3>1, <1>6 DEF K
    <3> QED BY <3>1, <3>2, <1>5, <1>3
  <2>3. ASSUME NEW x \in VarsOf(D) PROVE \E i \in 1 .. n - 1 : VarOf(trail[i]) = x
    <3>1. PICK l \in D : VarOf(l) = x
      BY DEF VarsOf
    <3>2. l \in new
      BY <1>19, <3>1
    <3>3. PICK j \in 1 .. n - 1 : Negation(trail[j]) = l /\ VarOf(trail[j]) = VarOf(l)
      BY <1>17, <3>2
    <3> QED BY <3>1, <3>3
  <2>4. ASSUME NEW x \in metLvl, NEW i \in 1 .. n - 1, VarOf(trail[i]) = x
        PROVE  x \in Pending /\ x # v
    <3>1. i \in 1 .. walk /\ i \in 1 .. Len(trail) /\ i # n
      BY <1>3, <1>5, <1>8
    <3>2. x # v
      BY <1>3, <1>6, <1>8, <1>9, <2>4, <3>1
    <3> QED BY <2>4, <3>1, <3>2 DEF Pending
  <2> QED BY <2>1, <2>2, <2>3, <2>4 DEF Pending
<1>23. VarsOf(D) \cap Pending = {}
  BY <1>3, <1>17, <1>19 DEF VarsOf, Pending, seen
<1>24. nbLvl' = Cardinality(Pending') /\ nbLvl' >= 1 /\ nbLvl' \in Int
  <2>1. \A k, l \in D : VarOf(k) = VarOf(l) => k = l
    <3> SUFFICES ASSUME NEW k \in D, NEW l \in D, VarOf(k) = VarOf(l) PROVE k = l
      OBVIOUS
    <3>1. k \in new /\ l \in new
      BY <1>19
    <3> QED BY <1>2, <1>17, <3>1, OneFalse
  <2>2. Cardinality(VarsOf(D)) = Cardinality(D)
    BY <1>19, <2>1, CardinalityVarsOf
  <2>3. Cardinality(Pending') = (Cardinality(Pending) - 1) + Cardinality(VarsOf(D))
    <3>1. VarsOf(D) \subseteq Vars
      BY <1>20
    <3> QED BY <1>4, <1>8, <1>22, <1>23, <3>1, CardinalityReplace
  <2>4. Cardinality(D) \in Nat
    BY <1>19, ClausesFinite
  <2> QED BY <1>0, <1>1, <1>3, <1>4, <2>2, <2>3, <2>4
<1>25. /\ met' \subseteq Vars /\ metLvl' \subseteq Vars /\ metLvl' \subseteq met'
       /\ lits' \in Clauses
  BY <1>1, <1>2, <1>3, <1>17, <1>20 DEF seen, Clauses
<1>26. /\ \A l \in Lits : IsFalse(l)' = IsFalse(l)
       /\ \A x \in Vars : Level(x)' = Level(x)
       /\ Solutions' = Solutions
  BY <1>0 DEF LearnKeeps, IsFalse, LitStatus, Level, Solutions
<1>27. \A x \in metLvl' : Level(x)' = lvl'
  <2>1. \A x \in VarsOf(D) : Level(x) = lvl
    BY <1>19 DEF VarsOf
  <2> QED BY <1>1, <1>3, <1>21, <1>25, <1>26, <2>1
<1>28. \A l \in lits' : IsFalse(l)' /\ Level(VarOf(l))' < lvl'
  <2> SUFFICES ASSUME NEW l \in lits' PROVE IsFalse(l) /\ Level(VarOf(l)) < lvl /\ l \in Lits
    BY <1>21, <1>26, LitFacts
  <2>1. CASE l \in lits
    BY <1>2, <1>3, <2>1
  <2>2. CASE l \in new \ D
    BY <1>2, <1>17, <1>19, <2>2
  <2> QED BY <1>1, <2>1, <2>2
<1>29. ASSUME NEW i \in 1 .. n - 1, VarOf(trail[i]) \in met'
       PROVE  VarOf(trail[i]) \in metLvl' \/ Negation(trail[i]) \in lits'
  <2>1. i \in 1 .. walk /\ i \in 1 .. n
    BY <1>3, <1>5, <1>8
  <2>2. VarOf(trail[i]) \in met \/ VarOf(trail[i]) \in VarsOf(new)
    BY <1>1, <1>16, <1>29, <2>1 DEF seen
  <2>3. CASE VarOf(trail[i]) \in met
    BY <1>1, <1>3, <2>1, <2>3
  <2>4. CASE VarOf(trail[i]) \in VarsOf(new)
    <3>1. PICK l \in new : VarOf(l) = VarOf(trail[i])
      BY <2>4 DEF VarsOf
    <3>2. Negation(trail[i]) = l
      BY <1>18, <3>1
    <3> QED BY <1>1, <3>1, <3>2 DEF VarsOf
  <2> QED BY <2>2, <2>3, <2>4
<1>30. \A x \in met' : model'[x] # 0 /\ (Level(x)' < lvl' => \E l \in lits' : VarOf(l) = x)
  <2> SUFFICES ASSUME NEW x \in met'
               PROVE  model[x] # 0 /\ (Level(x) < lvl => \E l \in lits' : VarOf(l) = x)
    BY <1>21, <1>25, <1>26
  <2>1. CASE x \in met
    BY <1>1, <1>3, <2>1
  <2>2. CASE x \in SteppedOver
    BY <1>2, <1>7, <2>2
  <2>3. CASE x \in VarsOf(new)
    <3>1. PICK l \in new : VarOf(l) = x
      BY <2>3 DEF VarsOf
    <3>2. Level(x) < lvl => l \notin D
      BY <1>2, <1>17, <1>19, <3>1
    <3> QED BY <1>1, <1>17, <3>1, <3>2
  <2> QED BY <1>1, <2>1, <2>2, <2>3 DEF seen
<1>31. \A i \in walk' + 1 .. Len(trail') : Level(VarOf(trail[i]))' = lvl' => VarOf(trail'[i]) \in met'
  <2> SUFFICES ASSUME NEW i \in n .. Len(trail), Level(VarOf(trail[i])) = lvl
               PROVE  VarOf(trail[i]) \in met'
    <3>1. walk' + 1 = n
      BY <1>1, <1>8
    <3>2. \A i \in n .. Len(trail) : VarOf(trail[i]) \in Vars
      BY <1>2, <1>8
    <3>3. \A i \in n .. Len(trail) : Level(VarOf(trail[i]))' = Level(VarOf(trail[i]))
      BY <1>21, <1>26, <3>2
    <3> QED BY <1>21, <3>1, <3>3
  <2>1. CASE i = n
    BY <1>1, <1>3, <1>5, <2>1 DEF seen
  <2>2. CASE i \in n + 1 .. walk
    <3>1. VarOf(trail[i]) \in Vars
      BY <1>2, <1>8
    <3> QED BY <1>1, <1>7, <2>2, <3>1 DEF seen
  <2>3. CASE i \in walk + 1 .. Len(trail)
    BY <1>1, <1>3, <2>3 DEF seen
  <2>4. i = n \/ i \in n + 1 .. walk \/ i \in walk + 1 .. Len(trail)
    BY <1>2, <1>3, <1>8
  <2> QED BY <2>1, <2>2, <2>3, <2>4
<1>32. Resolvent' = lits' \union
          {Negation(trail[i]) : i \in {j \in 1 .. n - 1 : VarOf(trail[j]) \in metLvl'}}
  BY <1>1, <1>21 DEF Resolvent
<1>33. Resolvent \ {Negation(trail[n])} \subseteq Resolvent'
  <2> SUFFICES ASSUME NEW l \in Resolvent, l # Negation(trail[n]), l \notin lits
               PROVE  l \in Resolvent'
    BY <1>1, <1>32
  <2>1. PICK i \in K : l = Negation(trail[i])
    BY DEF Resolvent, K
  <2>2. i \in 1 .. n - 1 /\ VarOf(trail[i]) \in metLvl'
    <3>1. i # n /\ i <= n /\ i \in 1 .. walk /\ VarOf(trail[i]) \in metLvl
      BY <1>5, <2>1 DEF K
    <3> QED BY <1>1, <1>3, <1>8, <3>1
  <2> QED BY <1>32, <2>1, <2>2
<1>34. \A a \in Solutions' : SatClause(a, Resolvent')
  <2> SUFFICES ASSUME NEW a \in Solutions PROVE \E l \in Resolvent' : Holds(a, l)
    BY <1>26 DEF SatClause
  <2>1. PICK l \in Resolvent : Holds(a, l)
    BY <1>3 DEF SatClause
  <2>2. CASE l # Negation(trail[n])
    BY <1>33, <2>1, <2>2
  <2>3. CASE l = Negation(trail[n])
    <3>1. trail[n] \in Lits /\ a \in Assignments /\ Enough(Made(a), r)
      BY <1>2, <1>8, <1>13
    <3>2. ~ Holds(a, trail[n])
      BY <2>1, <2>3, <3>1, HoldsNegation
    <3>3. PICK k \in R : k \in FalseBefore(n) /\ k \in Lits /\ Holds(a, k)
      BY <1>13, <1>14, <3>1, <3>2, Explained DEF R
    <3>4. PICK j \in 1 .. n - 1 : k = Negation(trail[j])
      BY <3>3 DEF FalseBefore
    <3>5. j \in 1 .. Len(trail) /\ j \in 1 .. n
      BY <1>8
    <3>6. IsFalse(k) /\ VarOf(k) = VarOf(trail[j])
      BY <1>2, <3>4, <3>5
    <3>7. VarOf(trail[j]) \in met'
      <4>1. VarOf(k) \notin SteppedOver
        BY <1>16, <3>5, <3>6
      <4>2. VarOf(k) \in met \/ k \in new
        BY <1>15, <3>3, <3>6, <4>1 DEF seen
      <4> QED BY <1>1, <3>6, <4>2 DEF seen, VarsOf
    <3>8. k \in Resolvent'
      BY <1>29, <1>32, <3>4, <3>7
    <3> QED BY <3>3, <3>8
  <2> QED BY <2>2, <2>3
<1>35. walk' \in 0 .. Len(trail') /\ walk' \in Int /\ lvl' > 1
  BY <1>1, <1>3, <1>8, <1>21
<1>36. PBLearnInv'
  <2>1. \A i \in 1 .. walk' :
          VarOf(trail'[i]) \in met' => VarOf(trail'[i]) \in metLvl' \/ Negation(trail'[i]) \in lits'
    BY <1>1, <1>21, <1>29
  <2> QED BY <1>24, <1>25, <1>27, <1>28, <1>30, <1>31, <1>34, <1>35, <2>1 DEF PBLearnInv
<1> QED BY <1>0, <1>24, <1>25, <1>35, <1>36, LearnGoesOn

\* When one variable of the current level is left, the asserting literal is
\* the negation of its literal on the trail.
LEMMA AssertsFacts ==
    ASSUME LiveInv, Learnt, NEW u \in AssertingLits
    PROVE  /\ u \in Lits /\ IsFalse(u) /\ Level(VarOf(u)) = lvl /\ lvl > 1
           /\ Resolvent = lits \union {u}
<1> DEFINE I == {i \in 1 .. Len(trail) : VarOf(trail[i]) \in metLvl}
           J == {i \in 1 .. walk : VarOf(trail[i]) \in metLvl}
<1>0. pc = "learn" /\ nbLvl <= 1
  BY DEF Learnt
<1>1. /\ lvl > 1 /\ walk \in 0 .. Len(trail) /\ metLvl \subseteq met
      /\ nbLvl = Cardinality(Pending) /\ nbLvl >= 1 /\ \A v \in metLvl : Level(v) = lvl
  BY <1>0 DEF LiveInv, PBLearnInv
<1>2. /\ TrailBound(Len(trail)) /\ Len(trail) \in Nat /\ met \subseteq Vars
      /\ \A i \in 1 .. Len(trail) : Negation(trail[i]) \in Lits /\ IsFalse(Negation(trail[i]))
      /\ \A i \in 1 .. Len(trail) : VarOf(Negation(trail[i])) = VarOf(trail[i])
      /\ lvl \in Nat
  BY <1>0, LearnFacts
<1>3. PICK v : Pending = {v}
  <2>1. Pending \subseteq Vars
    BY <1>1, <1>2 DEF Pending
  <2>2. IsFiniteSet(Pending) /\ Cardinality(Pending) \in Nat
    BY <2>1, VarsFinite
  <2>3. Cardinality(Pending) = 1
    BY <1>0, <1>1, <2>2
  <2> QED BY <2>2, <2>3, FS_Singleton
<1>4. PICK i \in 1 .. walk : VarOf(trail[i]) = v /\ v \in metLvl
  BY <1>3 DEF Pending
<1>5. J = {i}
  <2>1. ASSUME NEW j \in J PROVE j = i
    <3>1. VarOf(trail[j]) = v
      BY <1>3 DEF Pending
    <3>2. j \in 1 .. Len(trail) /\ i \in 1 .. Len(trail)
      BY <1>1, <1>2
    <3>3. Level(VarOf(trail[i])) # 1
      BY <1>1, <1>4
    <3> QED BY <1>2, <1>4, <3>1, <3>2, <3>3 DEF TrailBound
  <2> QED BY <1>4, <2>1
<1>6. i \in I /\ I \subseteq Nat /\ I # {} /\ J \subseteq I
  BY <1>1, <1>2, <1>4
<1>7. \A j \in I : i <= j
  <2> SUFFICES ASSUME NEW j \in I, j < i PROVE FALSE
    BY <1>1, <1>2
  <2>1. j \in J
    BY <1>1, <1>2
  <2> QED BY <2>1, <1>5, <1>1, <1>2
<1>8. Min(I) = i
  <2> HIDE DEF I, J
  <2>1. Min(I) \in I /\ \A j \in I : Min(I) <= j
    BY <1>6, MinOfNats
  <2>2. Min(I) \in Nat /\ i \in Nat /\ Min(I) <= i /\ i <= Min(I)
    BY <2>1, <1>6, <1>7
  <2> QED BY <2>2
<1>9. u = Negation(trail[i])
  BY <1>6, <1>8 DEF AssertingLits
<1>10. Resolvent = lits \union {u}
  BY <1>5, <1>9 DEF Resolvent
<1>11. u \in Lits /\ IsFalse(u) /\ VarOf(u) = v
  <2>1. i \in 1 .. Len(trail)
    BY <1>1, <1>2
  <2> QED BY <1>2, <1>4, <1>9, <2>1
<1> QED BY <1>1, <1>4, <1>10, <1>11

\* minimizeLearned only drops literals the others imply.  A solution that
\* satisfied only dropped literals would satisfy, with the first of them on the
\* trail, a literal of its reason that was false before: met, hence collected.
LEMMA MinimizedHolds ==
    ASSUME LiveInv, Learnt, NEW u \in AssertingLits
    PROVE  /\ {u} \union Minimized \in Clauses /\ Minimized \subseteq lits
           /\ \A a \in Solutions : SatClause(a, {u} \union Minimized)
<1>0. pc = "learn"
  BY DEF Learnt
<1>1. u \in Lits /\ Resolvent = lits \union {u}
  BY AssertsFacts
<1>2. lits \subseteq Lits /\ Minimized \subseteq lits
  BY <1>0, LearnFacts DEF Minimized
<1>3. /\ \A a \in Solutions : SatClause(a, Resolvent)
      /\ \A l \in lits : IsFalse(l) /\ Level(VarOf(l)) < lvl
      /\ \A x \in met : Level(x) < lvl => \E l \in lits : VarOf(l) = x
  BY <1>0 DEF LiveInv, PBLearnInv
<1>4. /\ PBTypeOK /\ DatabaseOK /\ TrailBound(Len(trail)) /\ ReasonsHold /\ model \in [Vars -> Int]
      /\ Len(trail) \in Nat /\ DOMAIN trail = 1 .. Len(trail)
      /\ \A i \in 1 .. Len(trail) : trail[i] \in Lits /\ VarOf(trail[i]) \in Vars
      /\ \A i \in 1 .. Len(trail) : Negation(trail[i]) \in Lits /\ IsFalse(Negation(trail[i]))
      /\ \A i \in 1 .. Len(trail) : VarOf(Negation(trail[i])) = VarOf(trail[i])
      /\ \A v \in Vars : Level(v) \in Nat
      /\ lvl \in Nat
  BY <1>0, LearnFacts DEF LiveInv
<1> SUFFICES ASSUME NEW a \in Solutions, \A l \in {u} \union Minimized : ~ Holds(a, l)
             PROVE  FALSE
  BY <1>1, <1>2 DEF Clauses, SatClause
<1> DEFINE I == {i \in 1 .. Len(trail) : Negation(trail[i]) \in lits /\ Holds(a, Negation(trail[i]))}
<1>5. I # {} /\ I \subseteq Nat
  <2>1. PICK l \in lits : Holds(a, l)
    BY <1>1, <1>3 DEF SatClause
  <2>2. PICK i \in 1 .. Len(trail) : Negation(trail[i]) = l
    BY <1>0, <1>2, <1>3, FalseOnTrail
  <2> QED BY <1>4, <2>1, <2>2
<1>6. PICK i \in I : \A j \in I : i <= j
  <2> HIDE DEF I
  <2> QED BY <1>5, NatMin
<1> DEFINE l == Negation(trail[i])
           r == reason[VarOf(l)]
<1>7. /\ i \in 1 .. Len(trail) /\ i \in Nat /\ trail[i] \in Lits /\ l \in lits /\ Holds(a, l)
      /\ VarOf(l) = VarOf(trail[i])
  BY <1>4, <1>6
<1>8. r # Nil /\ VarsOf(clauses[r]) \subseteq met
  <2>1. l \notin Minimized
    BY <1>7
  <2> QED BY <1>7, <2>1 DEF Minimized, Redundant
<1>9. r \in ClauseIds
  BY <1>4, <1>7, <1>8 DEF PBTypeOK
<1>10. /\ ConstraintOK(r) /\ clauses[r] \in Clauses /\ a \in Assignments /\ Enough(Made(a), r)
  BY <1>4, <1>9, ConstraintsOK
<1>11. ImpliedBy(r, trail[i], FalseBefore(i))
  BY <1>4, <1>7, <1>8 DEF ReasonsHold
<1> HIDE DEF I, r
<1>12. ~ Holds(a, trail[i])
  BY <1>7, <1>10, HoldsNegation
<1>13. PICK k \in clauses[r] : k \in FalseBefore(i) /\ k \in Lits /\ Holds(a, k)
  BY <1>10, <1>11, <1>12, Explained
<1>14. PICK j \in 1 .. i - 1 : k = Negation(trail[j])
  BY <1>13 DEF FalseBefore
<1>15. j \in 1 .. Len(trail) /\ j < i /\ j \in Nat
  BY <1>4, <1>7
<1>16. IsFalse(k) /\ VarOf(k) = VarOf(trail[j])
  BY <1>4, <1>14, <1>15
<1>17. VarOf(k) \in met /\ Level(VarOf(k)) < lvl
  <2>1. VarOf(k) \in met
    BY <1>8, <1>13 DEF VarsOf
  <2>2. Level(VarOf(trail[j])) <= Level(VarOf(trail[i]))
    BY <1>4, <1>7, <1>15 DEF TrailBound
  <2>3. Level(VarOf(l)) < lvl
    BY <1>3, <1>7
  <2>4. Level(VarOf(trail[j])) \in Nat /\ Level(VarOf(trail[i])) \in Nat
    BY <1>4, <1>7, <1>15
  <2> QED BY <1>4, <1>7, <1>16, <2>1, <2>2, <2>3, <2>4
<1>18. PICK m \in lits : VarOf(m) = VarOf(k)
  BY <1>3, <1>17
<1>19. m = k
  BY <1>2, <1>3, <1>4, <1>13, <1>16, <1>18, OneFalse
<1>20. j \in I
  BY <1>13, <1>14, <1>15, <1>18, <1>19 DEF I
<1> QED BY <1>6, <1>7, <1>15, <1>20

\* A problem with solutions has no conflict to refute it.
LEMMA LearnFalseNever ==
    ASSUME LiveInv, LearnFalse
    PROVE  FALSE
<1>1. assumptions = {}
  BY DEF LiveInv, PBTypeOK
<1>2. PICK u \in AssertingLits : Learnt /\ Level(VarOf(u)) = 1
  BY <1>1 DEF LearnFalse, OnlyAssumed
<1>3. Level(VarOf(u)) = lvl /\ lvl > 1
  BY <1>2, AssertsFacts
<1> QED BY <1>2, <1>3

LEMMA LearnUnitLive ==
    ASSUME LiveInv, NEW u \in AssertingLits, LearnUnit(u), UNCHANGED <<pbVars, cutVars, pbCtlVars>>
    PROVE  LiveInv'
<1>1. /\ Learnt /\ Minimized = {} /\ pc # "unify"
      /\ CleanupBindings(1) /\ reason' = CleanReason(1) /\ queue' = CleanQueue(1)
      /\ lit' = u /\ lvl' = 1 /\ pc' = "unify"
      /\ UNCHANGED <<clauses, watched, wlistBin, wlist, pbs, wlistPb, problem, visiting, pos,
                     todoBin, todo, assumptions, ptr, cut, cutPtr>>
      /\ pending' = pending
  BY DEF LearnUnit, Learnt, dbVars, pbVars, cutVars, pbCtlVars
<1>2. /\ met' = {} /\ metLvl' = {} /\ lits' = {} /\ nbLvl' = 0 /\ walk' = 0
  BY DEF LearnUnit, EndLearn
<1>3. met' \subseteq Vars /\ metLvl' \subseteq Vars /\ lits' \in Clauses /\ nbLvl' \in Int /\ walk' \in Int
  BY <1>2 DEF Clauses
<1>4. u \in Lits
  BY <1>1, AssertsFacts
<1>5. Follows(u)
  <2>1. \A a \in Solutions : SatClause(a, {u} \union Minimized)
    BY <1>1, MinimizedHolds
  <2> QED BY <1>1, <2>1 DEF Follows, SatClause
<1>6. pending \in Seq(Lits) /\ \A k \in DOMAIN pending : Follows(pending[k])
  BY DEF LiveInv, PBTypeOK, PBUnifyInv
<1> QED BY <1>1, <1>3, <1>4, <1>5, <1>6, TopUnit

-----------------------------------------------------------------------------
(* What is added to the clauses and constraints.                           *)

\* The index c is new.
LEMMA NewIndex ==
    ASSUME PBTypeOK, NEW C \in Clauses, clauses' = Append(clauses, C), NEW c, c = Len(clauses) + 1
    PROVE  /\ clauses' \in Seq(Clauses) /\ Len(clauses') = c /\ clauses'[c] = C
           /\ ClauseIds' = ClauseIds \union {c} /\ c \notin ClauseIds /\ c \in Nat \ {0}
           /\ c \notin DOMAIN pbs /\ c # Nil /\ Watchers \subseteq Watchers'
           /\ \A d \in ClauseIds : clauses'[d] = clauses[d]
<1>1. clauses \in Seq(Clauses) /\ DOMAIN pbs \subseteq ClauseIds
  BY DEF PBTypeOK
<1>2. /\ clauses' \in Seq(Clauses) /\ Len(clauses') = c /\ clauses'[c] = C
      /\ ClauseIds' = ClauseIds \union {c} /\ c \notin ClauseIds /\ c \in Nat \ {0}
      /\ \A d \in ClauseIds : clauses'[d] = clauses[d]
  BY <1>1 DEF ClauseIds
<1>3. Watchers \subseteq Watchers'
  BY <1>2 DEF Watchers
<1>4. c # Nil
  BY <1>2 DEF Nil
<1> QED BY <1>1, <1>2, <1>3, <1>4

LEMMA ClauseAdded ==
    ASSUME PBTypeOK, DatabaseOK, NEW C \in Clauses, clauses' = Append(clauses, C), pbs' = pbs,
           Solutions' \subseteq Solutions, \A a \in Solutions' : SatClause(a, C),
           NEW c, c = Len(clauses) + 1
    PROVE  /\ KeepsAll /\ DatabaseOK'
           /\ \A T : Enough(T, c)' <=> T \cap C # {}
<1>1. /\ clauses' \in Seq(Clauses) /\ Len(clauses') = c /\ clauses'[c] = C
      /\ ClauseIds' = ClauseIds \union {c} /\ c \notin ClauseIds /\ c \in Nat \ {0}
      /\ c \notin DOMAIN pbs
      /\ \A d \in ClauseIds : clauses'[d] = clauses[d]
  BY NewIndex
<1>2. \A d \in ClauseIds : \A T : Enough(T, d)' <=> Enough(T, d)
  BY <1>1 DEF Enough, Weight, Idx, LitAt
<1>3. \A T : Enough(T, c)' <=> T \cap C # {}
  BY <1>1 DEF Enough
<1>4. KeepsAll
  BY <1>1, <1>2 DEF KeepsAll
<1>5. \A d \in DOMAIN pbs' :
        LET b == pbs'[d] IN
        /\ Len(b.weights) = Len(b.lits) /\ clauses'[d] = Range(b.lits)
        /\ \A i, j \in DOMAIN b.lits : VarOf(b.lits[i]) = VarOf(b.lits[j]) => i = j
        /\ ~ b.pb => b.card + 1 <= Len(b.lits) /\ \A i \in DOMAIN b.weights : b.weights[i] = 1
  <2>1. \A d \in DOMAIN pbs : d \in ClauseIds
    BY DEF PBTypeOK
  <2> QED BY <1>1, <2>1 DEF DatabaseOK
<1>6. \A d \in ClauseIds', a \in Solutions' : Enough({l \in Lits : Holds(a, l)}, d)'
  <2> SUFFICES ASSUME NEW d \in ClauseIds', NEW a \in Solutions'
               PROVE  Enough({l \in Lits : Holds(a, l)}, d)'
    OBVIOUS
  <2>1. CASE d \in ClauseIds
    BY <1>2, <2>1 DEF DatabaseOK
  <2>2. CASE d = c
    <3>1. PICK l \in C : Holds(a, l)
      BY DEF SatClause
    <3>2. l \in Lits
      BY DEF Clauses
    <3> QED BY <1>3, <2>2, <3>1, <3>2
  <2> QED BY <1>1, <2>1, <2>2
<1> QED BY <1>3, <1>4, <1>5, <1>6 DEF DatabaseOK

\* The constraint b, which holds in every solution, gets the index c.
Adds(b, c) ==
    /\ WellMade(b)
    /\ ~ b.pb => b.card + 1 <= Len(b.lits) /\ \A i \in DOMAIN b.weights : b.weights[i] = 1
    /\ c = Len(clauses) + 1
    /\ clauses' = Append(clauses, Range(b.lits)) /\ pbs' = WithConstraint(c, b)
    /\ Solutions' \subseteq Solutions /\ \A a \in Solutions' : Meets(a, b)

LEMMA ConstraintAdded ==
    ASSUME PBTypeOK, DatabaseOK, NEW b, NEW c, Adds(b, c)
    PROVE  /\ KeepsAll /\ DatabaseOK' /\ Range(b.lits) \in Clauses
           /\ DOMAIN pbs' = DOMAIN pbs \union {c} /\ pbs'[c] = b
           /\ \A d \in DOMAIN pbs : pbs'[d] = pbs[d]
           /\ DOMAIN pbs' \subseteq ClauseIds' /\ pbs' \in [DOMAIN pbs' -> Constraints]
           /\ \A T : Enough(T, c)' <=>
                SumOf(b.weights, {i \in DOMAIN b.lits : b.lits[i] \in T}) >= b.card
<1>0. /\ WellMade(b)
      /\ ~ b.pb => b.card + 1 <= Len(b.lits) /\ \A i \in DOMAIN b.weights : b.weights[i] = 1
      /\ c = Len(clauses) + 1
      /\ clauses' = Append(clauses, Range(b.lits)) /\ pbs' = WithConstraint(c, b)
      /\ Solutions' \subseteq Solutions /\ \A a \in Solutions' : Meets(a, b)
  BY DEF Adds
<1>1. Range(b.lits) \in Clauses /\ b \in Constraints
  <2>1. \A i \in DOMAIN b.lits : b.lits[i] \in Lits
    BY <1>0, WellMadeFacts
  <2> QED BY <1>0, <2>1 DEF Clauses, WellMade, Range
<1>2. /\ clauses' \in Seq(Clauses) /\ Len(clauses') = c /\ clauses'[c] = Range(b.lits)
      /\ ClauseIds' = ClauseIds \union {c} /\ c \notin ClauseIds /\ c \in Nat \ {0}
      /\ c \notin DOMAIN pbs
      /\ \A d \in ClauseIds : clauses'[d] = clauses[d]
  BY <1>0, <1>1, NewIndex
<1>3. DOMAIN pbs \subseteq ClauseIds /\ \A d \in DOMAIN pbs : pbs[d] \in Constraints
  BY DEF PBTypeOK
<1>4. /\ DOMAIN pbs' = DOMAIN pbs \union {c} /\ pbs'[c] = b
      /\ \A d \in DOMAIN pbs : pbs'[d] = pbs[d]
      /\ pbs' = [d \in DOMAIN pbs' |-> pbs'[d]]
  BY <1>0, <1>2 DEF WithConstraint
<1>5. pbs' \in [DOMAIN pbs' -> Constraints] /\ DOMAIN pbs' \subseteq ClauseIds'
  <2>1. \A d \in DOMAIN pbs' : pbs'[d] \in Constraints
    BY <1>1, <1>3, <1>4
  <2> QED BY <1>2, <1>3, <1>4, <2>1
<1>6. \A d \in ClauseIds : \A T : Enough(T, d)' <=> Enough(T, d)
  <2> SUFFICES ASSUME NEW d \in ClauseIds, NEW T PROVE Enough(T, d)' <=> Enough(T, d)
    OBVIOUS
  <2>1. CASE d \in DOMAIN pbs
    BY <1>4, <2>1 DEF Enough, Weight, Idx, LitAt
  <2>2. CASE d \notin DOMAIN pbs
    <3>1. d \notin DOMAIN pbs'
      BY <1>2, <1>4, <2>2
    <3> QED BY <1>2, <2>2, <3>1 DEF Enough
  <2> QED BY <2>1, <2>2
<1>7. \A T : Enough(T, c)' <=> SumOf(b.weights, {i \in DOMAIN b.lits : b.lits[i] \in T}) >= b.card
  BY <1>4 DEF Enough, Weight, Idx, LitAt
<1>8. KeepsAll
  BY <1>0, <1>2, <1>6 DEF KeepsAll
<1>9. \A d \in DOMAIN pbs' :
        LET e == pbs'[d] IN
        /\ Len(e.weights) = Len(e.lits) /\ clauses'[d] = Range(e.lits)
        /\ \A i, j \in DOMAIN e.lits : VarOf(e.lits[i]) = VarOf(e.lits[j]) => i = j
        /\ ~ e.pb => e.card + 1 <= Len(e.lits) /\ \A i \in DOMAIN e.weights : e.weights[i] = 1
  <2> SUFFICES ASSUME NEW d \in DOMAIN pbs'
               PROVE  LET e == pbs'[d] IN
                      /\ Len(e.weights) = Len(e.lits) /\ clauses'[d] = Range(e.lits)
                      /\ \A i, j \in DOMAIN e.lits : VarOf(e.lits[i]) = VarOf(e.lits[j]) => i = j
                      /\ ~ e.pb => /\ e.card + 1 <= Len(e.lits)
                                   /\ \A i \in DOMAIN e.weights : e.weights[i] = 1
    OBVIOUS
  <2>1. CASE d \in DOMAIN pbs
    <3>1. pbs'[d] = pbs[d] /\ clauses'[d] = clauses[d]
      BY <1>2, <1>3, <1>4, <2>1
    <3> QED BY <2>1, <3>1 DEF DatabaseOK
  <2>2. CASE d = c
    BY <1>0, <1>2, <1>4, <2>2 DEF WellMade
  <2> QED BY <1>4, <2>1, <2>2
<1>10. \A d \in ClauseIds', a \in Solutions' : Enough({l \in Lits : Holds(a, l)}, d)'
  <2> SUFFICES ASSUME NEW d \in ClauseIds', NEW a \in Solutions'
               PROVE  Enough({l \in Lits : Holds(a, l)}, d)'
    OBVIOUS
  <2>1. CASE d \in ClauseIds
    BY <1>0, <1>6, <2>1 DEF DatabaseOK
  <2>2. CASE d = c
    <3>1. {i \in DOMAIN b.lits : b.lits[i] \in {l \in Lits : Holds(a, l)}}
            = {i \in DOMAIN b.lits : Holds(a, b.lits[i])}
      BY <1>0, WellMadeFacts
    <3>2. SumOf(b.weights, {i \in DOMAIN b.lits : Holds(a, b.lits[i])}) >= b.card
      BY <1>0 DEF Meets
    <3> QED BY <1>7, <2>2, <3>1, <3>2
  <2> QED BY <1>2, <2>1, <2>2
<1> QED BY <1>1, <1>4, <1>5, <1>7, <1>8, <1>9, <1>10 DEF DatabaseOK

\* A clause is watched at its first two literals.
LEMMA ClauseListed ==
    ASSUME PBTypeOK, PBListsInv, NEW C \in Clauses, NEW f \in C, NEW s \in C, f # s, NEW d,
           AddClause(C, f, s, d), UNCHANGED <<pbs, wlistPb>>
    PROVE  /\ PBListsInv'
           /\ watched' \in Seq(Lits \X Lits) /\ Len(watched') = Len(clauses')
           /\ wlistBin' \in [Lits -> SUBSET Watchers'] /\ wlist' \in [Lits -> SUBSET Watchers']
<1> DEFINE c == Len(clauses) + 1
<1>1. /\ clauses \in Seq(Clauses) /\ watched \in Seq(Lits \X Lits) /\ Len(watched) = Len(clauses)
      /\ wlistBin \in [Lits -> SUBSET Watchers] /\ wlist \in [Lits -> SUBSET Watchers]
      /\ wlistPb \in [Lits -> Seq(DOMAIN pbs)] /\ DOMAIN pbs \subseteq ClauseIds
      /\ ClauseIds = 1 .. Len(clauses) /\ Len(clauses) \in Nat
  <2>1. clauses \in Seq(Clauses)
    BY DEF PBTypeOK
  <2>2. Len(clauses) \in Nat /\ ClauseIds = 1 .. Len(clauses)
    BY <2>1, LenProperties DEF ClauseIds
  <2>3. /\ watched \in Seq(Lits \X Lits) /\ Len(watched) = Len(clauses)
        /\ wlistBin \in [Lits -> SUBSET Watchers] /\ wlist \in [Lits -> SUBSET Watchers]
    BY DEF PBTypeOK
  <2>4. wlistPb \in [Lits -> Seq(DOMAIN pbs)] /\ DOMAIN pbs \subseteq ClauseIds
    BY DEF PBTypeOK
  <2> QED BY <2>1, <2>2, <2>3, <2>4
<1>2. /\ clauses' = Append(clauses, C) /\ watched' = Append(watched, <<f, s>>)
      /\ \/ /\ Cardinality(C) = 2
            /\ wlistBin' = Watch(wlistBin, c, f, s) /\ wlist' = wlist
         \/ /\ wlist' = Watch(wlist, c, f, s) /\ wlistBin' = wlistBin
  BY DEF AddClause
<1>3. /\ f \in Lits /\ s \in Lits /\ Negation(f) \in Lits /\ Negation(s) \in Lits
      /\ Negation(Negation(f)) = f /\ Negation(Negation(s)) = s /\ Negation(f) # Negation(s)
  <2>1. f \in Lits /\ s \in Lits
    BY DEF Clauses
  <2> QED BY <2>1, LitFacts
<1>4. /\ Len(clauses') = c /\ clauses'[c] = C
      /\ ClauseIds' = ClauseIds \union {c} /\ c \notin ClauseIds
      /\ c \notin DOMAIN pbs /\ Watchers \subseteq Watchers'
      /\ \A e \in ClauseIds : clauses'[e] = clauses[e]
  BY <1>2, NewIndex
<1>5. /\ watched' \in Seq(Lits \X Lits) /\ Len(watched') = c
      /\ watched'[c] = <<f, s>> /\ \A e \in ClauseIds : watched'[e] = watched[e]
  <2>1. <<f, s>> \in Lits \X Lits
    BY <1>3
  <2> HIDE DEF AddClause
  <2> QED BY <1>1, <1>2, <2>1
<1> HIDE DEF c
<1>6. <<c, s>> \in Watchers' /\ <<c, f>> \in Watchers'
  BY <1>3, <1>4 DEF Watchers
<1>7. ASSUME NEW lists, lists \in [Lits -> SUBSET Watchers]
      PROVE  /\ Watch(lists, c, f, s) \in [Lits -> SUBSET Watchers']
             /\ Watch(lists, c, f, s)[Negation(f)] = lists[Negation(f)] \union {<<c, s>>}
             /\ Watch(lists, c, f, s)[Negation(s)] = lists[Negation(s)] \union {<<c, f>>}
             /\ \A l \in Lits : l # Negation(f) /\ l # Negation(s) =>
                    Watch(lists, c, f, s)[l] = lists[l]
  BY <1>3, <1>4, <1>6, <1>7 DEF Watch
<1>8. \A lists : lists \in [Lits -> SUBSET Watchers] => lists \in [Lits -> SUBSET Watchers']
  BY <1>4
<1>9. wlistBin' \in [Lits -> SUBSET Watchers'] /\ wlist' \in [Lits -> SUBSET Watchers']
  BY <1>1, <1>2, <1>7, <1>8 DEF c
<1>10. \A e \in ClauseIds' \ DOMAIN pbs' :
        /\ watched'[e][1] \in clauses'[e] /\ watched'[e][2] \in clauses'[e]
        /\ watched'[e][1] # watched'[e][2]
  BY <1>4, <1>5 DEF PBListsInv
<1>11. ASSUME NEW l \in Lits, NEW lists, lists \in [Lits -> SUBSET Watchers], NEW w \in lists[l]
       PROVE  w[1] \in ClauseIds
  <2>1. w \in Watchers
    BY <1>11
  <2> QED BY <2>1 DEF Watchers
<1>12. ASSUME NEW l \in Lits, NEW w \in wlistBin'[l]
       PROVE  w[1] \notin DOMAIN pbs' /\ clauses'[w[1]] = {Negation(l), w[2]}
  <2>1. CASE w \in wlistBin[l]
    <3>1. w[1] \in ClauseIds
      BY <1>1, <1>11, <2>1
    <3> QED BY <1>4, <2>1, <3>1 DEF PBListsInv
  <2>2. CASE w \notin wlistBin[l]
    <3>1. Cardinality(C) = 2 /\ wlistBin' = Watch(wlistBin, c, f, s)
      BY <1>2, <2>2 DEF c
    <3>2. C = {f, s}
      BY <3>1, PairOfTwo
    <3>3. (l = Negation(f) /\ w = <<c, s>>) \/ (l = Negation(s) /\ w = <<c, f>>)
      BY <1>1, <1>7, <2>2, <3>1
    <3> QED BY <1>3, <1>4, <3>2, <3>3
  <2> QED BY <2>1, <2>2
<1>13. ASSUME NEW l \in Lits, NEW w \in wlist'[l]
       PROVE  /\ w[1] \notin DOMAIN pbs'
              /\ Negation(l) \in {watched'[w[1]][1], watched'[w[1]][2]}
              /\ \A x \in wlist'[l] : x[1] = w[1] => x = w
  <2>1. /\ \A x \in wlist[l] : x[1] \notin DOMAIN pbs
        /\ \A x \in wlist[l] : Negation(l) \in {watched[x[1]][1], watched[x[1]][2]}
        /\ \A x, y \in wlist[l] : y[1] = x[1] => y = x
    BY DEF PBListsInv
  <2>2. \A x \in wlist[l] : x[1] \in ClauseIds
    BY <1>1, <1>11
  <2>3. \A x \in wlist'[l] :
          \/ x \in wlist[l]
          \/ l = Negation(f) /\ x = <<c, s>>
          \/ l = Negation(s) /\ x = <<c, f>>
    <3>1. wlist' = wlist \/ wlist' = Watch(wlist, c, f, s)
      BY <1>2 DEF c
    <3>2. CASE wlist' = wlist
      BY <3>2
    <3>3. CASE wlist' = Watch(wlist, c, f, s)
      <4>1. /\ wlist'[Negation(f)] = wlist[Negation(f)] \union {<<c, s>>}
            /\ wlist'[Negation(s)] = wlist[Negation(s)] \union {<<c, f>>}
            /\ \A k \in Lits : k # Negation(f) /\ k # Negation(s) => wlist'[k] = wlist[k]
        BY <1>1, <1>7, <3>3
      <4> QED BY <4>1
    <3> QED BY <3>1, <3>2, <3>3
  <2>4. w[1] \notin DOMAIN pbs'
    BY <1>4, <2>1, <2>3
  <2>5. Negation(l) \in {watched'[w[1]][1], watched'[w[1]][2]}
    <3>1. CASE w \in wlist[l]
      BY <1>5, <2>1, <2>2, <3>1
    <3>2. CASE l = Negation(f) /\ w = <<c, s>>
      BY <1>3, <1>5, <3>2
    <3>3. CASE l = Negation(s) /\ w = <<c, f>>
      BY <1>3, <1>5, <3>3
    <3> QED BY <2>3, <3>1, <3>2, <3>3
  <2>6. \A x \in wlist'[l] : x[1] = w[1] => x = w
    BY <1>3, <1>4, <2>1, <2>2, <2>3
  <2> QED BY <2>4, <2>5, <2>6
<1>14. ASSUME NEW l \in Lits, NEW e \in Range(wlistPb'[l])
       PROVE  Negation(l) \in clauses'[e]
  <2>1. e \in Range(wlistPb[l]) /\ e \in DOMAIN pbs
    <3>1. wlistPb[l] \in Seq(DOMAIN pbs)
      BY <1>1
    <3> QED BY <3>1 DEF Range
  <2> QED BY <1>1, <1>4, <2>1 DEF PBListsInv
<1>15. PBListsInv'
  BY <1>10, <1>12, <1>13, <1>14 DEF PBListsInv
<1> QED BY <1>4, <1>5, <1>9, <1>15

-----------------------------------------------------------------------------
(* Learning a clause or a constraint.                                      *)

\* The search goes back to a level where u, that was false, is implied by c.
LEMMA BackToLevel ==
    ASSUME LiveInv, pc # "unify", NEW n, TrailBound(n), ReasonsBound(n), KeepsAll,
           NEW level \in Nat \ {0}, n < Len(trail) => Level(VarOf(trail[n])) > level,
           CleanupBindings(level),
           NEW u \in Lits, IsFalse(u), Level(VarOf(u)) > level, NEW c,
           reason' = [CleanReason(level) EXCEPT ![VarOf(u)] = c], pc' = "unify", lit' = u
    PROVE  /\ BindingsOK' /\ model' \in [Vars -> Int] /\ trail' \in Seq(Lits)
           /\ polarity' \in [Vars -> BOOLEAN] /\ CleanQueue(level) \subseteq Vars
           /\ c \in ClauseIds' /\ ClauseIds \subseteq ClauseIds' =>
                reason' \in [Vars -> {Nil} \union ClauseIds']
           /\ \A v \in Vars : Level(v)' <= level
           /\ model'[VarOf(u)] = 0 /\ reason'[VarOf(u)] = c
           /\ \A l \in Lits : IsFalse(l)' <=> IsFalse(l) /\ Level(VarOf(l)) <= level
<1>1. PBTypeOK /\ Bound(n)
  BY DEF LiveInv, Bound, BindingsOK
<1>2. VarOf(u) \in Vars
  BY LitFacts
<1>3. /\ KeptLen(level) \in 0 .. n /\ CleanTrail(level) \in Seq(Lits)
      /\ Len(CleanTrail(level)) = KeptLen(level)
      /\ \A v \in Vars : v \in Dropped(level) <=>
            Level(v) > level \/ \E i \in n + 1 .. Len(trail) : VarOf(trail[i]) = v
      /\ CleanModel(level) \in [Vars -> Int]
      /\ CleanReason(level) \in [Vars -> {Nil} \union ClauseIds]
      /\ CleanPolarity(level) \in [Vars -> BOOLEAN] /\ Dropped(level) \subseteq Vars
  BY <1>1, CutBackFacts
<1>4. /\ trail' = CleanTrail(level) /\ model' = CleanModel(level) /\ polarity' = CleanPolarity(level)
  BY DEF CleanupBindings
<1>5. \A v \in Vars : reason'[v] = IF v = VarOf(u) THEN c ELSE CleanReason(level)[v]
  BY <1>3
<1>6. CutsBack(level)
  <2>1. ASSUME NEW v \in Vars, model[v] # 0, Level(v) <= level
        PROVE  reason'[v] = reason[v]
    <3>1. v \notin Dropped(level)
      <4>1. \A i \in n + 1 .. Len(trail) : VarOf(trail[i]) # v
        BY <2>1 DEF TrailBound
      <4>2. Level(v) \in Nat
        BY <1>1, TrailType
      <4> QED BY <1>3, <2>1, <4>1, <4>2
    <3>2. v # VarOf(u)
      <4>1. Level(v) \in Nat
        BY <1>1, TrailType
      <4> QED BY <2>1, <4>1
    <3> QED BY <1>5, <3>1, <3>2 DEF CleanReason
  <2> QED BY <1>4, <2>1 DEF CutsBack
<1>7. /\ TrailBound(Len(trail))' /\ FactsFollow' /\ ReasonsHold'
      /\ \A v \in Vars :
            /\ model'[v] = IF Level(v) > level THEN 0 ELSE model[v]
            /\ Level(v)' <= level
      /\ \A l \in Lits : IsFalse(l)' <=> IsFalse(l) /\ Level(VarOf(l)) <= level
  BY <1>1, <1>6, BoundCutBack
<1>8. ASSUME NEW v \in Vars, model'[v] = 0, v # VarOf(u)
      PROVE  reason'[v] = Nil
  <2>1. reason'[v] = CleanReason(level)[v]
    BY <1>5, <1>8
  <2>2. CASE v \in Dropped(level)
    BY <2>1, <2>2 DEF CleanReason
  <2>3. CASE v \notin Dropped(level)
    <3>1. model[v] = 0 /\ reason'[v] = reason[v]
      BY <1>3, <1>7, <1>8, <2>1, <2>3 DEF CleanReason
    <3>2. ~ \E i \in n + 1 .. Len(trail) : VarOf(trail[i]) = v
      BY <1>3, <2>3
    <3> QED BY <3>1, <3>2 DEF ReasonsBound
  <2> QED BY <2>2, <2>3
<1>9. BindingsOK'
  <2>1. Len(trail') \in Nat
    BY <1>3, <1>4
  <2>2. \A v \in Vars : model'[v] = 0 /\ reason'[v] # Nil => pc' = "unify" /\ v = VarOf(lit')
    BY <1>8
  <2> QED BY <1>7, <2>1, <2>2, BindingsFrom
<1>10. CleanQueue(level) \subseteq Vars
  BY <1>1, <1>3 DEF CleanQueue, PBTypeOK
<1>11. c \in ClauseIds' /\ ClauseIds \subseteq ClauseIds' => reason' \in [Vars -> {Nil} \union ClauseIds']
  BY <1>3
<1>12. model'[VarOf(u)] = 0 /\ reason'[VarOf(u)] = c
  BY <1>2, <1>5, <1>7
<1> QED BY <1>3, <1>4, <1>7, <1>9, <1>10, <1>11, <1>12

\* The clause learned implies its asserting literal at the level of its second
\* literal, since the others are of lower levels.
LEMMA LearnClauseLive ==
    ASSUME LiveInv, NEW u \in AssertingLits, NEW s \in SecondLits(Minimized), LearnClause(u, s),
           UNCHANGED <<pbVars, cutVars, pbCtlVars>>, ret \in {"branch", "cut"}
    PROVE  LiveInv'
<1>0. PICK C, c, level : /\ C = {u} \union Minimized /\ c = Len(clauses) + 1
                         /\ level = Level(VarOf(s))
  OBVIOUS
<1>1. /\ Learnt /\ pc = "learn" /\ AddClause(C, u, s, ComputeLbd(C)) /\ CleanupBindings(level)
      /\ reason' = [CleanReason(level) EXCEPT ![VarOf(u)] = c]
      /\ queue' = CleanQueue(level) /\ lit' = u /\ lvl' = level /\ pc' = "unify"
      /\ UNCHANGED <<pbs, wlistPb, visiting, pos, ptr, todoBin, todo, assumptions, cut, cutPtr,
                     pending, problem>>
  BY <1>0 DEF LearnClause, Learnt, pbVars, cutVars, pbCtlVars
<1>2. /\ met' = {} /\ metLvl' = {} /\ lits' = {} /\ nbLvl' = 0 /\ walk' = 0
  BY DEF LearnClause, EndLearn
<1>3. /\ u \in Lits /\ IsFalse(u) /\ Level(VarOf(u)) = lvl /\ lvl > 1
  BY <1>1, AssertsFacts
<1>4. /\ C \in Clauses /\ Minimized \subseteq lits
      /\ \A a \in Solutions : SatClause(a, C)
  BY <1>0, <1>1, MinimizedHolds
<1>5. \A l \in lits : IsFalse(l) /\ Level(VarOf(l)) < lvl /\ l \in Lits
  BY <1>1, LearnFacts DEF LiveInv, PBLearnInv
<1>6. s \in Minimized /\ \A k \in Minimized : Level(VarOf(k)) <= level
  BY <1>0 DEF SecondLits
<1>7. PBTypeOK /\ DatabaseOK /\ PBListsInv /\ model \in [Vars -> Int] /\ lvl \in Nat
  BY DEF LiveInv, PBTypeOK
<1>8. level \in Nat \ {0} /\ level < lvl
  <2>1. s \in Lits /\ IsFalse(s) /\ level < lvl
    BY <1>0, <1>4, <1>5, <1>6
  <2>2. VarOf(s) \in Vars /\ model[VarOf(s)] # 0
    BY <1>7, <2>1, LitFacts, StatusFacts
  <2> QED BY <1>0, <1>7, <2>1, <2>2, LevelFacts
<1>9. Solutions' = Solutions /\ clauses' = Append(clauses, C)
  BY <1>1 DEF Solutions, AddClause
<1>10. u \in C /\ s \in C /\ u # s /\ Minimized \subseteq C /\ C \subseteq {u} \union Minimized
  BY <1>0, <1>3, <1>4, <1>5, <1>6, <1>7
<1>11. KeepsAll /\ DatabaseOK' /\ \A T : Enough(T, c)' <=> T \cap C # {}
  BY <1>0, <1>1, <1>4, <1>7, <1>9, ClauseAdded
<1>12. /\ clauses' \in Seq(Clauses) /\ Len(clauses') = c /\ clauses'[c] = C
       /\ ClauseIds' = ClauseIds \union {c} /\ c \in Nat \ {0} /\ c # Nil
       /\ Watchers \subseteq Watchers'
  BY <1>0, <1>4, <1>7, <1>9, NewIndex
<1>13. /\ PBListsInv' /\ watched' \in Seq(Lits \X Lits) /\ Len(watched') = Len(clauses')
       /\ wlistBin' \in [Lits -> SUBSET Watchers'] /\ wlist' \in [Lits -> SUBSET Watchers']
  BY <1>1, <1>4, <1>7, <1>10, ClauseListed
<1>14. PICK n \in 0 .. Len(trail) : TrailBound(n) /\ ReasonsBound(n) /\ n = Len(trail)
  BY <1>1 DEF LiveInv, BindingsOK
<1>15. n \in Nat
  BY <1>14, TrailType, <1>7
<1>16. /\ BindingsOK' /\ model' \in [Vars -> Int] /\ trail' \in Seq(Lits)
       /\ polarity' \in [Vars -> BOOLEAN] /\ CleanQueue(level) \subseteq Vars
       /\ c \in ClauseIds' /\ ClauseIds \subseteq ClauseIds' =>
            reason' \in [Vars -> {Nil} \union ClauseIds']
       /\ \A v \in Vars : Level(v)' <= level
       /\ model'[VarOf(u)] = 0 /\ reason'[VarOf(u)] = c
       /\ \A l \in Lits : IsFalse(l)' <=> IsFalse(l) /\ Level(VarOf(l)) <= level
  <2>1. n < Len(trail) => Level(VarOf(trail[n])) > level
    BY <1>14, <1>15
  <2>2. Level(VarOf(u)) > level
    BY <1>3, <1>7, <1>8
  <2>3. /\ pc # "unify" /\ CleanupBindings(level) /\ pc' = "unify" /\ lit' = u
        /\ reason' = [CleanReason(level) EXCEPT ![VarOf(u)] = c]
    BY <1>1
  <2> QED BY <1>3, <1>8, <1>11, <1>14, <2>1, <2>2, <2>3, BackToLevel
<1>17. PBTypeOK'
  <2>1. lvl' \in Nat /\ lit' \in {NoLit} \union Lits /\ queue' \subseteq Vars
    BY <1>1, <1>3, <1>8, <1>16
  <2>2. reason' \in [Vars -> {Nil} \union ClauseIds']
    BY <1>12, <1>16
  <2>3. DOMAIN pbs' \subseteq ClauseIds' /\ pbs' \in [DOMAIN pbs' -> Constraints]
    BY <1>1, <1>7, <1>12 DEF PBTypeOK
  <2>4. todoBin' \subseteq Watchers' /\ todo' \subseteq Watchers'
    BY <1>1, <1>7, <1>12 DEF PBTypeOK
  <2>5. /\ met' \subseteq Vars /\ metLvl' \subseteq Vars /\ lits' \in Clauses
        /\ nbLvl' \in Int /\ walk' \in Int
    BY <1>2 DEF Clauses
  <2> QED BY <1>1, <1>7, <1>12, <1>13, <1>16, <2>1, <2>2, <2>3, <2>4, <2>5 DEF PBTypeOK
<1>18. PBVisitInv' /\ PBLearnInv' /\ CutInv'
  BY <1>1 DEF PBVisitInv, PBLearnInv, CutInv
<1>19. PBLevelsInv'
  <2>1. ret' \in {"branch", "cut"} \/ lvl' = 1
    <3>1. ret' = ret
      BY DEF LearnClause
    <3> QED BY <3>1
  <2> QED BY <1>1, <1>8, <1>16, <2>1 DEF PBLevelsInv
<1>20. PBUnifyInv'
  <2>1. u \in clauses'[c]
    BY <1>10, <1>12
  <2>2. ImpliedBy(c, u, {l \in Lits : IsFalse(l)})'
    <3>1. \A l \in C : l = u \/ (l \in Lits /\ IsFalse(l)')
      BY <1>4, <1>5, <1>6, <1>10, <1>16
    <3>2. (Lits \ ({l \in Lits : IsFalse(l)'} \union {u})) \cap C = {}
      BY <3>1
    <3>3. ~ Enough(Lits \ ({l \in Lits : IsFalse(l)} \union {u}), c)'
      BY <1>11, <3>2
    <3> QED BY <2>1, <3>3 DEF ImpliedBy
  <2>3. \A k \in DOMAIN pending' : Follows(pending[k])'
    BY <1>1, <1>9 DEF LiveInv, PBUnifyInv, Follows
  <2> QED BY <1>1, <1>3, <1>12, <1>16, <2>2, <2>3 DEF PBUnifyInv
<1> QED BY <1>11, <1>13, <1>16, <1>17, <1>18, <1>19, <1>20 DEF LiveInv

-----------------------------------------------------------------------------
(* Calls of the client that bind nothing.                                  *)

\* Between two calls the bindings are what they were.
LEMMA RestsLive ==
    ASSUME LiveInv, pc \in {"idle", "propagate"}, pc' \in {"idle", "search"},
           queue' \subseteq Vars, pending' = pending \/ pending' = <<>>,
           (\A v \in Vars : Level(v) <= 1) \/ (pc = "idle" /\ queue' = queue),
           UNCHANGED <<model, trail, reason, polarity, clauses, watched, wlistBin, wlist, pbs,
                       wlistPb, problem, visiting, pos, todoBin, todo, ptr, lvl, lit>>,
           UNCHANGED <<met, metLvl, lits, nbLvl, walk, assumptions, cut, cutPtr>>
    PROVE  LiveInv'
<1>1. /\ pc \notin {"cut", "learned", "bind", "unify"}
      /\ pc' \notin {"cut", "learned", "bind", "unify", "propagate", "visit", "pb", "conflict", "learn"}
  OBVIOUS
<1>2. /\ KeepsAll /\ DatabaseOK' /\ Solutions' = Solutions /\ ClauseIds' = ClauseIds
  BY SameDatabase DEF LiveInv
<1>3. PBTypeOK /\ PBListsInv' /\ \A k \in DOMAIN pending : Follows(pending[k])
  BY SameLists DEF LiveInv, PBUnifyInv
<1>4. BindingsOK' /\ \A v \in Vars : Level(v)' = Level(v)
  BY <1>1, <1>2, BindingsStay
<1>5. PBTypeOK'
  <2>1. pending \in Seq(Lits) /\ <<>> \in Seq(Lits)
    BY <1>3 DEF PBTypeOK
  <2>2. pending' \in Seq(Lits)
    BY <2>1
  <2> QED BY <1>2, <1>3, <2>2 DEF PBTypeOK, Watchers
<1>6. PBVisitInv' /\ PBLearnInv' /\ CutInv'
  BY <1>1 DEF PBVisitInv, PBLearnInv, CutInv
<1>7. PBUnifyInv'
  <2>1. \A k \in DOMAIN pending' : Follows(pending'[k])
    <3>1. CASE pending' = <<>>
      <4>1. DOMAIN pending' = {}
        BY <3>1
      <4> QED BY <4>1
    <3>2. CASE pending' = pending
      BY <1>3, <3>2
    <3> QED BY <3>1, <3>2
  <2> QED BY <1>1, <1>2, <2>1 DEF PBUnifyInv, Follows
<1>8. PBLevelsInv'
  BY <1>1, <1>4 DEF LiveInv, PBLevelsInv
<1> QED BY <1>2, <1>3, <1>4, <1>5, <1>6, <1>7, <1>8 DEF LiveInv

LEMMA SolveLive ==
    ASSUME LiveInv, Solve, UNCHANGED <<pbVars, cutVars, pbCtlVars>>
    PROVE  LiveInv'
<1>1. /\ pc = "idle" /\ pc' \in {"idle", "search"} /\ queue' = queue /\ pending' = pending
      /\ UNCHANGED <<model, trail, reason, polarity, clauses, watched, wlistBin, wlist, pbs,
                     wlistPb, problem, visiting, pos, todoBin, todo, ptr, lvl, lit>>
      /\ UNCHANGED <<met, metLvl, lits, nbLvl, walk, assumptions, cut, cutPtr>>
  BY DEF Solve, bindingVars, dbVars, propVars, learnVars, pbVars, cutVars, pbCtlVars
<1>2. queue \subseteq Vars
  BY DEF LiveInv, PBTypeOK
<1> QED BY <1>1, <1>2, RestsLive

LEMMA AppendReturnsLive ==
    ASSUME LiveInv, AppendReturns, status' # "Unsat"
    PROVE  LiveInv'
<1>1. /\ pc = "propagate" /\ ret \in {"append", "assume"} /\ pc' = "idle" /\ pending' = <<>>
      /\ queue' = IF ret = "append" THEN OrderHeap(model) ELSE queue
      /\ UNCHANGED <<model, trail, reason, polarity, clauses, watched, wlistBin, wlist, pbs,
                     wlistPb, problem, visiting, pos, todoBin, todo, ptr, lvl, lit>>
      /\ UNCHANGED <<met, metLvl, lits, nbLvl, walk, assumptions, cut, cutPtr>>
  BY DEF AppendReturns, CallReturns, Propagated, dbVars, learnVars, pbVars, cutVars
<1>2. queue' \subseteq Vars
  BY <1>1 DEF LiveInv, PBTypeOK, OrderHeap
<1>3. \A v \in Vars : Level(v) <= 1
  BY <1>1 DEF LiveInv, PBLevelsInv
<1> QED BY <1>1, <1>2, <1>3, RestsLive

-----------------------------------------------------------------------------
(* Conflict analysis with cutting planes.                                  *)

\* The more is contradicted, the less is left.
LEMMA FewerShares ==
    ASSUME NEW p \in Cuts, NEW S, NEW T, NEW V, V \subseteq Vars,
           \A u \in V : p.weights[u] # 0 /\ Negation(LitOf(p, u)) \in S => Negation(LitOf(p, u)) \in T
    PROVE  SumOf(Share(p, T), V) <= SumOf(Share(p, S), V)
<1>1. \A u \in V : /\ Share(p, T)[u] \in Nat /\ Share(p, S)[u] \in Nat
                   /\ Share(p, T)[u] <= Share(p, S)[u]
  <2> SUFFICES ASSUME NEW u \in V
               PROVE  /\ Share(p, T)[u] \in Nat /\ Share(p, S)[u] \in Nat
                      /\ Share(p, T)[u] <= Share(p, S)[u]
    OBVIOUS
  <2>1. CASE p.weights[u] = 0
    BY <2>1, ShareFacts DEF Abs
  <2>2. CASE p.weights[u] # 0
    BY <2>2, ShareFacts
  <2> QED BY <2>1, <2>2
<1>2. IsFiniteSet(V)
  BY VarsFinite
<1> QED BY <1>1, <1>2, SumMonotone

\* What the analysis needs of the constraint it computes, when the literals S
\* are true.
CutHolds(p, S) ==
    /\ p \in Cuts /\ \A a \in Solutions : MeetsCut(a, p)
    /\ NotContradicted(p, S) < p.card

\* A constraint that is false stays so when it is rounded on one of its false
\* literals.
LEMMA RoundedHolds ==
    ASSUME NEW p, NEW S, CutHolds(p, S), NEW m \in [Vars -> Int], MadeTrue(m, S),
           NEW v \in Vars, p.weights[v] # 0, Negation(LitOf(p, v)) \in S,
           NEW q, q = RoundToOne(p, v, m)
    PROVE  /\ CutHolds(q, S) /\ Abs(q.weights[v]) = 1 /\ LitOf(q, v) = LitOf(p, v)
           /\ q.weights[v] # 0
           /\ Remaining(q, v, S) < q.card
           /\ \A u \in Vars : q.weights[u] # 0 => p.weights[u] # 0 /\ LitOf(q, u) = LitOf(p, u)
<1>1. p \in Cuts /\ p.card \in Int /\ \A a \in Solutions : MeetsCut(a, p)
  BY DEF CutHolds, Cuts
<1>2. Remaining(p, v, S) < p.card
  <2>1. /\ Remaining(p, v, S) \in Nat /\ Share(p, S)[v] \in Nat
        /\ NotContradicted(p, S) = Remaining(p, v, S) + Share(p, S)[v]
    BY <1>1, RemainingFacts, ShareFacts
  <2> QED BY <1>1, <2>1 DEF CutHolds
<1>3. /\ q \in Cuts /\ Abs(q.weights[v]) = 1 /\ Remaining(q, v, S) < q.card
      /\ \A u \in Vars : q.weights[u] # 0 =>
            p.weights[u] # 0 /\ (q.weights[u] < 0 <=> p.weights[u] < 0)
      /\ \A a \in Assignments : MeetsCut(a, p) => MeetsCut(a, q)
  BY <1>1, <1>2, RoundToOneFacts
<1>4. \A u \in Vars : q.weights[u] # 0 => p.weights[u] # 0 /\ LitOf(q, u) = LitOf(p, u)
  BY <1>3 DEF LitOf
<1>5. q.weights[v] # 0
  BY <1>3 DEF Abs
<1>6. LitOf(q, v) = LitOf(p, v)
  BY <1>4, <1>5
<1>7. NotContradicted(q, S) < q.card
  <2>1. Share(q, S)[v] = 0
    BY <1>3, <1>6, ShareFacts
  <2>2. Remaining(q, v, S) \in Nat /\ NotContradicted(q, S) = Remaining(q, v, S) + Share(q, S)[v]
    BY <1>3, RemainingFacts
  <2> QED BY <1>3, <2>1, <2>2
<1>8. \A a \in Solutions : MeetsCut(a, q)
  BY <1>1, <1>3 DEF Solutions
<1> QED BY <1>3, <1>4, <1>5, <1>6, <1>7, <1>8 DEF CutHolds

\* The literals that S does not contradict, for a trail that is bound up to n.
LEMMA NotContradictedNow ==
    ASSUME PBTypeOK, NEW n, TrailBound(n)
    PROVE  {l \in Lits : Negation(l) \notin UpTo(n)} = {l \in Lits : ~ IsFalse(l)}
<1>1. \A l \in Lits : IsFalse(l) <=> Negation(l) \in UpTo(n)
  BY BoundFacts
<1> QED BY <1>1

\* What analysis with cutting planes leaves alone.
CutKeeps ==
    UNCHANGED <<trail, reason, polarity, queue, clauses, watched, wlistBin, wlist, pbs, wlistPb,
                visiting, pos, ptr, todoBin, todo, pending, problem, met, metLvl, lits, nbLvl,
                walk, assumptions>>

LEMMA CutGoesOn ==
    ASSUME LiveInv, CutKeeps, pc' = "cut", lvl' \in Nat, lit' \in {NoLit} \union Lits,
           model' \in [Vars -> Int], BindingsOK', cutPtr' \in Nat, cut' \in Cuts,
           \A a \in Solutions : MeetsCut(a, cut'),
           NotContradicted(cut', {trail[i] : i \in 1 .. cutPtr'}) < cut'.card
    PROVE  LiveInv'
<1>1. UNCHANGED <<polarity, queue, clauses, watched, wlistBin, wlist, pbs, wlistPb, visiting, pos,
                  ptr, todoBin, todo, pending, problem, met, metLvl, lits, nbLvl, walk,
                  assumptions, trail, reason>>
  BY DEF CutKeeps
<1>2. /\ KeepsAll /\ DatabaseOK' /\ Solutions' = Solutions /\ ClauseIds' = ClauseIds
  BY <1>1, SameDatabase DEF LiveInv
<1>3. PBTypeOK /\ PBListsInv' /\ \A k \in DOMAIN pending : Follows(pending[k])
  BY <1>1, SameLists DEF LiveInv, PBUnifyInv
<1>4. PBTypeOK'
  <2>1. cut' \in [weights : [Vars -> Int], card : Int]
    BY DEF Cuts
  <2> QED BY <1>1, <1>2, <1>3, <2>1 DEF PBTypeOK, Watchers
<1>5. PBVisitInv' /\ PBLearnInv' /\ PBLevelsInv'
  BY DEF PBVisitInv, PBLearnInv, PBLevelsInv
<1>6. PBUnifyInv'
  BY <1>1, <1>2, <1>3 DEF PBUnifyInv, Follows
<1>7. CutInv'
  <2>1. \A a \in Solutions' : MeetsCut(a, cut')
    BY <1>2
  <2>2. NotContradicted(cut', {trail'[i] : i \in 1 .. cutPtr'}) < cut'.card
    BY <1>1
  <2> QED BY <2>1, <2>2 DEF CutInv
<1> QED BY <1>2, <1>3, <1>4, <1>5, <1>6, <1>7 DEF LiveInv

\* The analysis starts with the constraint that is false.
LEMMA CutConflictLive ==
    ASSUME LiveInv, CutConflict
    PROVE  LiveInv'
<1>0. PICK n, p : n = Len(trail) /\ p = PbSet(confl)
  OBVIOUS
<1>1. /\ pc = "conflict" /\ pc' = "cut" /\ cut' = p /\ cutPtr' = n
      /\ UNCHANGED <<model, lvl, lit>> /\ CutKeeps
  BY <1>0 DEF CutConflict, StartCut, CutKeeps, bindingVars, dbVars, learnVars, clientVars, pbVars,
         pbCtlVars
<1>2. /\ confl \in ClauseIds /\ ~ Enough({l \in Lits : ~ IsFalse(l)}, confl)
  BY <1>1 DEF LiveInv, PBVisitInv
<1>3. PBTypeOK /\ DatabaseOK /\ TrailBound(n) /\ n \in Nat
  BY <1>0, <1>1, BoundNow DEF LiveInv, Bound
<1>4. PICK S : S = UpTo(n)
  OBVIOUS
<1>5. S \subseteq Lits /\ Consistent(S) /\ ~ Enough({l \in Lits : Negation(l) \notin S}, confl)
  BY <1>2, <1>3, <1>4, UpToFacts, NotContradictedNow
<1>6. /\ ConstraintOK(confl) /\ \A a \in Solutions : a \in Assignments /\ Enough(Made(a), confl)
  BY <1>2, <1>3, ConstraintsOK
<1>7. Untangled(confl) /\ p \in Cuts /\ NotContradicted(p, S) < p.card
  BY <1>0, <1>5, <1>6, PbSetFalse
<1>8. \A a \in Solutions : MeetsCut(a, p)
  BY <1>0, <1>6, <1>7, PbSetHolds
<1>9. BindingsOK'
  <2>1. KeepsAll
    BY <1>1, <1>3, SameDatabase DEF CutKeeps
  <2> QED BY <1>0, <1>1, <2>1, BindingsStay DEF CutKeeps
<1>10. NotContradicted(cut', {trail[i] : i \in 1 .. cutPtr'}) < cut'.card
  BY <1>1, <1>4, <1>7 DEF UpTo
<1>11. model' \in [Vars -> Int] /\ lvl' \in Nat /\ lit' \in {NoLit} \union Lits
  BY <1>1, <1>3 DEF PBTypeOK
<1> QED BY <1>1, <1>3, <1>7, <1>8, <1>9, <1>10, <1>11, CutGoesOn

\* What the analysis knows while it goes down the trail.
LEMMA CutFacts ==
    ASSUME LiveInv, pc \in {"cut", "learned"}
    PROVE  /\ Bound(cutPtr) /\ ReasonsBound(cutPtr) /\ DatabaseOK
           /\ cutPtr \in 0 .. Len(trail) /\ Len(trail) \in Nat
           /\ model \in [Vars -> Int] /\ CutHolds(cut, UpTo(cutPtr))
           /\ \A v \in Vars : Level(v) \in Nat /\ (Level(v) = 0 <=> model[v] = 0)
           /\ \A i \in 1 .. cutPtr : /\ trail[i] \in Lits /\ VarOf(trail[i]) \in Vars
                                     /\ LitStatus(trail[i]) = "Sat" /\ model[VarOf(trail[i])] # 0
           /\ \A i, j \in 1 .. cutPtr : i <= j => Level(VarOf(trail[i])) <= Level(VarOf(trail[j]))
<1>1. PBTypeOK /\ DatabaseOK /\ FactsFollow /\ ReasonsHold
  BY DEF LiveInv, BindingsOK
<1>2. cutPtr \in 0 .. Len(trail) /\ TrailBound(cutPtr) /\ ReasonsBound(cutPtr)
  BY DEF LiveInv, BindingsOK
<1>3. /\ Len(trail) \in Nat /\ DOMAIN trail = 1 .. Len(trail)
      /\ \A i \in DOMAIN trail : trail[i] \in Lits /\ VarOf(trail[i]) \in Vars
      /\ \A v \in Vars : Level(v) \in Nat /\ (Level(v) = 0 <=> model[v] = 0)
  BY <1>1, TrailType
<1>4. \A i \in 1 .. cutPtr : i \in DOMAIN trail
  BY <1>2, <1>3
<1>5. model \in [Vars -> Int] /\ cut \in Cuts
  BY <1>1 DEF PBTypeOK, Cuts
<1>6. \A i \in 1 .. cutPtr : LitStatus(trail[i]) = "Sat" /\ model[VarOf(trail[i])] # 0
  BY <1>2, <1>3, <1>4, <1>5, StatusFacts DEF TrailBound
<1>7. CutHolds(cut, UpTo(cutPtr))
  BY <1>5 DEF LiveInv, CutInv, CutHolds, UpTo
<1>8. \A i, j \in 1 .. cutPtr : i <= j => Level(VarOf(trail[i])) <= Level(VarOf(trail[j]))
  BY <1>2 DEF TrailBound
<1> QED BY <1>1, <1>2, <1>3, <1>4, <1>5, <1>6, <1>7, <1>8 DEF Bound

\* A position of the trail where the cut falsifies the literal.
FalsifiedAt(i) ==
    /\ i \in 1 .. cutPtr /\ Falsifies(cut, trail[i])
    /\ VarOf(trail[i]) \in Vars /\ cut.weights[VarOf(trail[i])] # 0
    /\ Negation(LitOf(cut, VarOf(trail[i]))) = trail[i]
    /\ Negation(trail[i]) = LitOf(cut, VarOf(trail[i]))

LEMMA FalsifiedFacts ==
    ASSUME LiveInv, pc \in {"cut", "learned"}
    PROVE  /\ \A i \in Falsified : FalsifiedAt(i)
           /\ \A v \in Vars : cut.weights[v] # 0 /\ Negation(LitOf(cut, v)) \in UpTo(cutPtr) =>
                \E i \in Falsified : VarOf(trail[i]) = v /\ trail[i] = Negation(LitOf(cut, v))
<1>1. /\ cut \in Cuts
      /\ \A i \in 1 .. cutPtr : trail[i] \in Lits /\ VarOf(trail[i]) \in Vars
  BY CutFacts DEF CutHolds
<1>2. \A i \in Falsified : FalsifiedAt(i)
  BY <1>1, FalsifiesFacts DEF Falsified, FalsifiedAt
<1>3. ASSUME NEW v \in Vars, cut.weights[v] # 0, Negation(LitOf(cut, v)) \in UpTo(cutPtr)
      PROVE  \E i \in Falsified : VarOf(trail[i]) = v /\ trail[i] = Negation(LitOf(cut, v))
  <2>1. PICK i \in 1 .. cutPtr : trail[i] = Negation(LitOf(cut, v))
    BY <1>3 DEF UpTo
  <2>2. LitOf(cut, v) \in Lits /\ VarOf(LitOf(cut, v)) = v
    BY <1>1, <1>3, ShareFacts
  <2>3. VarOf(trail[i]) = v /\ Negation(trail[i]) = LitOf(cut, v)
    BY <2>1, <2>2, LitFacts
  <2>4. Falsifies(cut, trail[i])
    BY <1>1, <1>3, <2>3, FalsifiesFacts
  <2>5. i \in Falsified
    BY <2>1, <2>4 DEF Falsified
  <2> QED BY <2>1, <2>3, <2>5
<1> QED BY <1>2, <1>3

\* In a problem with solutions, the cut falsifies a literal above level 1: the
\* facts hold in all the solutions, which satisfy it.
LEMMA FalsifiedAbove ==
    ASSUME LiveInv, pc \in {"cut", "learned"}, Solutions # {}
    PROVE  \E i \in Falsified : Level(VarOf(trail[i])) > 1
<1>1. PICK a : a \in Solutions
  OBVIOUS
<1>2. SUFFICES ASSUME \A i \in Falsified : ~ (Level(VarOf(trail[i])) > 1) PROVE FALSE
  OBVIOUS
<1>3. /\ CutHolds(cut, UpTo(cutPtr)) /\ FactsFollow /\ cutPtr \in 0 .. Len(trail)
      /\ Len(trail) \in Nat /\ DOMAIN trail = 1 .. Len(trail)
      /\ \A v \in Vars : Level(v) \in Nat /\ (Level(v) = 0 <=> model[v] = 0)
      /\ \A i \in 1 .. cutPtr : trail[i] \in Lits /\ model[VarOf(trail[i])] # 0
  BY CutFacts, TrailType DEF Bound
<1>4. \A v \in Vars : cut.weights[v] # 0 /\ Negation(LitOf(cut, v)) \in UpTo(cutPtr) =>
            Negation(LitOf(cut, v)) \in Made(a)
  <2> SUFFICES ASSUME NEW v \in Vars, cut.weights[v] # 0, Negation(LitOf(cut, v)) \in UpTo(cutPtr)
               PROVE  Negation(LitOf(cut, v)) \in Made(a)
    OBVIOUS
  <2>1. PICK i \in Falsified : VarOf(trail[i]) = v /\ trail[i] = Negation(LitOf(cut, v))
    BY FalsifiedFacts
  <2>2. i \in 1 .. cutPtr /\ i \in DOMAIN trail
    BY <1>3 DEF Falsified
  <2>3. Level(VarOf(trail[i])) = 1
    BY <1>2, <1>3, <2>1, <2>2
  <2>4. Holds(a, trail[i])
    BY <1>1, <1>3, <2>2, <2>3 DEF FactsFollow, Follows
  <2> QED BY <1>3, <2>1, <2>2, <2>4 DEF Made
<1>5. cut \in Cuts /\ cut.card \in Int /\ NotContradicted(cut, UpTo(cutPtr)) < cut.card
  BY <1>3 DEF CutHolds, Cuts
<1>6. SumOf(Share(cut, Made(a)), Vars) <= SumOf(Share(cut, UpTo(cutPtr)), Vars)
  BY <1>4, <1>5, FewerShares
<1>7. /\ NotContradicted(cut, Made(a)) = SumOf(Share(cut, Made(a)), Vars)
      /\ NotContradicted(cut, UpTo(cutPtr)) = SumOf(Share(cut, UpTo(cutPtr)), Vars)
      /\ NotContradicted(cut, Made(a)) \in Nat /\ NotContradicted(cut, UpTo(cutPtr)) \in Nat
  BY <1>5, NotContradictedShares
<1>8. NotContradicted(cut, Made(a)) >= cut.card
  BY <1>1, <1>3 DEF CutHolds, MeetsCut, Made
<1> QED BY <1>5, <1>6, <1>7, <1>8

\* The inner loop finds the last of these positions.
LEMMA WalkFacts ==
    ASSUME LiveInv, pc \in {"cut", "learned"}, Solutions # {}
    PROVE  /\ Max(Falsified) \in Falsified /\ \A i \in Falsified : i <= Max(Falsified)
           /\ Max(Falsified) \in 1 .. cutPtr
           /\ Level(VarOf(trail[Max(Falsified)])) > 1
<1>1. PICK i \in Falsified : Level(VarOf(trail[i])) > 1
  BY FalsifiedAbove
<1>2. /\ cutPtr \in Nat
      /\ \A j, k \in 1 .. cutPtr : j <= k => Level(VarOf(trail[j])) <= Level(VarOf(trail[k]))
      /\ \A j \in 1 .. cutPtr : VarOf(trail[j]) \in Vars
      /\ \A v \in Vars : Level(v) \in Nat
  BY CutFacts
<1>3. Falsified \subseteq 1 .. cutPtr /\ Falsified \subseteq 0 .. cutPtr /\ Falsified # {}
  BY <1>1, <1>2 DEF Falsified
<1>4. Max(Falsified) \in Falsified /\ \A j \in Falsified : j <= Max(Falsified)
  BY <1>2, <1>3, MaxOfNats
<1>5. Level(VarOf(trail[i])) <= Level(VarOf(trail[Max(Falsified)]))
  BY <1>1, <1>2, <1>3, <1>4
<1>6. /\ Level(VarOf(trail[i])) \in Nat /\ Level(VarOf(trail[Max(Falsified)])) \in Nat
  BY <1>1, <1>2, <1>3, <1>4
<1>7. Level(VarOf(trail[Max(Falsified)])) > 1
  BY <1>1, <1>5, <1>6
<1>8. Max(Falsified) \in 1 .. cutPtr
  BY <1>3, <1>4
<1> QED BY <1>4, <1>7, <1>8

\* The variables it passes, and the model without them.
PassedBy(k, passed, m) ==
    /\ passed = {VarOf(trail[i]) : i \in k + 1 .. cutPtr}
    /\ m = [u \in Vars |-> IF u \in passed THEN 0 ELSE model[u]]

\* None of these variables comes before k.
LEMMA Passing ==
    ASSUME LiveInv, pc \in {"cut", "learned"}, NEW k \in 1 .. cutPtr, Level(VarOf(trail[k])) > 1,
           NEW passed, NEW m, PassedBy(k, passed, m)
    PROVE  /\ m \in [Vars -> Int] /\ MadeTrue(m, UpTo(k)) /\ Consistent(UpTo(k))
           /\ UpTo(k) \subseteq UpTo(cutPtr)
           /\ \A i \in 1 .. k : VarOf(trail[i]) \notin passed
           /\ \A i \in 1 .. k - 1 : VarOf(trail[i]) # VarOf(trail[k])
<1>0. /\ passed = {VarOf(trail[i]) : i \in k + 1 .. cutPtr}
      /\ m = [u \in Vars |-> IF u \in passed THEN 0 ELSE model[u]]
  BY DEF PassedBy
<1>1. /\ Bound(cutPtr) /\ PBTypeOK /\ TrailBound(cutPtr) /\ cutPtr \in Nat /\ model \in [Vars -> Int]
      /\ \A i \in 1 .. cutPtr : trail[i] \in Lits /\ VarOf(trail[i]) \in Vars
      /\ \A v \in Vars : Level(v) \in Nat
      /\ \A i, j \in 1 .. cutPtr : i <= j => Level(VarOf(trail[i])) <= Level(VarOf(trail[j]))
  BY CutFacts DEF Bound
<1>2. \A i \in k .. cutPtr : i \in 1 .. cutPtr /\ Level(VarOf(trail[i])) > 1
  <2> SUFFICES ASSUME NEW i \in k .. cutPtr
               PROVE  i \in 1 .. cutPtr /\ Level(VarOf(trail[i])) > 1
    OBVIOUS
  <2>1. i \in 1 .. cutPtr /\ k <= i
    BY <1>1
  <2>2. Level(VarOf(trail[k])) <= Level(VarOf(trail[i]))
    BY <1>1, <2>1
  <2>3. Level(VarOf(trail[k])) \in Nat /\ Level(VarOf(trail[i])) \in Nat
    BY <1>1, <2>1
  <2> QED BY <2>1, <2>2, <2>3
<1>3. \A i \in 1 .. cutPtr, j \in k .. cutPtr : VarOf(trail[i]) = VarOf(trail[j]) => i = j
  <2> SUFFICES ASSUME NEW i \in 1 .. cutPtr, NEW j \in k .. cutPtr,
                      VarOf(trail[i]) = VarOf(trail[j]), i # j
               PROVE  FALSE
    OBVIOUS
  <2>1. j \in 1 .. cutPtr /\ Level(VarOf(trail[j])) > 1
    BY <1>2
  <2>2. Level(VarOf(trail[i])) = 1
    BY <1>1, <2>1 DEF TrailBound
  <2> QED BY <2>1, <2>2
<1>4. \A i \in 1 .. k : i \in 1 .. cutPtr /\ VarOf(trail[i]) \notin passed
  <2> SUFFICES ASSUME NEW i \in 1 .. k, i \notin 1 .. cutPtr \/ VarOf(trail[i]) \in passed
               PROVE  FALSE
    OBVIOUS
  <2>1. i \in 1 .. cutPtr
    BY <1>1
  <2>2. PICK j \in k + 1 .. cutPtr : VarOf(trail[i]) = VarOf(trail[j])
    BY <1>0, <2>1
  <2>3. j \in k .. cutPtr /\ i # j
    BY <1>1
  <2> QED BY <1>3, <2>1, <2>2, <2>3
<1>5. \A i \in 1 .. k - 1 : VarOf(trail[i]) # VarOf(trail[k])
  <2> SUFFICES ASSUME NEW i \in 1 .. k - 1 PROVE VarOf(trail[i]) # VarOf(trail[k])
    OBVIOUS
  <2>1. i \in 1 .. cutPtr /\ k \in k .. cutPtr /\ i # k
    BY <1>1
  <2> QED BY <1>3, <2>1
<1>6. UpTo(k) \subseteq UpTo(cutPtr)
  BY <1>4 DEF UpTo
<1>7. Consistent(UpTo(k))
  BY <1>1, <1>6, UpToFacts DEF Consistent
<1>8. m \in [Vars -> Int]
  BY <1>0, <1>1
<1>9. MadeTrue(m, UpTo(k))
  <2> SUFFICES ASSUME NEW l \in Lits
               PROVE  l \in UpTo(k) <=> m[VarOf(l)] # 0 /\ (m[VarOf(l)] > 0 <=> IsPositive(l))
    BY DEF MadeTrue
  <2>1. /\ VarOf(l) \in Vars
        /\ l \in UpTo(cutPtr) <=> model[VarOf(l)] # 0 /\ (model[VarOf(l)] > 0 <=> IsPositive(l))
    BY <1>1, UpToFacts, LitFacts DEF MadeTrue
  <2>2. CASE VarOf(l) \in passed
    <3>1. m[VarOf(l)] = 0
      BY <1>0, <2>1, <2>2
    <3>2. l \notin UpTo(k)
      BY <1>4, <2>2 DEF UpTo
    <3> QED BY <3>1, <3>2
  <2>3. CASE VarOf(l) \notin passed
    <3>1. m[VarOf(l)] = model[VarOf(l)]
      BY <1>0, <2>1, <2>3
    <3>2. l \in UpTo(cutPtr) => l \in UpTo(k)
      <4> SUFFICES ASSUME l \in UpTo(cutPtr) PROVE l \in UpTo(k)
        OBVIOUS
      <4>1. PICK i \in 1 .. cutPtr : l = trail[i]
        BY DEF UpTo
      <4>2. i \notin k + 1 .. cutPtr
        BY <1>0, <2>3, <4>1
      <4>3. i \in 1 .. k
        BY <1>1, <4>2
      <4> QED BY <4>1, <4>3 DEF UpTo
    <3> QED BY <1>6, <2>1, <3>1, <3>2
  <2> QED BY <2>2, <2>3
<1> QED BY <1>4, <1>5, <1>6, <1>7, <1>8, <1>9

LEMMA PassingBinds ==
    ASSUME LiveInv, pc \in {"cut", "learned"}, NEW k \in 1 .. cutPtr, Level(VarOf(trail[k])) > 1,
           NEW passed, PassedBy(k, passed, model'),
           KeepsAll, UNCHANGED <<trail, reason>>, pc' = "cut", cutPtr' = k
    PROVE  BindingsOK'
<1>0. /\ passed = {VarOf(trail[i]) : i \in k + 1 .. cutPtr}
      /\ model' = [u \in Vars |-> IF u \in passed THEN 0 ELSE model[u]]
  BY DEF PassedBy
<1>1. /\ Bound(cutPtr) /\ PBTypeOK /\ TrailBound(cutPtr) /\ ReasonsBound(cutPtr)
      /\ cutPtr \in 0 .. Len(trail) /\ Len(trail) \in Nat /\ model \in [Vars -> Int]
      /\ FactsFollow /\ ReasonsHold
      /\ \A i \in 1 .. cutPtr : trail[i] \in Lits /\ VarOf(trail[i]) \in Vars
      /\ \A v \in Vars : Level(v) \in Nat /\ (Level(v) = 0 <=> model[v] = 0)
      /\ DOMAIN trail = 1 .. Len(trail)
      /\ \A i \in DOMAIN trail : trail[i] \in Lits /\ VarOf(trail[i]) \in Vars
  BY CutFacts, TrailType DEF Bound
<1>2. /\ \A i \in 1 .. k : VarOf(trail[i]) \notin passed
      /\ \A i \in 1 .. k : i \in 1 .. cutPtr
      /\ k \in 1 .. k
  <2>1. \A i \in 1 .. k : VarOf(trail[i]) \notin passed
    BY Passing
  <2>2. k \in Nat /\ k <= cutPtr /\ cutPtr \in Nat /\ k >= 1
    BY <1>1
  <2> QED BY <2>1, <2>2
<1>3. \A v \in Vars : /\ model'[v] = IF v \in passed THEN 0 ELSE model[v]
                      /\ Level(v)' = IF v \in passed THEN 0 ELSE Level(v)
  BY <1>0 DEF Level, Abs
<1>4. \A i \in 1 .. k : /\ model'[VarOf(trail[i])] = model[VarOf(trail[i])]
                        /\ Level(VarOf(trail[i]))' = Level(VarOf(trail[i]))
                        /\ LitStatus(trail[i])' = LitStatus(trail[i])
  <2> SUFFICES ASSUME NEW i \in 1 .. k
               PROVE  /\ model'[VarOf(trail[i])] = model[VarOf(trail[i])]
                      /\ Level(VarOf(trail[i]))' = Level(VarOf(trail[i]))
                      /\ LitStatus(trail[i])' = LitStatus(trail[i])
    OBVIOUS
  <2>1. VarOf(trail[i]) \in Vars /\ VarOf(trail[i]) \notin passed /\ trail'[i] = trail[i]
    BY <1>1, <1>2
  <2> QED BY <1>3, <2>1 DEF LitStatus, Level
<1>5. TrailBound(k)'
  <2>1. k \in 0 .. Len(trail') /\ Len(trail') = Len(trail)
    BY <1>1
  <2>2. \A i \in 1 .. k : LitStatus(trail[i])' = "Sat"
    BY <1>1, <1>2, <1>4 DEF TrailBound
  <2>3. ASSUME NEW i \in k + 1 .. Len(trail') PROVE model'[VarOf(trail[i])] = 0
    <3>1. i \in DOMAIN trail /\ VarOf(trail[i]) \in Vars
      BY <1>1
    <3>2. CASE i \in k + 1 .. cutPtr
      BY <1>0, <1>3, <3>1, <3>2
    <3>3. CASE i \in cutPtr + 1 .. Len(trail)
      <4>1. model[VarOf(trail[i])] = 0
        BY <1>1, <3>3 DEF TrailBound
      <4> QED BY <1>3, <3>1, <4>1
    <3> QED BY <1>1, <3>2, <3>3
  <2>4. k > 0 /\ Level(VarOf(trail[k]))' > 1
    <3>1. Level(VarOf(trail[k]))' = Level(VarOf(trail[k])) /\ k > 0
      BY <1>2, <1>4
    <3> QED BY <3>1
  <2>5. ASSUME NEW v \in Vars, model'[v] # 0 PROVE \E i \in 1 .. k : VarOf(trail[i]) = v
    <3>1. v \notin passed /\ model[v] # 0
      BY <1>3, <2>5
    <3>2. PICK i \in 1 .. cutPtr : VarOf(trail[i]) = v
      BY <1>1, <3>1 DEF TrailBound
    <3>3. i \notin k + 1 .. cutPtr
      BY <1>0, <3>1, <3>2
    <3>4. i \in 1 .. k
      BY <1>1, <3>3
    <3> QED BY <3>2, <3>4
  <2>6. \A i, j \in 1 .. k : i <= j => Level(VarOf(trail[i]))' <= Level(VarOf(trail[j]))'
    <3> SUFFICES ASSUME NEW i \in 1 .. k, NEW j \in 1 .. k, i <= j
                 PROVE  Level(VarOf(trail[i]))' <= Level(VarOf(trail[j]))'
      OBVIOUS
    <3>1. Level(VarOf(trail[i])) <= Level(VarOf(trail[j]))
      BY <1>1, <1>2 DEF TrailBound
    <3>2. /\ Level(VarOf(trail[i]))' = Level(VarOf(trail[i]))
          /\ Level(VarOf(trail[j]))' = Level(VarOf(trail[j]))
      BY <1>4
    <3> QED BY <3>1, <3>2
  <2>7. \A i, j \in 1 .. k : VarOf(trail[i]) = VarOf(trail[j]) /\ i # j =>
            Level(VarOf(trail[i]))' = 1
    BY <1>1, <1>2, <1>4 DEF TrailBound
  <2>8. \A i, j \in 1 .. k :
            Level(VarOf(trail[i]))' > 1 /\ reason[VarOf(trail[i])] = Nil /\ j < i =>
                Level(VarOf(trail[j]))' < Level(VarOf(trail[i]))'
    <3> SUFFICES ASSUME NEW i \in 1 .. k, NEW j \in 1 .. k,
                        Level(VarOf(trail[i]))' > 1, reason[VarOf(trail[i])] = Nil, j < i
                 PROVE  Level(VarOf(trail[j]))' < Level(VarOf(trail[i]))'
      OBVIOUS
    <3>1. /\ Level(VarOf(trail[i]))' = Level(VarOf(trail[i]))
          /\ Level(VarOf(trail[j]))' = Level(VarOf(trail[j]))
      BY <1>4
    <3>2. Level(VarOf(trail[j])) < Level(VarOf(trail[i]))
      BY <1>1, <1>2, <3>1 DEF TrailBound
    <3> QED BY <3>1, <3>2
  <2> QED BY <2>1, <2>2, <2>3, <2>4, <2>5, <2>6, <2>7, <2>8 DEF TrailBound
<1>6. ReasonsBound(k)'
  <2> SUFFICES ASSUME NEW v \in Vars, model'[v] = 0, reason[v] # Nil
               PROVE  \E i \in k + 1 .. Len(trail) : VarOf(trail[i]) = v
    BY DEF ReasonsBound
  <2>1. CASE v \in passed
    <3>1. PICK i \in k + 1 .. cutPtr : VarOf(trail[i]) = v
      BY <1>0, <2>1
    <3>2. i \in k + 1 .. Len(trail)
      BY <1>1
    <3> QED BY <3>1, <3>2
  <2>2. CASE v \notin passed
    <3>1. model[v] = 0
      BY <1>3, <2>2
    <3>2. PICK i \in cutPtr + 1 .. Len(trail) : VarOf(trail[i]) = v
      BY <1>1, <3>1 DEF ReasonsBound
    <3>3. i \in k + 1 .. Len(trail)
      BY <1>1
    <3> QED BY <3>2, <3>3
  <2> QED BY <2>1, <2>2
<1>7. FactsFollow'
  <2> SUFFICES ASSUME NEW i \in DOMAIN trail, Level(VarOf(trail[i]))' = 1
               PROVE  Follows(trail[i])'
    BY DEF FactsFollow
  <2>1. Level(VarOf(trail[i])) = 1
    BY <1>1, <1>3
  <2>2. Follows(trail[i])
    BY <1>1, <2>1 DEF FactsFollow
  <2> QED BY <2>2 DEF Follows, KeepsAll
<1>8. ReasonsHold'
  <2> SUFFICES ASSUME NEW i \in DOMAIN trail, reason[VarOf(trail[i])] # Nil
               PROVE  ImpliedBy(reason[VarOf(trail[i])], trail[i], FalseBefore(i))'
    BY DEF ReasonsHold
  <2>1. PICK r, l, F : r = reason[VarOf(trail[i])] /\ l = trail[i] /\ F = FalseBefore(i)
    OBVIOUS
  <2>2. ImpliedBy(r, l, F) /\ r \in ClauseIds
    BY <1>1, <2>1 DEF ReasonsHold, PBTypeOK
  <2>3. ImpliedBy(r, l, F)'
    BY <2>2, ImpliedKept
  <2>4. r = reason'[VarOf(trail'[i])] /\ l = trail'[i] /\ F = FalseBefore(i)'
    BY <2>1 DEF FalseBefore
  <2> QED BY <2>3, <2>4
<1>9. k \in 0 .. Len(trail')
  BY <1>1
<1> QED BY <1>5, <1>6, <1>7, <1>8, <1>9 DEF BindingsOK

\* The cut is rounded on the literal found, and resolved with its reason.
LEMMA CutTurnLive ==
    ASSUME LiveInv, CutTurn, Solutions # {}, status' # "Unsat", pc' # "panic"
    PROVE  LiveInv'
<1>0. PICK k, v, t, passed, m :
            /\ k = Max(Falsified) /\ v = VarOf(trail[k]) /\ t = trail[k]
            /\ passed = {VarOf(trail[i]) : i \in k + 1 .. cutPtr}
            /\ m = [u \in Vars |-> IF u \in passed THEN 0 ELSE model[u]]
  OBVIOUS
<1>1. /\ pc = "cut" /\ WalkDown(k) /\ pc' = "cut"
      /\ UNCHANGED <<trail, reason, polarity, queue, lit, pending>> /\ SearchKeeps
  BY <1>0 DEF CutTurn, AnswerUnsat, Panic
<1>2. /\ CutKeeps
      /\ UNCHANGED <<clauses, pbs, problem>>
  BY <1>1 DEF CutKeeps, SearchKeeps, BindKeeps, dbVars, learnVars, pbVars
<1>3. /\ k \in Falsified /\ k \in 1 .. cutPtr /\ Level(VarOf(trail[k])) > 1
      /\ \A i \in Falsified : i <= k
  BY <1>0, <1>1, WalkFacts
<1>4. /\ m \in [Vars -> Int] /\ MadeTrue(m, UpTo(k)) /\ Consistent(UpTo(k))
      /\ UpTo(k) \subseteq UpTo(cutPtr)
      /\ \A i \in 1 .. k - 1 : VarOf(trail[i]) # VarOf(trail[k])
  <2>1. pc \in {"cut", "learned"}
    BY <1>1
  <2>2. PassedBy(k, passed, m)
    BY <1>0 DEF PassedBy
  <2> QED BY <1>3, <2>1, <2>2, Passing
<1>5. /\ PBTypeOK /\ DatabaseOK /\ ReasonsHold /\ CutHolds(cut, UpTo(cutPtr))
      /\ cutPtr \in 0 .. Len(trail) /\ Len(trail) \in Nat /\ DOMAIN trail = 1 .. Len(trail)
      /\ \A i \in 1 .. cutPtr : trail[i] \in Lits /\ VarOf(trail[i]) \in Vars
  BY <1>1, CutFacts, TrailType DEF Bound
<1>6. /\ t \in Lits /\ v \in Vars /\ t = Negation(LitOf(cut, v)) /\ Negation(t) = LitOf(cut, v)
      /\ cut.weights[v] # 0 /\ k \in DOMAIN trail /\ t \in UpTo(k)
  <2>1. FalsifiedAt(k)
    BY <1>1, <1>3, FalsifiedFacts
  <2>2. k \in 1 .. k /\ k \in DOMAIN trail
    BY <1>3, <1>5
  <2> QED BY <1>0, <1>3, <1>5, <2>1, <2>2 DEF FalsifiedAt, UpTo
\* What is passed was not in the cut.
<1>7. CutHolds(cut, UpTo(k))
  <2>1. cut \in Cuts
    BY <1>5 DEF CutHolds
  <2>2. \A u \in Vars : cut.weights[u] # 0 =>
            (Negation(LitOf(cut, u)) \in UpTo(k) <=> Negation(LitOf(cut, u)) \in UpTo(cutPtr))
    <3> SUFFICES ASSUME NEW u \in Vars, cut.weights[u] # 0,
                        Negation(LitOf(cut, u)) \in UpTo(cutPtr)
                 PROVE  Negation(LitOf(cut, u)) \in UpTo(k)
      BY <1>4
    <3>1. PICK i \in Falsified : trail[i] = Negation(LitOf(cut, u))
      BY <1>1, FalsifiedFacts
    <3>2. i \in 1 .. k
      BY <1>3 DEF Falsified
    <3> QED BY <3>1, <3>2 DEF UpTo
  <2>3. NotContradicted(cut, UpTo(k)) = NotContradicted(cut, UpTo(cutPtr))
    BY <2>1, <2>2, SameShares
  <2> QED BY <1>5, <2>3 DEF CutHolds
<1>8. PICK p : p = RoundToOne(cut, v, m)
  OBVIOUS
<1>9. /\ CutHolds(p, UpTo(k)) /\ Abs(p.weights[v]) = 1 /\ LitOf(p, v) = Negation(t)
      /\ Remaining(p, v, UpTo(k)) < p.card
  <2>1. Negation(LitOf(cut, v)) \in UpTo(k)
    BY <1>6
  <2> QED BY <1>4, <1>6, <1>7, <1>8, <2>1, RoundedHolds
<1>10. CutHolds(cut', UpTo(k))
  <2>1. CASE reason[v] = Nil
    <3>1. cut' = p
      BY <1>0, <1>1, <1>8, <2>1 DEF WalkDown
    <3> QED BY <1>9, <3>1
  <2>2. CASE reason[v] # Nil
    <3>0. PICK r, q, q2 : r = reason[v] /\ q = PbSet(r) /\ q2 = RoundToOne(q, v, m)
      OBVIOUS
    <3>1. cut' = Clash(p, q2)
      BY <1>0, <1>1, <1>8, <2>2, <3>0 DEF WalkDown
    <3>2. r \in ClauseIds /\ ImpliedBy(r, t, FalseBefore(k))
      BY <1>0, <1>5, <1>6, <2>2, <3>0 DEF ReasonsHold, PBTypeOK
    <3>3. /\ ConstraintOK(r)
          /\ \A a \in Solutions : a \in Assignments /\ Enough(Made(a), r)
      BY <1>5, <3>2, ConstraintsOK
    <3>4. \A i \in 1 .. k - 1 : /\ trail[i] \in UpTo(k) /\ trail[i] \in Lits
                                /\ VarOf(trail[i]) # v
      <4>1. \A i \in 1 .. k - 1 : i \in 1 .. cutPtr /\ i \in 1 .. k
        BY <1>3, <1>5
      <4> QED BY <1>0, <1>4, <1>5, <4>1 DEF UpTo
    <3>5. PICK F : F = FalseBefore(k)
      OBVIOUS
    <3>6. /\ F \subseteq Lits /\ v \notin VarsOf(F)
          /\ \A l \in F : Negation(l) \in UpTo(k)
      BY <3>4, <3>5, LitFacts DEF FalseBefore, VarsOf
    <3>7. \A l \in F : Negation(l) \notin F
      <4> SUFFICES ASSUME NEW l \in F, Negation(l) \in F PROVE FALSE
        OBVIOUS
      <4>1. l \in Lits /\ Negation(l) \in UpTo(k) /\ Negation(Negation(l)) \in UpTo(k)
        BY <3>6
      <4> QED BY <1>4, <4>1 DEF Consistent
    <3>8. /\ Untangled(r) /\ q \in Cuts /\ q.weights[v] # 0 /\ LitOf(q, v) = t
          /\ Remaining(q, v, UpTo(k)) < q.card
      <4>1. \A l \in Lits : l \in F => Negation(l) \in UpTo(k)
        BY <3>6
      <4>2. v = VarOf(t) /\ VarOf(t) \notin VarsOf(F) /\ ImpliedBy(r, t, F)
        BY <1>0, <3>2, <3>5, <3>6
      <4>3. /\ Untangled(r) /\ PbSet(r) \in Cuts
            /\ PbSet(r).weights[VarOf(t)] # 0 /\ LitOf(PbSet(r), VarOf(t)) = t
            /\ Remaining(PbSet(r), VarOf(t), UpTo(k)) < PbSet(r).card
        BY <1>6, <3>3, <3>6, <3>7, <4>1, <4>2, PbSetImplies
      <4> QED BY <3>0, <4>2, <4>3
    <3>9. \A a \in Solutions : a \in Assignments /\ MeetsCut(a, q)
      BY <3>0, <3>3, <3>8, PbSetHolds
    <3>10. /\ q2 \in Cuts /\ Abs(q2.weights[v]) = 1
           /\ Remaining(q2, v, UpTo(k)) < q2.card
           /\ q2.weights[v] # 0 => (q2.weights[v] < 0 <=> q.weights[v] < 0)
           /\ \A a \in Assignments : MeetsCut(a, q) => MeetsCut(a, q2)
      BY <1>4, <1>6, <3>0, <3>8, RoundToOneFacts
    <3>11. q2.weights[v] = -p.weights[v]
      <4>1. q2.weights[v] \in Int /\ p.weights[v] \in Int
        BY <1>6, <1>9, <3>10 DEF Cuts, CutHolds
      <4>2. q2.weights[v] # 0
        BY <3>10 DEF Abs
      <4>3. LitOf(q2, v) = t
        BY <3>8, <3>10, <4>2 DEF LitOf
      <4>4. (q2.weights[v] < 0) # (p.weights[v] < 0)
        BY <1>6, <1>9, <4>3, LitFacts DEF LitOf
      <4> QED BY <1>9, <3>10, <4>1, <4>4 DEF Abs
    <3>12. UpTo(k) \in SUBSET Lits /\ p \in Cuts
      BY <1>4, <1>9 DEF Consistent, CutHolds
    <3>13. /\ cut' \in Cuts
           /\ NotContradicted(cut', UpTo(k)) < cut'.card
           /\ \A a \in Assignments : MeetsCut(a, p) /\ MeetsCut(a, q2) => MeetsCut(a, cut')
      BY <1>4, <1>6, <1>9, <3>1, <3>10, <3>11, <3>12, ClashFacts
    <3>14. \A a \in Solutions : MeetsCut(a, cut')
      BY <1>9, <3>9, <3>10, <3>13 DEF CutHolds
    <3> QED BY <3>13, <3>14 DEF CutHolds
  <2> QED BY <2>1, <2>2
<1>11. BindingsOK'
  <2>1. KeepsAll
    BY <1>2, <1>5, SameDatabase
  <2>2. PassedBy(k, passed, model') /\ cutPtr' = k
    BY <1>0, <1>1 DEF WalkDown, PassedBy
  <2> QED BY <1>0, <1>1, <1>3, <2>1, <2>2, PassingBinds
<1>12. lvl' \in Nat
  <2>1. PICK D : D \subseteq Vars /\ lvl' = LowerLvl(Cardinality(D))
    <3>1. passed \subseteq Vars
      <4>1. \A i \in k + 1 .. cutPtr : i \in 1 .. cutPtr
        BY <1>3, <1>5
      <4> QED BY <1>0, <1>5, <4>1
    <3>2. lvl' = LowerLvl(Cardinality({u \in passed \union {v} : reason[u] = Nil}))
      BY <1>0, <1>1 DEF WalkDown
    <3> QED BY <1>6, <3>1, <3>2
  <2>2. Cardinality(D) \in Nat
    BY <2>1, VarsFinite
  <2>3. lvl \in Nat
    BY <1>5 DEF PBTypeOK
  <2> QED BY <2>1, <2>2, <2>3 DEF LowerLvl
<1>13. /\ model' = m /\ cutPtr' = k /\ k \in Nat /\ lit' \in {NoLit} \union Lits
  BY <1>0, <1>1, <1>3, <1>5 DEF WalkDown, PBTypeOK
<1>14. NotContradicted(cut', {trail[i] : i \in 1 .. cutPtr'}) < cut'.card
  BY <1>10, <1>13 DEF CutHolds, UpTo
<1>15. cut' \in Cuts /\ \A a \in Solutions : MeetsCut(a, cut')
  BY <1>10 DEF CutHolds
<1> QED BY <1>1, <1>2, <1>4, <1>11, <1>12, <1>13, <1>14, <1>15, CutGoesOn

\* The level to go back to is below that of the literal, and above those of the
\* others of lower levels.
LEMMA BacktrackFacts ==
    ASSUME model \in [Vars -> Int], NEW p, NEW v \in Vars, NEW n \in Nat, n > 1, Level(v) = n,
           \A u \in Vars : Level(u) <= n
    PROVE  /\ BacktrackLevel(p, v) \in Nat /\ 1 <= BacktrackLevel(p, v) /\ BacktrackLevel(p, v) < n
           /\ \A u \in Vars \ {v} :
                p.weights[u] # 0 /\ Level(u) # n => Level(u) <= BacktrackLevel(p, v)
<1> DEFINE U == {w \in Vars \ {v} : p.weights[w] # 0 /\ Level(w) # Level(v)}
           T == {1} \union {Level(u) : u \in U}
<1>1. \A u \in Vars : Level(u) \in Nat
  BY LevelFacts
<1>2. \A x \in T : x \in 0 .. n - 1
  <2> SUFFICES ASSUME NEW x \in T PROVE x \in 0 .. n - 1
    OBVIOUS
  <2>1. CASE x = 1
    BY <2>1
  <2>2. CASE \E u \in U : x = Level(u)
    <3>1. PICK u \in U : x = Level(u)
      BY <2>2
    <3>2. u \in Vars /\ Level(u) # n /\ Level(u) <= n /\ Level(u) \in Nat
      BY <1>1, <3>1
    <3> QED BY <3>1, <3>2
  <2> QED BY <2>1, <2>2
<1>3. T \subseteq 0 .. n - 1 /\ T # {} /\ n - 1 \in Nat
  <2>1. 1 \in T
    OBVIOUS
  <2> HIDE DEF T
  <2> QED BY <1>2, <2>1
<1>4. Max(T) \in T /\ \A x \in T : x <= Max(T)
  <2> HIDE DEF T
  <2> QED BY <1>3, MaxOfNats
<1>5. BacktrackLevel(p, v) = Max(T)
  BY DEF BacktrackLevel
<1>6. Max(T) \in 0 .. n - 1 /\ 1 <= Max(T)
  <2>1. 1 \in T
    OBVIOUS
  <2> HIDE DEF T
  <2> QED BY <1>3, <1>4, <2>1
<1>7. ASSUME NEW u \in Vars \ {v}, p.weights[u] # 0, Level(u) # n
      PROVE  Level(u) <= Max(T)
  <2>1. u \in U
    BY <1>7
  <2>2. Level(u) \in T
    BY <2>1
  <2> HIDE DEF T
  <2> QED BY <1>4, <2>2
<1> HIDE DEF T
<1> QED BY <1>5, <1>6, <1>7

\* One literal of the last level of the trail is false in the cut.
LEMMA OnlyOneFacts ==
    ASSUME LiveInv, pc = "cut", Solutions # {}, OnlyFalsified, NEW l \in LastFalsified
    PROVE  /\ l \in Lits /\ VarOf(l) \in Vars /\ l \in UpTo(cutPtr)
           /\ cut.weights[VarOf(l)] # 0 /\ Negation(LitOf(cut, VarOf(l))) = l
           /\ Negation(l) = LitOf(cut, VarOf(l))
           /\ lvl \in Nat /\ lvl > 1 /\ Level(VarOf(l)) = lvl /\ \A u \in Vars : Level(u) <= lvl
           /\ cutPtr > 0 /\ Level(VarOf(trail[cutPtr])) = lvl
           /\ \A i \in Falsified : Level(VarOf(trail[i])) = lvl => trail[i] = l
<1>1. /\ Bound(cutPtr) /\ PBTypeOK /\ TrailBound(cutPtr) /\ cutPtr \in Nat /\ lvl \in Nat
      /\ \A i \in 1 .. cutPtr : trail[i] \in Lits /\ VarOf(trail[i]) \in Vars
      /\ \A v \in Vars : Level(v) \in Nat /\ (Level(v) = 0 <=> model[v] = 0)
      /\ \A i, j \in 1 .. cutPtr : i <= j => Level(VarOf(trail[i])) <= Level(VarOf(trail[j]))
  BY CutFacts DEF Bound, PBTypeOK
<1>2. PICK j \in 1 .. cutPtr : /\ l = trail[j] /\ Falsifies(cut, trail[j])
                               /\ \A k \in j .. cutPtr : Level(VarOf(trail[k])) = lvl
  BY DEF LastFalsified
<1>3. j \in Falsified /\ FalsifiedAt(j)
  BY <1>2, FalsifiedFacts DEF Falsified
<1>4. cutPtr \in j .. cutPtr /\ j \in j .. cutPtr /\ cutPtr \in 1 .. cutPtr /\ cutPtr > 0
  BY <1>1
<1>5. Level(VarOf(trail[cutPtr])) = lvl /\ Level(VarOf(l)) = lvl
  BY <1>2, <1>4
<1>6. \A u \in Vars : Level(u) <= lvl
  <2> SUFFICES ASSUME NEW u \in Vars, model[u] # 0 PROVE Level(u) <= lvl
    BY <1>1
  <2>1. PICK i \in 1 .. cutPtr : VarOf(trail[i]) = u
    BY <1>1 DEF TrailBound
  <2>2. i <= cutPtr
    BY <1>1
  <2> QED BY <1>1, <1>4, <1>5, <2>1, <2>2
<1>7. lvl > 1
  <2>1. PICK i \in Falsified : Level(VarOf(trail[i])) > 1
    BY FalsifiedAbove
  <2>2. VarOf(trail[i]) \in Vars
    BY <1>1, <2>1 DEF Falsified
  <2>3. Level(VarOf(trail[i])) <= lvl /\ Level(VarOf(trail[i])) \in Nat
    BY <1>1, <1>6, <2>2
  <2> QED BY <1>1, <2>1, <2>3
<1>8. ASSUME NEW i \in Falsified, Level(VarOf(trail[i])) = lvl PROVE trail[i] = l
  <2>1. i \in 1 .. cutPtr /\ Falsifies(cut, trail[i])
    BY DEF Falsified
  <2>2. \A k \in i .. cutPtr : Level(VarOf(trail[k])) = lvl
    <3> SUFFICES ASSUME NEW k \in i .. cutPtr PROVE Level(VarOf(trail[k])) = lvl
      OBVIOUS
    <3>1. k \in 1 .. cutPtr /\ i <= k
      BY <1>1, <2>1
    <3>2. Level(VarOf(trail[i])) <= Level(VarOf(trail[k])) /\ VarOf(trail[k]) \in Vars
      BY <1>1, <2>1, <3>1
    <3>3. Level(VarOf(trail[k])) <= lvl /\ Level(VarOf(trail[k])) \in Nat
      BY <1>1, <1>6, <3>2
    <3> QED BY <1>1, <1>8, <3>2, <3>3
  <2>3. trail[i] \in LastFalsified
    BY <2>1, <2>2 DEF LastFalsified
  <2>4. Cardinality(LastFalsified) = 1
    BY DEF OnlyFalsified
  <2>5. LastFalsified \in Clauses
    <3>1. \A k \in LastFalsified : k \in Lits
      BY <1>1 DEF LastFalsified
    <3> QED BY <3>1 DEF Clauses
  <2>6. IsFiniteSet(LastFalsified)
    BY <2>5, ClausesFinite
  <2>7. PICK k : LastFalsified = {k}
    BY <2>4, <2>6, FS_Singleton
  <2> QED BY <2>3, <2>7
<1>9. /\ l \in Lits /\ VarOf(l) \in Vars /\ l \in UpTo(cutPtr)
      /\ cut.weights[VarOf(l)] # 0 /\ Negation(LitOf(cut, VarOf(l))) = l
      /\ Negation(l) = LitOf(cut, VarOf(l))
  BY <1>1, <1>2, <1>3 DEF FalsifiedAt, UpTo
<1> QED BY <1>1, <1>4, <1>5, <1>6, <1>7, <1>8, <1>9

LEMMA CutRoundLive ==
    ASSUME LiveInv, CutRound, Solutions # {}
    PROVE  LiveInv'
<1>0. PICK l \in LastFalsified : /\ lit' = Negation(l) /\ lvl' = BacktrackLevel(cut, VarOf(l))
                                 /\ cut' = RoundToOne(cut, VarOf(l), model)
  BY DEF CutRound
<1>1. PICK v, n, q : v = VarOf(l) /\ n = cutPtr /\ q = RoundToOne(cut, v, model)
  OBVIOUS
<1>2. /\ pc = "cut" /\ OnlyFalsified /\ pc' = "learned" /\ cutPtr' = n
      /\ UNCHANGED <<model, trail, reason, polarity, queue, clauses, watched, wlistBin, wlist, pbs,
                     wlistPb, visiting, pos, ptr, todoBin, todo, pending, problem>>
      /\ UNCHANGED <<met, metLvl, lits, nbLvl, walk, assumptions>>
  BY <1>1 DEF CutRound, bindingVars, SearchKeeps, BindKeeps, dbVars, learnVars, pbVars
<1>3. /\ l \in Lits /\ v \in Vars /\ l \in UpTo(n)
      /\ cut.weights[v] # 0 /\ Negation(LitOf(cut, v)) = l /\ Negation(l) = LitOf(cut, v)
      /\ lvl \in Nat /\ lvl > 1 /\ Level(v) = lvl /\ \A u \in Vars : Level(u) <= lvl
      /\ n > 0 /\ Level(VarOf(trail[n])) = lvl
      /\ \A i \in Falsified : Level(VarOf(trail[i])) = lvl => trail[i] = l
  BY <1>1, <1>2, OnlyOneFacts
<1>4. /\ PBTypeOK /\ Bound(n) /\ TrailBound(n) /\ ReasonsBound(n) /\ DatabaseOK /\ CutHolds(cut, UpTo(n))
      /\ model \in [Vars -> Int] /\ n \in 0 .. Len(trail) /\ Len(trail) \in Nat /\ n \in Nat
      /\ FactsFollow /\ ReasonsHold
  BY <1>1, <1>2, CutFacts DEF Bound
<1>5. /\ KeepsAll /\ DatabaseOK' /\ Solutions' = Solutions /\ ClauseIds' = ClauseIds
  BY <1>2, <1>4, SameDatabase
<1>6. /\ CutHolds(q, UpTo(n)) /\ Abs(q.weights[v]) = 1 /\ LitOf(q, v) = LitOf(cut, v)
      /\ q.weights[v] # 0
      /\ \A u \in Vars : q.weights[u] # 0 => cut.weights[u] # 0 /\ LitOf(q, u) = LitOf(cut, u)
  <2>1. MadeTrue(model, UpTo(n))
    BY <1>4, UpToFacts
  <2>2. Negation(LitOf(cut, v)) \in UpTo(n)
    BY <1>3
  <2> QED BY <1>1, <1>3, <1>4, <2>1, <2>2, RoundedHolds
<1>7. PICK b : b = BacktrackLevel(cut, v)
  OBVIOUS
<1>8. /\ b \in Nat /\ 1 <= b /\ b < lvl
      /\ \A u \in Vars \ {v} : cut.weights[u] # 0 /\ Level(u) # lvl => Level(u) <= b
  BY <1>3, <1>4, <1>7, BacktrackFacts
<1>9. lit' \in Lits /\ lit' = LitOf(q, v) /\ VarOf(lit') = v /\ lvl' = b /\ cut' = q
  BY <1>0, <1>1, <1>3, <1>6, <1>7, LitFacts
<1>10. /\ \A u \in Vars : Level(u)' = Level(u)
       /\ \A k \in Lits : IsFalse(k)' <=> IsFalse(k)
  BY <1>2 DEF Level, IsFalse, LitStatus
<1>11. BindingsOK'
  <2>1. /\ TrailBound(n)' /\ FactsFollow' /\ ReasonsHold'
    BY <1>2, <1>4, <1>5, BoundKept
  <2>2. ReasonsBound(n)'
    BY <1>2, <1>4 DEF ReasonsBound
  <2>3. n \in 0 .. Len(trail')
    BY <1>2, <1>4
  <2> QED BY <1>2, <2>1, <2>2, <2>3 DEF BindingsOK
<1>12. PBTypeOK'
  <2>1. cut' \in [weights : [Vars -> Int], card : Int]
    BY <1>6, <1>9 DEF Cuts, CutHolds
  <2> QED BY <1>2, <1>4, <1>5, <1>8, <1>9, <2>1 DEF PBTypeOK, Watchers
<1>13. PBListsInv' /\ PBVisitInv' /\ PBLearnInv' /\ PBLevelsInv'
  BY <1>2, SameLists DEF LiveInv, PBVisitInv, PBLearnInv, PBLevelsInv
<1>14. PBUnifyInv'
  BY <1>2, <1>5 DEF LiveInv, PBUnifyInv, Follows
<1>15. CutInv'
  <2>1. \A a \in Solutions' : MeetsCut(a, cut')
    BY <1>5, <1>6, <1>9 DEF CutHolds
  <2>2. NotContradicted(cut', {trail'[i] : i \in 1 .. cutPtr'}) < cut'.card
    BY <1>2, <1>6, <1>9 DEF CutHolds, UpTo
  <2>3. lit' \in Lits /\ lit' = LitOf(cut', VarOf(lit')) /\ Abs(cut'.weights[VarOf(lit')]) = 1
    BY <1>6, <1>9
  <2>4. IsFalse(lit)'
    <3>1. IsFalse(LitOf(cut, v))
      BY <1>3, <1>4, BoundFacts, LitFacts
    <3>2. lit' = LitOf(cut, v)
      BY <1>6, <1>9
    <3>3. PICK k : k = LitOf(cut, v)
      OBVIOUS
    <3>4. IsFalse(k)' /\ k = lit'
      BY <1>9, <1>10, <3>1, <3>2, <3>3
    <3> QED BY <3>4
  <2>5. /\ cutPtr' > 0 /\ 1 <= lvl'
    BY <1>2, <1>3, <1>8, <1>9
  <2>6. lvl' < Level(VarOf(trail[cutPtr]))'
    <3>1. PICK w : w = VarOf(trail[n])
      OBVIOUS
    <3>2. w \in Vars
      <4>1. n \in 1 .. n
        BY <1>3, <1>4
      <4> QED BY <1>1, <1>2, <3>1, <4>1, CutFacts
    <3>3. Level(w)' = lvl /\ w = VarOf(trail'[cutPtr'])
      BY <1>2, <1>3, <1>10, <3>1, <3>2
    <3> QED BY <1>8, <1>9, <3>3
  <2>7. Level(VarOf(lit))' > lvl'
    <3>1. Level(v)' = lvl
      BY <1>3, <1>10
    <3> QED BY <1>3, <1>8, <1>9, <3>1
  <2>8. \A u \in Vars \ {v} : q.weights[u] # 0 /\ IsFalse(LitOf(q, u)) => Level(u) <= b
    <3> SUFFICES ASSUME NEW u \in Vars \ {v}, q.weights[u] # 0, IsFalse(LitOf(q, u))
                 PROVE  Level(u) <= b
      OBVIOUS
    <3>1. cut.weights[u] # 0 /\ LitOf(q, u) = LitOf(cut, u)
      BY <1>6
    <3>2. LitOf(cut, u) \in Lits /\ VarOf(LitOf(cut, u)) = u
      BY <1>4, ShareFacts DEF CutHolds
    <3>3. Negation(LitOf(cut, u)) \in UpTo(n)
      BY <1>4, <3>1, <3>2, BoundFacts
    <3>4. PICK i \in Falsified : VarOf(trail[i]) = u
      BY <1>1, <1>2, <3>1, <3>3, FalsifiedFacts
    <3>5. Level(u) # lvl
      BY <1>1, <1>3, <3>4
    <3> QED BY <1>8, <3>1, <3>5
  <2>9. \A u \in Vars \ {VarOf(lit')} :
            cut'.weights[u] # 0 /\ IsFalse(LitOf(cut, u))' => Level(u)' <= lvl'
    <3> SUFFICES ASSUME NEW u \in Vars \ {v}, q.weights[u] # 0, IsFalse(LitOf(cut, u))'
                 PROVE  Level(u)' <= b
      BY <1>9
    <3>1. PICK k : k = LitOf(q, u)
      OBVIOUS
    <3>2. k \in Lits
      BY <1>6, <3>1, ShareFacts DEF CutHolds
    <3>3. k = LitOf(cut', u)
      BY <1>9, <3>1
    <3>4. IsFalse(k)'
      BY <3>3
    <3>5. IsFalse(k)
      BY <1>10, <3>2, <3>4
    <3>6. Level(u) <= b
      BY <2>8, <3>1, <3>5
    <3> QED BY <1>10, <3>6
  <2> QED BY <2>1, <2>2, <2>3, <2>4, <2>5, <2>6, <2>7, <2>9 DEF CutInv
<1> QED BY <1>5, <1>11, <1>12, <1>13, <1>14, <1>15 DEF LiveInv

\* A constraint is put in the lists of literals it has, negated.
LEMMA ConstraintListed ==
    ASSUME PBTypeOK, PBListsInv, NEW b, WellMade(b), b.lits # <<>>, NEW c, c = Len(clauses) + 1,
           clauses' = Append(clauses, Range(b.lits)), Range(b.lits) \in Clauses,
           watched' = Append(watched, <<Head(b.lits), Last(b.lits)>>),
           DOMAIN pbs' = DOMAIN pbs \union {c}, Watched(b) \subseteq DOMAIN b.lits,
           wlistPb' = WatchConstraint(wlistPb, c, b), UNCHANGED <<wlist, wlistBin>>
    PROVE  /\ PBListsInv'
           /\ watched' \in Seq(Lits \X Lits) /\ Len(watched') = Len(clauses')
           /\ wlistBin' \in [Lits -> SUBSET Watchers'] /\ wlist' \in [Lits -> SUBSET Watchers']
           /\ wlistPb' \in [Lits -> Seq(DOMAIN pbs')]
<1>0. PICK C : C = Range(b.lits)
  OBVIOUS
<1>1. /\ clauses' \in Seq(Clauses) /\ Len(clauses') = c /\ clauses'[c] = C
      /\ ClauseIds' = ClauseIds \union {c} /\ c \notin ClauseIds /\ c \in Nat \ {0}
      /\ Watchers \subseteq Watchers'
      /\ \A d \in ClauseIds : clauses'[d] = clauses[d]
  BY <1>0, NewIndex
<1>2. /\ b.lits \in Seq(Lits) /\ DOMAIN b.lits = 1 .. Len(b.lits) /\ Len(b.lits) \in Nat
      /\ \A i \in DOMAIN b.lits : b.lits[i] \in Lits /\ b.lits[i] \in C
  BY <1>0, WellMadeFacts DEF Range
<1>3. Head(b.lits) \in Lits /\ Last(b.lits) \in Lits
  <2>1. Len(b.lits) > 0 /\ 1 \in DOMAIN b.lits /\ Len(b.lits) \in DOMAIN b.lits
    BY <1>2
  <2>2. Head(b.lits) = b.lits[1] /\ Last(b.lits) = b.lits[Len(b.lits)]
    BY <1>2 DEF Last
  <2> QED BY <1>2, <2>1, <2>2
<1>4. /\ clauses \in Seq(Clauses) /\ Len(clauses) \in Nat /\ ClauseIds = 1 .. Len(clauses)
      /\ watched \in Seq(Lits \X Lits) /\ Len(watched) = Len(clauses)
      /\ wlistBin \in [Lits -> SUBSET Watchers] /\ wlist \in [Lits -> SUBSET Watchers]
      /\ DOMAIN pbs \subseteq ClauseIds /\ wlistPb \in [Lits -> Seq(DOMAIN pbs)]
  <2>1. /\ clauses \in Seq(Clauses) /\ watched \in Seq(Lits \X Lits) /\ Len(watched) = Len(clauses)
        /\ wlistBin \in [Lits -> SUBSET Watchers] /\ wlist \in [Lits -> SUBSET Watchers]
        /\ DOMAIN pbs \subseteq ClauseIds /\ wlistPb \in [Lits -> Seq(DOMAIN pbs)]
    BY DEF PBTypeOK
  <2>2. Len(clauses) \in Nat /\ ClauseIds = 1 .. Len(clauses)
    BY <2>1 DEF ClauseIds
  <2> QED BY <2>1, <2>2
<1>5. /\ watched' \in Seq(Lits \X Lits) /\ Len(watched') = c
      /\ \A d \in ClauseIds : watched'[d] = watched[d]
  BY <1>3, <1>4
<1>6. \A l \in Lits : /\ wlistPb'[l] \in Seq(DOMAIN pbs')
                      /\ \A d \in Range(wlistPb'[l]) :
                            \/ d \in Range(wlistPb[l])
                            \/ d = c /\ \E i \in Watched(b) : b.lits[i] = Negation(l)
  <2> SUFFICES ASSUME NEW l \in Lits
               PROVE  /\ wlistPb'[l] \in Seq(DOMAIN pbs')
                      /\ \A d \in Range(wlistPb'[l]) :
                            \/ d \in Range(wlistPb[l])
                            \/ d = c /\ \E i \in Watched(b) : b.lits[i] = Negation(l)
    OBVIOUS
  <2>0. PICK D : D = DOMAIN pbs'
    OBVIOUS
  <2>1. wlistPb[l] \in Seq(D) /\ c \in D
    BY <1>4, <2>0
  <2>2. Append(wlistPb[l], c) \in Seq(D) /\ Range(Append(wlistPb[l], c)) \subseteq Range(wlistPb[l]) \union {c}
    BY <2>1, AppendRange
  <2>3. CASE \E i \in Watched(b) : b.lits[i] = Negation(l)
    <3>1. wlistPb'[l] = Append(wlistPb[l], c)
      BY <2>3 DEF WatchConstraint
    <3> QED BY <2>0, <2>2, <2>3, <3>1
  <2>4. CASE ~ \E i \in Watched(b) : b.lits[i] = Negation(l)
    <3>1. wlistPb'[l] = wlistPb[l]
      BY <2>4 DEF WatchConstraint
    <3> QED BY <2>0, <2>1, <3>1
  <2> QED BY <2>3, <2>4
<1>7. wlistPb' \in [Lits -> Seq(DOMAIN pbs')]
  <2>1. wlistPb' = [l \in Lits |-> wlistPb'[l]]
    BY DEF WatchConstraint
  <2> QED BY <1>6, <2>1
<1>8. PBListsInv'
  <2>1. ASSUME NEW d \in ClauseIds' \ DOMAIN pbs'
        PROVE  /\ watched'[d][1] \in clauses'[d] /\ watched'[d][2] \in clauses'[d]
               /\ watched'[d][1] # watched'[d][2]
    <3>1. d \in ClauseIds \ DOMAIN pbs
      BY <1>1
    <3> QED BY <1>1, <1>5, <3>1 DEF PBListsInv
  <2>2. ASSUME NEW l \in Lits, NEW w \in wlistBin'[l]
        PROVE  w[1] \notin DOMAIN pbs' /\ clauses'[w[1]] = {Negation(l), w[2]}
    <3>1. w \in wlistBin[l] /\ w[1] \in ClauseIds
      BY <1>4 DEF Watchers
    <3> QED BY <1>1, <3>1 DEF PBListsInv
  <2>3. ASSUME NEW l \in Lits, NEW w \in wlist'[l]
        PROVE  /\ w[1] \notin DOMAIN pbs'
               /\ Negation(l) \in {watched'[w[1]][1], watched'[w[1]][2]}
               /\ \A x \in wlist'[l] : x[1] = w[1] => x = w
    <3>1. w \in wlist[l] /\ w[1] \in ClauseIds
      BY <1>4 DEF Watchers
    <3> QED BY <1>1, <1>5, <3>1 DEF PBListsInv
  <2>4. ASSUME NEW l \in Lits, NEW d \in Range(wlistPb'[l])
        PROVE  Negation(l) \in clauses'[d]
    <3>1. CASE d \in Range(wlistPb[l])
      <4>1. d \in DOMAIN pbs
        BY <1>4, <3>1 DEF Range
      <4> QED BY <1>1, <1>4, <3>1, <4>1 DEF PBListsInv
    <3>2. CASE d = c /\ \E i \in Watched(b) : b.lits[i] = Negation(l)
      BY <1>1, <1>2, <3>2
    <3> QED BY <1>6, <2>4, <3>1, <3>2
  <2> QED BY <2>1, <2>2, <2>3, <2>4 DEF PBListsInv
<1>9. wlistBin' \in [Lits -> SUBSET Watchers'] /\ wlist' \in [Lits -> SUBSET Watchers']
  BY <1>1, <1>4
<1> QED BY <1>1, <1>5, <1>7, <1>8, <1>9

\* What SimplifiedFacts says of b, made from p.
SimplifiedHolds(p, b) ==
    /\ WellMade(b) /\ b.pb /\ b.card = p.card /\ b.lits # <<>>
    /\ Range(b.lits) = {LitOf(p, v) : v \in {u \in Vars : p.weights[u] # 0}}
    /\ \A a \in Assignments : MeetsCut(a, p) => Meets(a, b)
    /\ \A v \in Vars, S \in SUBSET Lits :
         Remaining(p, v, S) < p.card =>
            SumOf(b.weights, {i \in DOMAIN b.lits : /\ VarOf(b.lits[i]) # v
                                                    /\ Negation(b.lits[i]) \notin S}) < p.card

\* The constraint learned implies its literal at the level to go back to.
LEMMA LearnPBLive ==
    ASSUME LiveInv, pc = "learned", LearnPB, cut.card >= 1, Threshold(cut) >= 0
    PROVE  LiveInv'
<1>0. PICK c, b, v, u, n : /\ c = Len(clauses) + 1 /\ b = Simplified(cut)
                           /\ u = lit /\ v = VarOf(u) /\ n = cutPtr
  OBVIOUS
<1>1. /\ clauses' = Append(clauses, Range(b.lits))
      /\ watched' = Append(watched, <<Head(b.lits), Last(b.lits)>>)
      /\ pbs' = WithConstraint(c, b) /\ wlistPb' = WatchConstraint(wlistPb, c, b)
      /\ CleanupBindings(lvl)
      /\ reason' = [CleanReason(lvl) EXCEPT ![v] = c]
      /\ queue' = CleanQueue(lvl) /\ pc' = "unify" /\ ret' = "cut"
      /\ cut' = NoCut /\ cutPtr' = 0 /\ lit' = u
      /\ UNCHANGED <<wlist, wlistBin, ptr, todoBin, todo, lvl, met, metLvl, lits, nbLvl, walk,
                     assumptions, visiting, pos, pending, problem>>
  BY <1>0 DEF LearnPB, propVars, learnVars, pbCtlVars
<1>2. /\ u \in Lits /\ v \in Vars /\ u = LitOf(cut, v) /\ Abs(cut.weights[v]) = 1 /\ IsFalse(u)
      /\ 1 <= lvl /\ lvl < Level(VarOf(trail[n])) /\ Level(v) > lvl /\ n > 0
      /\ \A w \in Vars \ {v} : cut.weights[w] # 0 /\ IsFalse(LitOf(cut, w)) => Level(w) <= lvl
  <2>1. /\ u = LitOf(cut, v) /\ Abs(cut.weights[v]) = 1 /\ IsFalse(u)
        /\ 1 <= lvl /\ lvl < Level(VarOf(trail[n])) /\ Level(v) > lvl /\ n > 0
        /\ \A w \in Vars \ {v} : cut.weights[w] # 0 /\ IsFalse(LitOf(cut, w)) => Level(w) <= lvl
    BY <1>0 DEF LiveInv, CutInv
  <2>2. u \in Lits
    BY <1>0 DEF LiveInv, CutInv
  <2> QED BY <1>0, <2>1, <2>2, LitFacts
<1>3. /\ PBTypeOK /\ DatabaseOK /\ PBListsInv /\ Bound(n) /\ TrailBound(n) /\ ReasonsBound(n)
      /\ CutHolds(cut, UpTo(n)) /\ cut \in Cuts /\ cut.card \in Nat \ {0} /\ lvl \in Nat \ {0}
      /\ n \in 0 .. Len(trail) /\ Len(trail) \in Nat
  <2>1. /\ Bound(n) /\ ReasonsBound(n) /\ CutHolds(cut, UpTo(n))
        /\ n \in 0 .. Len(trail) /\ Len(trail) \in Nat
    BY <1>0, CutFacts
  <2>2. PBTypeOK /\ DatabaseOK /\ PBListsInv /\ TrailBound(n)
    BY <2>1 DEF LiveInv, Bound
  <2>3. cut \in Cuts /\ cut.card \in Int /\ lvl \in Nat
    BY <2>1, <2>2 DEF CutHolds, Cuts, PBTypeOK
  <2> QED BY <1>2, <2>1, <2>2, <2>3
<1>4. /\ WellMade(b) /\ b.pb /\ b.card = cut.card /\ b.lits # <<>>
      /\ Range(b.lits) = {LitOf(cut, w) : w \in {x \in Vars : cut.weights[x] # 0}}
      /\ \A a \in Assignments : MeetsCut(a, cut) => Meets(a, b)
      /\ \A w \in Vars, S \in SUBSET Lits :
           Remaining(cut, w, S) < cut.card =>
                SumOf(b.weights,
                    {i \in DOMAIN b.lits :
                        /\ VarOf(b.lits[i]) # w
                        /\ Negation(b.lits[i]) \notin S}) < cut.card
  <2>1. cut \in Cuts /\ cut.card \in Nat \ {0} /\ Threshold(cut) >= 0
    BY <1>3
  <2>2. b = Simplified(cut)
    BY <1>0
  <2>3. SimplifiedHolds(cut, Simplified(cut))
    BY <2>1, SimplifiedFacts DEF SimplifiedHolds
  <2> QED BY <2>1, <2>2, <2>3 DEF SimplifiedHolds
<1>5. Solutions' = Solutions /\ \A a \in Solutions' : Meets(a, b)
  <2>1. Solutions' = Solutions
    BY <1>1 DEF Solutions
  <2>2. \A a \in Solutions : a \in Assignments /\ MeetsCut(a, cut)
    BY <1>3 DEF Solutions, CutHolds
  <2> QED BY <1>4, <2>1, <2>2
<1>6. /\ KeepsAll /\ DatabaseOK' /\ Range(b.lits) \in Clauses
      /\ DOMAIN pbs' = DOMAIN pbs \union {c} /\ pbs'[c] = b
      /\ DOMAIN pbs' \subseteq ClauseIds' /\ pbs' \in [DOMAIN pbs' -> Constraints]
      /\ \A T : Enough(T, c)' <=>
            SumOf(b.weights, {i \in DOMAIN b.lits : b.lits[i] \in T}) >= b.card
  <2>1. Adds(b, c)
    BY <1>0, <1>1, <1>4, <1>5 DEF Adds
  <2>2. PBTypeOK /\ DatabaseOK
    BY <1>3
  <2> QED BY <2>1, <2>2, ConstraintAdded
<1>7. /\ clauses' \in Seq(Clauses) /\ Len(clauses') = c /\ clauses'[c] = Range(b.lits)
      /\ ClauseIds' = ClauseIds \union {c} /\ c \in Nat \ {0} /\ c # Nil
      /\ Watchers \subseteq Watchers'
  BY <1>0, <1>1, <1>3, <1>6, NewIndex
<1>8. /\ PBListsInv'
      /\ watched' \in Seq(Lits \X Lits) /\ Len(watched') = Len(clauses')
      /\ wlistBin' \in [Lits -> SUBSET Watchers'] /\ wlist' \in [Lits -> SUBSET Watchers']
      /\ wlistPb' \in [Lits -> Seq(DOMAIN pbs')]
  <2>1. Watched(b) \subseteq DOMAIN b.lits
    BY <1>4 DEF Watched
  <2> QED BY <1>0, <1>1, <1>3, <1>4, <1>6, <2>1, ConstraintListed
<1>9. /\ BindingsOK' /\ model' \in [Vars -> Int] /\ trail' \in Seq(Lits)
      /\ polarity' \in [Vars -> BOOLEAN] /\ CleanQueue(lvl) \subseteq Vars
      /\ c \in ClauseIds' /\ ClauseIds \subseteq ClauseIds' =>
            reason' \in [Vars -> {Nil} \union ClauseIds']
      /\ \A w \in Vars : Level(w)' <= lvl
      /\ model'[VarOf(u)] = 0 /\ reason'[VarOf(u)] = c
      /\ \A l \in Lits : IsFalse(l)' <=> IsFalse(l) /\ Level(VarOf(l)) <= lvl
  <2>1. n < Len(trail) => Level(VarOf(trail[n])) > lvl
    <3>1. Level(VarOf(trail[n])) \in Nat
      <4>1. n \in 1 .. n
        BY <1>2, <1>3
      <4>2. VarOf(trail[n]) \in Vars
        BY <1>0, <4>1, CutFacts
      <4> QED BY <4>2, CutFacts
    <3> QED BY <1>2, <1>3, <3>1
  <2>2. Level(VarOf(u)) > lvl /\ pc # "unify" /\ CleanupBindings(lvl) /\ pc' = "unify" /\ lit' = u
    BY <1>0, <1>1, <1>2
  <2>3. reason' = [CleanReason(lvl) EXCEPT ![VarOf(u)] = c]
    BY <1>0, <1>1
  <2> QED BY <1>2, <1>3, <1>6, <2>1, <2>2, <2>3, BackToLevel
<1>10. PBTypeOK'
  <2>1. lvl' \in Nat /\ lit' \in {NoLit} \union Lits /\ queue' \subseteq Vars
    BY <1>1, <1>2, <1>3, <1>9
  <2>2. reason' \in [Vars -> {Nil} \union ClauseIds']
    BY <1>7, <1>9
  <2>3. cut' \in [weights : [Vars -> Int], card : Int] /\ cutPtr' \in Nat
    BY <1>1 DEF NoCut
  <2>4. todoBin' \subseteq Watchers' /\ todo' \subseteq Watchers'
    BY <1>1, <1>3, <1>7 DEF PBTypeOK
  <2>5. visiting' \in Seq(DOMAIN pbs')
    <3>1. PICK D, E : D = DOMAIN pbs /\ E = DOMAIN pbs' /\ D \subseteq E
      BY <1>6
    <3>2. visiting \in Seq(D)
      BY <1>3, <3>1 DEF PBTypeOK
    <3>3. visiting \in Seq(E)
      BY <3>1, <3>2
    <3> QED BY <1>1, <3>1, <3>3
  <2> QED BY <1>1, <1>3, <1>6, <1>7, <1>8, <1>9, <2>1, <2>2, <2>3, <2>4, <2>5 DEF PBTypeOK
<1>11. PBVisitInv' /\ PBLearnInv' /\ CutInv'
  BY <1>1 DEF PBVisitInv, PBLearnInv, CutInv
<1>12. PBLevelsInv'
  BY <1>1, <1>2, <1>9 DEF PBLevelsInv
<1>13. PBUnifyInv'
  <2>1. u \in Range(b.lits)
    <3>1. cut.weights[v] # 0
      BY <1>2 DEF Abs
    <3> QED BY <1>2, <1>4, <3>1
  <2>2. PICK F : F = {l \in Lits : IsFalse(l)}'
    OBVIOUS
  <2>3. ~ Enough(Lits \ (F \union {u}), c)'
    <3> DEFINE I == {i \in DOMAIN b.lits : b.lits[i] \in Lits \ (F \union {u})}
               J == {i \in DOMAIN b.lits :
                        VarOf(b.lits[i]) # v /\ Negation(b.lits[i]) \notin UpTo(n)}
    <3>1. /\ b.card \in Nat \ {0} /\ IsFiniteSet(DOMAIN b.lits)
          /\ \A i \in DOMAIN b.lits : b.lits[i] \in Lits /\ b.weights[i] \in Nat \ {0}
      BY <1>4, WellMadeFacts
    <3>2. I \subseteq J
      <4> SUFFICES ASSUME NEW i \in DOMAIN b.lits, b.lits[i] \in Lits, b.lits[i] \notin F,
                          b.lits[i] # u
                   PROVE  VarOf(b.lits[i]) # v /\ Negation(b.lits[i]) \notin UpTo(n)
        OBVIOUS
      <4>1. b.lits[i] \in Range(b.lits)
        BY DEF Range
      <4>2. PICK w \in Vars : cut.weights[w] # 0 /\ b.lits[i] = LitOf(cut, w)
        BY <1>4, <4>1
      <4>3. VarOf(b.lits[i]) = w
        BY <1>3, <4>2, ShareFacts
      <4>4. w # v
        BY <1>2, <4>2
      <4>5. ASSUME Negation(b.lits[i]) \in UpTo(n) PROVE FALSE
        <5>1. IsFalse(b.lits[i])
          BY <1>3, <4>5, BoundFacts
        <5>2. Level(VarOf(b.lits[i])) <= lvl
          BY <1>2, <4>2, <4>3, <4>4, <5>1
        <5>3. PICK l : l = b.lits[i]
          OBVIOUS
        <5>4. IsFalse(l)' /\ l \in Lits
          BY <1>9, <5>1, <5>2, <5>3
        <5> QED BY <2>2, <5>3, <5>4
      <4> QED BY <4>3, <4>4, <4>5
    <3>3. SumOf(b.weights, J) < cut.card
      <4>1. Remaining(cut, v, UpTo(n)) < cut.card
        <5>1. /\ Remaining(cut, v, UpTo(n)) \in Nat /\ Share(cut, UpTo(n))[v] \in Nat
              /\ NotContradicted(cut, UpTo(n)) = Remaining(cut, v, UpTo(n)) + Share(cut, UpTo(n))[v]
          BY <1>2, <1>3, RemainingFacts, ShareFacts
        <5> QED BY <1>3, <5>1 DEF CutHolds
      <4>2. UpTo(n) \in SUBSET Lits
        BY <1>3, UpToFacts
      <4> QED BY <1>2, <1>4, <4>1, <4>2
    <3>4. /\ SumOf(b.weights, I) \in Nat /\ SumOf(b.weights, J \ I) \in Nat
          /\ SumOf(b.weights, J) = SumOf(b.weights, I) + SumOf(b.weights, J \ I)
      <4>1. J \subseteq DOMAIN b.lits
        OBVIOUS
      <4>2. IsFiniteSet(J) /\ \A i \in J : b.weights[i] \in Nat
        BY <3>1, <4>1, FS_Subset
      <4> HIDE DEF I, J
      <4> QED BY <3>2, <4>2, SumSubset
    <3>5. SumOf(b.weights, I) < b.card
      <4> HIDE DEF I, J
      <4> QED BY <1>3, <1>4, <3>3, <3>4
    <3>6. Enough(Lits \ (F \union {u}), c)' <=> SumOf(b.weights, I) >= b.card
      BY <1>6
    <3> HIDE DEF I, J
    <3> QED BY <1>3, <1>4, <3>4, <3>5, <3>6
  <2>4. ImpliedBy(c, u, F)'
    BY <1>7, <2>1, <2>3 DEF ImpliedBy
  <2>5. ImpliedBy(c, u, {l \in Lits : IsFalse(l)})'
    BY <2>2, <2>4
  <2>6. \A k \in DOMAIN pending' : Follows(pending[k])'
    BY <1>1, <1>5 DEF LiveInv, PBUnifyInv, Follows
  <2> QED BY <1>1, <1>2, <1>7, <1>9, <2>5, <2>6 DEF PBUnifyInv
<1> QED BY <1>6, <1>8, <1>9, <1>10, <1>11, <1>12, <1>13 DEF LiveInv

\* The units learned are to be bound.
LEMMA LearnUnitsLive ==
    ASSUME LiveInv, pc = "learned", NEW s \in Seq(Lits), s # <<>>, LearnUnits(s), SearchKeeps,
           \A k \in DOMAIN s : Follows(s[k])
    PROVE  LiveInv'
<1>0. PICK n : n = cutPtr
  OBVIOUS
<1>1. /\ pc' = "bind" /\ pending' = s /\ cut' = NoCut /\ cutPtr' = 0
      /\ UNCHANGED <<model, trail, reason, polarity, queue, clauses, watched, wlistBin, wlist, pbs,
                     wlistPb, visiting, pos, ptr, todoBin, todo, lit, lvl, problem>>
      /\ UNCHANGED <<met, metLvl, lits, nbLvl, walk, assumptions>>
  BY DEF LearnUnits, bindingVars, SearchKeeps, BindKeeps, dbVars, learnVars, pbVars
<1>2. /\ PBTypeOK /\ Bound(n) /\ TrailBound(n) /\ ReasonsBound(n) /\ DatabaseOK
      /\ n \in 0 .. Len(trail)
  BY <1>0, CutFacts DEF Bound
<1>3. /\ KeepsAll /\ DatabaseOK' /\ Solutions' = Solutions /\ ClauseIds' = ClauseIds
  BY <1>1, <1>2, SameDatabase
<1>4. BindingsOK'
  <2>1. TrailBound(n)' /\ FactsFollow' /\ ReasonsHold'
    BY <1>1, <1>2, <1>3, BoundKept
  <2>2. ReasonsBound(n)'
    BY <1>1, <1>2 DEF ReasonsBound
  <2>3. n \in 0 .. Len(trail')
    BY <1>1, <1>2
  <2> QED BY <1>1, <2>1, <2>2, <2>3 DEF BindingsOK
<1>5. PBTypeOK'
  <2>1. cut' \in [weights : [Vars -> Int], card : Int] /\ cutPtr' \in Nat
    BY <1>1 DEF NoCut
  <2> QED BY <1>1, <1>2, <1>3, <2>1 DEF PBTypeOK, Watchers
<1>6. PBListsInv' /\ PBVisitInv' /\ PBLearnInv' /\ PBLevelsInv' /\ CutInv'
  BY <1>1, SameLists DEF LiveInv, PBVisitInv, PBLearnInv, PBLevelsInv, CutInv
<1>7. PBUnifyInv'
  BY <1>1, <1>3 DEF PBUnifyInv, Follows
<1> QED BY <1>3, <1>4, <1>5, <1>6, <1>7 DEF LiveInv

\* Above level 1 the literal is implied; at level 1 it follows, since the other
\* false literals of the constraint are refuted by the facts.
LEMMA AssertedFollows ==
    ASSUME LiveInv, pc = "learned", lvl = 1
    PROVE  lit \in Lits /\ Follows(lit)
<1>1. PICK v, n : v = VarOf(lit) /\ n = cutPtr
  OBVIOUS
<1>2. /\ lit \in Lits /\ lit = LitOf(cut, v) /\ v \in Vars
      /\ \A u \in Vars \ {v} : cut.weights[u] # 0 /\ IsFalse(LitOf(cut, u)) => Level(u) <= 1
  BY <1>1, LitFacts DEF LiveInv, CutInv
<1>3. /\ PBTypeOK /\ TrailBound(n) /\ FactsFollow /\ CutHolds(cut, UpTo(n))
      /\ cut \in Cuts /\ cut.card \in Int
  BY <1>1, CutFacts DEF Bound, CutHolds, Cuts
<1>4. SUFFICES ASSUME NEW a \in Solutions, ~ Holds(a, lit) PROVE FALSE
  BY <1>2 DEF Follows
<1>5. a \in Assignments /\ MeetsCut(a, cut)
  BY <1>3 DEF CutHolds, Solutions
<1>6. Share(cut, Made(a))[v] = 0
  <2>1. Negation(lit) \in Made(a)
    BY <1>2, <1>4, <1>5, HoldsNegation, LitFacts DEF Made
  <2> QED BY <1>2, <1>3, <2>1, ShareFacts
<1>7. \A u \in Vars \ {v} :
        cut.weights[u] # 0 /\ Negation(LitOf(cut, u)) \in UpTo(n) =>
            Negation(LitOf(cut, u)) \in Made(a)
  <2> SUFFICES ASSUME NEW u \in Vars \ {v}, cut.weights[u] # 0,
                      Negation(LitOf(cut, u)) \in UpTo(n)
               PROVE  Negation(LitOf(cut, u)) \in Made(a)
    OBVIOUS
  <2>1. LitOf(cut, u) \in Lits /\ VarOf(LitOf(cut, u)) = u
    BY <1>3, ShareFacts
  <2>2. IsFalse(LitOf(cut, u))
    BY <1>3, <2>1, BoundFacts
  <2>3. Level(VarOf(LitOf(cut, u))) <= 1
    BY <1>2, <2>1, <2>2
  <2>4. ~ Holds(a, LitOf(cut, u))
    BY <1>3, <2>1, <2>2, <2>3, FalseAtLevelOne
  <2> QED BY <1>5, <2>1, <2>4, HoldsNegation, LitFacts DEF Made
<1>8. Remaining(cut, v, Made(a)) <= Remaining(cut, v, UpTo(n))
  <2>1. Vars \ {v} \subseteq Vars
    OBVIOUS
  <2> QED BY <1>3, <1>7, <2>1, FewerShares DEF Remaining
<1>9. /\ Remaining(cut, v, Made(a)) \in Nat /\ Remaining(cut, v, UpTo(n)) \in Nat
      /\ NotContradicted(cut, Made(a)) = Remaining(cut, v, Made(a)) + Share(cut, Made(a))[v]
      /\ NotContradicted(cut, UpTo(n)) = Remaining(cut, v, UpTo(n)) + Share(cut, UpTo(n))[v]
      /\ Share(cut, UpTo(n))[v] \in Nat
  BY <1>2, <1>3, RemainingFacts, ShareFacts
<1>10. NotContradicted(cut, UpTo(n)) < cut.card /\ NotContradicted(cut, Made(a)) >= cut.card
  BY <1>3, <1>5 DEF CutHolds, MeetsCut, Made
<1> QED BY <1>3, <1>6, <1>8, <1>9, <1>10

LEMMA CutEndLive ==
    ASSUME LiveInv, CutEnd, pc' # "panic", status' # "Unsat"
    PROVE  LiveInv'
<1>1. pc = "learned"
  BY DEF CutEnd
<1>2. cut \in Cuts /\ cut.card >= 1 /\ \A a \in Solutions : a \in Assignments /\ MeetsCut(a, cut)
  <2>1. ~ (cut.card < 1)
    BY DEF CutEnd, Panic
  <2>2. CutHolds(cut, UpTo(cutPtr))
    BY <1>1, CutFacts
  <2> QED BY <2>1, <2>2 DEF CutHolds, Cuts, Solutions
<1>3. \/ Threshold(cut) >= 0 /\ Units(cut) # {} /\ LearnUnits(UnitLits(cut)) /\ SearchKeeps
      \/ lvl = 1 /\ LearnUnits(<<lit>>) /\ SearchKeeps
      \/ Threshold(cut) >= 0 /\ LearnPB
  <2>1. ~ (cut.card < 1)
    BY <1>2 DEF Cuts
  <2> QED BY <2>1 DEF CutEnd, AnswerUnsat
<1>4. CASE Threshold(cut) >= 0 /\ Units(cut) # {} /\ LearnUnits(UnitLits(cut)) /\ SearchKeeps
  <2>1. PICK s : s = UnitLits(cut)
    OBVIOUS
  <2>2. /\ s \in Seq(Lits) /\ s # <<>>
        /\ \A k \in DOMAIN s : \E u \in Units(cut) : s[k] = LitOf(cut, u)
    BY <1>2, <1>4, <2>1, UnitLitsFacts
  <2>3. \A k \in DOMAIN s : Follows(s[k])
    BY <1>2, <2>2, UnitsHold DEF Follows
  <2> QED BY <1>1, <1>4, <2>1, <2>2, <2>3, LearnUnitsLive
<1>5. CASE lvl = 1 /\ LearnUnits(<<lit>>) /\ SearchKeeps
  <2>1. PICK s : s = <<lit>>
    OBVIOUS
  <2>2. lit \in Lits /\ Follows(lit)
    BY <1>1, <1>5, AssertedFollows
  <2>3. s \in Seq(Lits) /\ s # <<>> /\ \A k \in DOMAIN s : Follows(s[k])
    BY <2>1, <2>2
  <2> QED BY <1>1, <1>5, <2>1, <2>3, LearnUnitsLive
<1>6. CASE Threshold(cut) >= 0 /\ LearnPB
  BY <1>1, <1>2, <1>6, LearnPBLive
<1> QED BY <1>3, <1>4, <1>5, <1>6

-----------------------------------------------------------------------------
(* AppendClause.                                                           *)

\* The rank of i from the end.
FromLast(H, i) == Cardinality({h \in H : h >= i})

LEMMA FromLastFacts ==
    ASSUME NEW n \in Nat, NEW H, H \subseteq 1 .. n
    PROVE  /\ \A i \in H : FromLast(H, i) \in 1 .. Cardinality(H)
           /\ \A i, j \in H : FromLast(H, i) = FromLast(H, j) => i = j
           /\ \A k \in 1 .. Cardinality(H) : \E i \in H : FromLast(H, i) = k
<1>1. /\ IsFiniteSet(H) /\ Cardinality(H) \in Nat
      /\ \A k \in 1 .. Cardinality(H) : Nth(H, k) \in H
      /\ \A k \in 1 .. Cardinality(H) : Cardinality({j \in H : j <= Nth(H, k)}) = k
      /\ \A i \in H : /\ Cardinality({j \in H : j <= i}) \in 1 .. Cardinality(H)
                      /\ Nth(H, Cardinality({j \in H : j <= i})) = i
  BY NthFacts
<1>2. ASSUME NEW i \in H
      PROVE  /\ FromLast(H, i) = Cardinality(H) + 1 - Cardinality({j \in H : j <= i})
             /\ FromLast(H, i) \in 1 .. Cardinality(H)
  <2> DEFINE A == {j \in H : j <= i}
             B == {j \in H : j >= i}
  <2>1. IsFiniteSet(A) /\ IsFiniteSet(B)
    BY <1>1, FS_Subset
  <2>2. A \union B = H /\ A \cap B = {i}
    <3>1. H \subseteq Int
      OBVIOUS
    <3>2. \A j \in H : (j <= i \/ j >= i) /\ (j <= i /\ j >= i <=> j = i)
      BY <3>1
    <3>3. A \union B = H
      BY <3>2
    <3>4. A \cap B = {i}
      BY <3>2
    <3> QED BY <3>3, <3>4
  <2>3. Cardinality({i}) = 1
    BY FS_Singleton
  <2>4. Cardinality(A) \in 1 .. Cardinality(H)
    BY <1>1
  <2>5. Cardinality(B) \in Nat
    BY <2>1, FS_CardinalityType
  <2>6. FromLast(H, i) = Cardinality(B)
    BY DEF FromLast
  <2> HIDE DEF A, B
  <2>7. Cardinality(H) = Cardinality(A) + Cardinality(B) - 1
    BY <2>1, <2>2, <2>3, FS_Union
  <2>8. FromLast(H, i) = Cardinality(H) + 1 - Cardinality(A) /\ FromLast(H, i) \in 1 .. Cardinality(H)
    BY <1>1, <2>4, <2>5, <2>6, <2>7
  <2> QED BY <2>8 DEF A
<1>3. ASSUME NEW i \in H, NEW j \in H, FromLast(H, i) = FromLast(H, j) PROVE i = j
  <2>1. Cardinality({x \in H : x <= i}) = Cardinality({x \in H : x <= j})
    BY <1>1, <1>2, <1>3
  <2> QED BY <1>1, <2>1
<1>4. ASSUME NEW k \in 1 .. Cardinality(H) PROVE \E i \in H : FromLast(H, i) = k
  <2>1. PICK k1 : k1 = Cardinality(H) + 1 - k /\ k1 \in 1 .. Cardinality(H)
    BY <1>1
  <2>2. PICK i \in H : Cardinality({j \in H : j <= i}) = k1
    BY <1>1, <2>1
  <2>3. FromLast(H, i) = Cardinality(H) + 1 - k1
    BY <1>2, <2>2
  <2>4. FromLast(H, i) = k
    BY <1>1, <2>1, <2>3
  <2> QED BY <2>4
<1> QED BY <1>2, <1>3, <1>4

\* Where the literals that removeLit keeps come from.
KeptFrom(I) ==
    [i \in 1 .. Cardinality(I) |->
        IF i \in I THEN i
        ELSE Nth({j \in I : j > Cardinality(I)},
                 Cardinality({h \in (1 .. Cardinality(I)) \ I : h >= i}))]

\* removeLit keeps each of these literals once, with its weight.
LEMMA KeptFromFacts ==
    ASSUME NEW n \in Nat, NEW I, I \subseteq 1 .. n
    PROVE  KeptFrom(I) \in Bijection(1 .. Cardinality(I), I) /\ Cardinality(I) \in Nat
<1> DEFINE m == Cardinality(I)
           H == (1 .. m) \ I
           L == {j \in I : j > m}
           S == I \cap 1 .. m
           f == KeptFrom(I)
<1>1. IsFiniteSet(I) /\ m \in Nat
  BY NthFacts
<1>2. Cardinality(H) = Cardinality(L) /\ H \subseteq 1 .. m /\ L \subseteq 1 .. n
  <2>1. IsFiniteSet(1 .. m) /\ Cardinality(1 .. m) = m
    BY <1>1, FS_Interval
  <2>2. IsFiniteSet(S) /\ IsFiniteSet(H) /\ IsFiniteSet(L)
    BY <1>1, <2>1, FS_Subset
  <2>3. S \union H = 1 .. m /\ S \cap H = {}
    OBVIOUS
  <2>4. S \union L = I /\ S \cap L = {}
    <3>1. \A j \in I : j \in 1 .. m <=> ~ (j > m)
      BY <1>1
    <3> QED BY <3>1
  <2>5. Cardinality({}) = 0
    BY FS_EmptySet
  <2>6. Cardinality(S) \in Nat /\ Cardinality(H) \in Nat /\ Cardinality(L) \in Nat
    BY <2>2, FS_CardinalityType
  <2> HIDE DEF S, H, L
  <2>7. m = Cardinality(S) + Cardinality(H)
    <3>1. Cardinality(S \union H) = Cardinality(S) + Cardinality(H) - Cardinality(S \cap H)
      BY <2>2, FS_Union
    <3>2. Cardinality(S \union H) = m
      BY <2>1, <2>3, Zenon
    <3>3. Cardinality(S \cap H) = 0
      BY <2>3, <2>5, Zenon
    <3> QED BY <2>6, <3>1, <3>2, <3>3
  <2>8. Cardinality(I) = Cardinality(S) + Cardinality(L)
    <3>1. Cardinality(S \union L) = Cardinality(S) + Cardinality(L) - Cardinality(S \cap L)
      BY <2>2, FS_Union
    <3>2. Cardinality(S \union L) = Cardinality(I)
      BY <2>4, Zenon
    <3>3. Cardinality(S \cap L) = 0
      BY <2>4, <2>5, Zenon
    <3> QED BY <2>6, <3>1, <3>2, <3>3
  <2>9. Cardinality(H) = Cardinality(L)
    BY <2>6, <2>7, <2>8
  <2> QED BY <2>9 DEF H, L
<1>3. /\ \A i \in H : FromLast(H, i) \in 1 .. Cardinality(L)
      /\ \A i, j \in H : FromLast(H, i) = FromLast(H, j) => i = j
      /\ \A k \in 1 .. Cardinality(L) : \E i \in H : FromLast(H, i) = k
  <2> HIDE DEF m, H, L
  <2> QED BY <1>1, <1>2, FromLastFacts
<1>4. /\ \A k \in 1 .. Cardinality(L) : Nth(L, k) \in L
      /\ \A j, k \in 1 .. Cardinality(L) : Nth(L, j) = Nth(L, k) => j = k
      /\ \A i \in L : \E k \in 1 .. Cardinality(L) : Nth(L, k) = i
  BY <1>2, NthFacts
<1>5. /\ DOMAIN f = 1 .. m
      /\ \A i \in 1 .. m : /\ i \in I => f[i] = i
                           /\ i \notin I => i \in H /\ f[i] = Nth(L, FromLast(H, i))
  BY DEF KeptFrom, FromLast
<1>6. \A i : i \in L <=> i \in I /\ i > m
  OBVIOUS
<1>7. f = [i \in 1 .. m |-> f[i]]
  BY DEF KeptFrom
<1> HIDE DEF f, L
<1>8. ASSUME NEW i \in 1 .. m PROVE f[i] \in I /\ (f[i] > m <=> i \notin I)
  <2>1. CASE i \in I
    BY <1>1, <1>5, <2>1
  <2>2. CASE i \notin I
    <3>1. i \in H /\ f[i] = Nth(L, FromLast(H, i))
      BY <1>5, <2>2
    <3>2. FromLast(H, i) \in 1 .. Cardinality(L)
      BY <1>3, <3>1
    <3>3. f[i] \in L
      BY <1>4, <3>1, <3>2
    <3> QED BY <1>6, <2>2, <3>3
  <2> QED BY <2>1, <2>2
<1>9. ASSUME NEW i \in 1 .. m, NEW j \in 1 .. m, f[i] = f[j] PROVE i = j
  <2>1. f[i] \in I /\ (f[i] > m <=> i \notin I) /\ (f[i] > m <=> j \notin I)
    BY <1>8, <1>9
  <2>2. CASE i \in I
    BY <1>5, <1>9, <2>1, <2>2
  <2>3. CASE i \notin I
    <3>1. i \in H /\ j \in H /\ Nth(L, FromLast(H, i)) = Nth(L, FromLast(H, j))
      BY <1>5, <1>9, <2>1, <2>3
    <3>2. FromLast(H, i) \in 1 .. Cardinality(L) /\ FromLast(H, j) \in 1 .. Cardinality(L)
      BY <1>3, <3>1
    <3>3. FromLast(H, i) = FromLast(H, j)
      BY <1>4, <3>1, <3>2
    <3> QED BY <1>3, <3>1, <3>3
  <2> QED BY <2>2, <2>3
<1>10. ASSUME NEW i \in I PROVE \E k \in 1 .. m : f[k] = i
  <2>1. CASE i \in L
    <3>1. PICK k \in 1 .. Cardinality(L) : Nth(L, k) = i
      BY <1>4, <2>1
    <3>2. PICK h \in H : FromLast(H, h) = k
      BY <1>3
    <3> QED BY <1>2, <1>5, <3>1, <3>2
  <2>2. CASE i \notin L
    <3>1. i \in 1 .. m
      BY <1>1, <1>6, <2>2
    <3> QED BY <1>5, <3>1
  <2> QED BY <2>1, <2>2
<1>11. f \in [1 .. m -> I]
  BY <1>7, <1>8
<1>12. f \in Bijection(1 .. m, I)
  BY <1>9, <1>10, <1>11 DEF Bijection, Injection, Surjection, IsInjective
<1> QED BY <1>1, <1>12 DEF f

\* What the literals T weigh among those of b at the positions I.
WeightOf(b, I, T) == SumOf(b.weights, {i \in I : b.lits[i] \in T})

\* The constraint that is left has the literals that were kept.
LEMMA KeptFacts ==
    ASSUME NEW b, WellMade(b), NEW I, I \subseteq DOMAIN b.lits, NEW rest, rest = Kept(b, I)
    PROVE  /\ rest.lits \in Seq(Lits) /\ rest.weights \in Seq(Nat \ {0})
           /\ Len(rest.lits) = Cardinality(I) /\ Len(rest.weights) = Cardinality(I)
           /\ Cardinality(I) \in Nat /\ DOMAIN rest.lits = 1 .. Cardinality(I)
           /\ \A i \in DOMAIN rest.lits :
                \E j \in I : rest.lits[i] = b.lits[j] /\ rest.weights[i] = b.weights[j]
           /\ \A i, j \in DOMAIN rest.lits : VarOf(rest.lits[i]) = VarOf(rest.lits[j]) => i = j
           /\ Range(rest.lits) = {b.lits[j] : j \in I}
           /\ \A T : WeightOf(rest, DOMAIN rest.lits, T) = WeightOf(b, I, T)
<1>1. PICK f, n : f = KeptFrom(I) /\ n = Cardinality(I)
  OBVIOUS
<1>2. /\ b.lits \in Seq(Lits) /\ b.weights \in Seq(Nat \ {0}) /\ DOMAIN b.weights = DOMAIN b.lits
      /\ DOMAIN b.lits = 1 .. Len(b.lits) /\ Len(b.lits) \in Nat
      /\ \A i \in DOMAIN b.lits : b.lits[i] \in Lits /\ b.weights[i] \in Nat \ {0}
      /\ \A i, j \in DOMAIN b.lits : VarOf(b.lits[i]) = VarOf(b.lits[j]) => i = j
  BY WellMadeFacts DEF WellMade
<1>3. f \in Bijection(1 .. n, I) /\ n \in Nat
  <2>1. I \subseteq 1 .. Len(b.lits)
    BY <1>2
  <2> QED BY <1>1, <1>2, <2>1, KeptFromFacts
<1>4. rest.lits = [i \in 1 .. n |-> b.lits[f[i]]] /\ rest.weights = [i \in 1 .. n |-> b.weights[f[i]]]
  BY <1>1 DEF Kept, KeptFrom
<1>5. /\ \A i \in 1 .. n : f[i] \in I
      /\ \A i, j \in 1 .. n : f[i] = f[j] => i = j
      /\ \A k \in I : \E i \in 1 .. n : f[i] = k
  BY <1>3 DEF Bijection, Injection, Surjection, IsInjective
<1>6. \A i \in 1 .. n : /\ rest.lits[i] = b.lits[f[i]] /\ rest.weights[i] = b.weights[f[i]]
                        /\ rest.lits[i] \in Lits /\ rest.weights[i] \in Nat \ {0}
  BY <1>2, <1>4, <1>5
<1>7. /\ rest.lits \in Seq(Lits) /\ Len(rest.lits) = n /\ DOMAIN rest.lits = 1 .. n
      /\ rest.weights \in Seq(Nat \ {0}) /\ Len(rest.weights) = n
  <2>1. rest.lits \in [1 .. n -> Lits] /\ rest.weights \in [1 .. n -> Nat \ {0}]
    BY <1>4, <1>6
  <2>2. rest.lits \in Seq(Lits) /\ Len(rest.lits) = n /\ DOMAIN rest.lits = 1 .. n
    BY <1>3, <2>1, FunctionIsSeq
  <2>3. rest.weights \in Seq(Nat \ {0}) /\ Len(rest.weights) = n
    BY <1>3, <2>1, FunctionIsSeq
  <2> QED BY <2>2, <2>3
<1>8. Range(rest.lits) = {b.lits[j] : j \in I}
  <2>1. Range(rest.lits) = {rest.lits[i] : i \in 1 .. n}
    BY <1>7 DEF Range
  <2> QED BY <1>5, <1>6, <2>1
<1>9. ASSUME NEW T
      PROVE  WeightOf(rest, DOMAIN rest.lits, T) = WeightOf(b, I, T)
  <2>1. PICK A, B, g : /\ A = {i \in 1 .. n : rest.lits[i] \in T}
                       /\ B = {j \in I : b.lits[j] \in T}
                       /\ g = [i \in A |-> f[i]]
    OBVIOUS
  <2>2. g \in Bijection(A, B)
    <3>1. \A i \in A : g[i] = f[i] /\ g[i] \in B /\ i \in 1 .. n
      BY <1>5, <1>6, <2>1
    <3>2. g \in [A -> B]
      BY <2>1, <3>1
    <3>3. \A i, j \in A : g[i] = g[j] => i = j
      BY <1>5, <3>1
    <3>4. \A k \in B : \E i \in A : g[i] = k
      <4> SUFFICES ASSUME NEW k \in B PROVE \E i \in A : g[i] = k
        OBVIOUS
      <4>1. k \in I /\ b.lits[k] \in T
        BY <2>1
      <4>2. PICK i \in 1 .. n : f[i] = k
        BY <1>5, <4>1
      <4>3. i \in A
        BY <1>6, <2>1, <4>1, <4>2
      <4> QED BY <3>1, <4>2, <4>3
    <3> QED BY <3>2, <3>3, <3>4 DEF Bijection, Injection, Surjection, IsInjective
  <2>3. IsFiniteSet(A)
    <3>1. IsFiniteSet(1 .. n) /\ A \subseteq 1 .. n
      BY <1>3, <2>1, FS_Interval
    <3> QED BY <3>1, FS_Subset
  <2>4. \A i \in A : rest.weights[i] \in Nat /\ b.weights[g[i]] = rest.weights[i]
    BY <1>6, <2>1
  <2>5. SumOf(b.weights, B) = SumOf(rest.weights, A)
    BY <2>2, <2>3, <2>4, SumImage
  <2> QED BY <1>7, <2>1, <2>5 DEF WeightOf
<1>10. \A i \in DOMAIN rest.lits :
         \E j \in I : rest.lits[i] = b.lits[j] /\ rest.weights[i] = b.weights[j]
  BY <1>5, <1>6, <1>7, SMTT(20)
<1>11. ASSUME NEW i \in DOMAIN rest.lits, NEW j \in DOMAIN rest.lits,
              VarOf(rest.lits[i]) = VarOf(rest.lits[j])
       PROVE  i = j
  <2>1. /\ i \in 1 .. n /\ j \in 1 .. n /\ f[i] \in DOMAIN b.lits /\ f[j] \in DOMAIN b.lits
        /\ rest.lits[i] = b.lits[f[i]] /\ rest.lits[j] = b.lits[f[j]]
    BY <1>5, <1>6, <1>7
  <2>2. f[i] = f[j]
    BY <1>2, <1>11, <2>1
  <2> QED BY <1>5, <2>1, <2>2
<1>12. n = Cardinality(I)
  BY <1>1
<1> QED BY <1>3, <1>7, <1>8, <1>9, <1>10, <1>11, <1>12

\* A client that adds to the problem leaves fewer solutions.
LEMMA FewerSolutions ==
    ASSUME DatabaseOK, UNCHANGED <<clauses, pbs>>, Solutions' \subseteq Solutions
    PROVE  KeepsAll /\ DatabaseOK' /\ ClauseIds' = ClauseIds
<1>1. /\ ClauseIds' = ClauseIds
      /\ \A c, T : Enough(T, c)' <=> Enough(T, c)
  BY DEF ClauseIds, Enough, Weight, Idx, LitAt
<1>2. KeepsAll
  BY <1>1 DEF KeepsAll
<1>3. DatabaseOK'
  BY <1>1 DEF DatabaseOK
<1> QED BY <1>1, <1>2, <1>3

\* AppendClause goes back to the facts; it may add to the clauses, or leave
\* literals to be bound.
LEMMA BackToClient ==
    ASSUME LiveInv, pc = "idle", pc' \in {"idle", "bind"}, KeepsAll, DatabaseOK', PBListsInv',
           CleanupBindings(1), reason' = CleanReason(1), queue' = CleanQueue(1),
           UNCHANGED <<visiting, pos, todoBin, todo, lvl, met, metLvl, lits, nbLvl, walk,
                       assumptions, ptr, lit, cut, cutPtr>>,
           clauses' \in Seq(Clauses), watched' \in Seq(Lits \X Lits), Len(watched') = Len(clauses'),
           wlistBin' \in [Lits -> SUBSET Watchers'], wlist' \in [Lits -> SUBSET Watchers'],
           DOMAIN pbs \subseteq DOMAIN pbs', DOMAIN pbs' \subseteq ClauseIds',
           pbs' \in [DOMAIN pbs' -> Constraints], wlistPb' \in [Lits -> Seq(DOMAIN pbs')],
           pending' \in Seq(Lits), \A k \in DOMAIN pending' : Follows(pending[k])',
           pc' = "bind" => pending' # <<>>
    PROVE  LiveInv'
<1>1. PBTypeOK /\ pc # "unify" /\ pc' \notin {"cut", "learned"}
  BY DEF LiveInv
<1>2. ClauseIds \subseteq ClauseIds' /\ Watchers \subseteq Watchers'
  <2>1. ClauseIds \subseteq ClauseIds'
    BY DEF KeepsAll
  <2> QED BY <2>1 DEF Watchers
<1>3. /\ BindingsOK' /\ model' \in [Vars -> Int] /\ trail' \in Seq(Lits)
      /\ reason' \in [Vars -> {Nil} \union ClauseIds] /\ polarity' \in [Vars -> BOOLEAN]
      /\ CleanQueue(1) \subseteq Vars
      /\ \A v \in Vars : Level(v)' <= 1
  BY <1>1, CutToTop
<1>4. PBTypeOK'
  <2>1. reason' \in [Vars -> {Nil} \union ClauseIds'] /\ queue' \subseteq Vars
    BY <1>2, <1>3
  <2>2. todoBin' \subseteq Watchers' /\ todo' \subseteq Watchers'
    BY <1>1, <1>2 DEF PBTypeOK
  <2>3. visiting' \in Seq(DOMAIN pbs')
    <3>1. PICK D, E : D = DOMAIN pbs /\ E = DOMAIN pbs' /\ D \subseteq E
      OBVIOUS
    <3>2. visiting \in Seq(D)
      BY <1>1, <3>1 DEF PBTypeOK
    <3>3. visiting \in Seq(E)
      BY <3>1, <3>2
    <3> QED BY <3>1, <3>3
  <2> QED BY <1>1, <1>3, <2>1, <2>2, <2>3 DEF PBTypeOK
<1>5. PBVisitInv' /\ PBLearnInv' /\ CutInv' /\ PBUnifyInv'
  BY DEF PBVisitInv, PBLearnInv, CutInv, PBUnifyInv
<1>6. PBLevelsInv'
  BY <1>3 DEF PBLevelsInv
<1> QED BY <1>3, <1>4, <1>5, <1>6 DEF LiveInv

\* What AppendPB makes of the positions of b: bound at level 1, true at level 1,
\* free.
TopBound(b) == {i \in DOMAIN b.lits : CleanModel(1)[VarOf(b.lits[i])] # 0}

TopTrue(b) ==
    {i \in TopBound(b) : (CleanModel(1)[VarOf(b.lits[i])] > 0) = IsPositive(b.lits[i])}

TopFree(b) == DOMAIN b.lits \ TopBound(b)

\* The constraints of the client are as the search wants them.
LEMMA GivenWellMade ==
    ASSUME NEW b, AsGiven(b)
    PROVE  /\ WellMade(b)
           /\ ~ b.pb => \A i \in DOMAIN b.lits : b.weights[i] = 1
<1>1. b \in Constraints /\ Len(b.weights) = Len(b.lits)
  BY DEF AsGiven
<1>2. /\ b.lits \in Seq(Lits) /\ b.weights \in Seq(Nat \ {0}) /\ Len(b.lits) \in Nat
      /\ DOMAIN b.lits = 1 .. Len(b.lits) /\ DOMAIN b.weights = DOMAIN b.lits
  BY <1>1 DEF Constraints
<1>3. ASSUME NEW i \in DOMAIN b.lits, NEW j \in DOMAIN b.lits, VarOf(b.lits[i]) = VarOf(b.lits[j])
      PROVE  i = j
  <2>1. i \in Nat /\ j \in Nat
    BY <1>2
  <2>2. ~ (i < j) /\ ~ (j < i)
    BY <1>3 DEF AsGiven
  <2> QED BY <2>1, <2>2
<1> QED BY <1>1, <1>2, <1>3 DEF WellMade, AsGiven

\* In every solution, the free literals reach what the true ones leave.
LEMMA AppendFacts ==
    ASSUME LiveInv, pc = "idle", NEW b, WellMade(b), problem' = problem \union {Given(b)},
           NEW minW, minW = SumOf(b.weights, TopTrue(b))
    PROVE  /\ Solutions' \subseteq Solutions /\ TopFree(b) \subseteq DOMAIN b.lits
           /\ minW \in Nat
           /\ SumOf(b.weights, TopFree(b)) \in Nat
           /\ SumOf(b.weights, TopTrue(b) \union TopFree(b)) = minW + SumOf(b.weights, TopFree(b))
           /\ \A a \in Solutions' : minW + WeightOf(b, TopFree(b), Made(a)) >= b.card
<1>1. PICK n : /\ n = Len(trail) /\ n \in Nat /\ Bound(n)
  BY BoundNow
<1>2. PBTypeOK /\ TrailBound(n) /\ FactsFollow
  BY <1>1 DEF Bound
<1>3. /\ CleanModel(1) = [v \in Vars |-> IF Level(v) > 1 THEN 0 ELSE model[v]]
  BY <1>1, <1>2, CutBackFacts
<1>4. /\ DOMAIN b.lits = 1 .. Len(b.lits) /\ IsFiniteSet(DOMAIN b.lits) /\ b.card \in Nat \ {0}
      /\ \A i \in DOMAIN b.lits : b.lits[i] \in Lits /\ b.weights[i] \in Nat \ {0}
  BY WellMadeFacts
<1>5. Solutions' \subseteq Solutions /\ \A a \in Solutions' : Meets(a, Given(b))
  BY DEF Solutions, Meets
<1>6. TopTrue(b) \subseteq TopBound(b) /\ TopBound(b) \subseteq DOMAIN b.lits
  BY DEF TopTrue, TopBound
<1>7. TopFree(b) \subseteq DOMAIN b.lits /\ TopFree(b) \cap TopBound(b) = {}
  BY DEF TopFree
<1>8. ASSUME NEW I \in SUBSET DOMAIN b.lits
      PROVE  /\ IsFiniteSet(I) /\ SumOf(b.weights, I) \in Nat
             /\ \A i \in I : b.weights[i] \in Nat
  <2>1. IsFiniteSet(I) /\ \A i \in I : b.weights[i] \in Nat
    BY <1>4, FS_Subset
  <2> QED BY <2>1, SumFinite
<1>9. SumOf(b.weights, TopTrue(b) \union TopFree(b)) = minW + SumOf(b.weights, TopFree(b))
  <2>1. TopTrue(b) \in SUBSET DOMAIN b.lits /\ TopFree(b) \in SUBSET DOMAIN b.lits
    BY <1>6, <1>7
  <2>2. TopTrue(b) \cap TopFree(b) = {}
    BY <1>6, <1>7
  <2>3. \A i \in TopTrue(b) \union TopFree(b) : b.weights[i] \in Nat
    BY <1>4, <2>1
  <2> QED BY <1>8, <2>1, <2>2, <2>3, SumUnion
<1>10. ASSUME NEW a \in Solutions'
       PROVE  minW + WeightOf(b, TopFree(b), Made(a)) >= b.card
  <2>1. PICK H, F, T : /\ H = {i \in DOMAIN b.lits : Holds(a, b.lits[i])}
                       /\ F = {i \in TopFree(b) : Holds(a, b.lits[i])}
                       /\ T = TopTrue(b)
    OBVIOUS
  <2>2. SumOf(b.weights, H) >= b.card
    <3>1. Meets(a, Given(b))
      BY <1>5
    <3> QED BY <2>1, <3>1 DEF Meets, Given
  <2>3. H \subseteq T \union F
    <3> SUFFICES ASSUME NEW i \in H, i \notin F PROVE i \in T
      OBVIOUS
    <3>1. i \in TopBound(b) /\ i \in DOMAIN b.lits /\ Holds(a, b.lits[i])
      BY <2>1 DEF TopFree
    <3>2. PICK l : l = b.lits[i] /\ l \in Lits /\ VarOf(l) \in Vars
      BY <1>4, <3>1, LitFacts
    <3>3. CleanModel(1)[VarOf(l)] # 0
      BY <3>1, <3>2 DEF TopBound
    <3>4. model[VarOf(l)] # 0 /\ ~ (Level(VarOf(l)) > 1) /\ CleanModel(1)[VarOf(l)] = model[VarOf(l)]
      BY <1>3, <3>2, <3>3
    <3>5. Level(VarOf(l)) <= 1
      BY <1>2, <3>2, <3>4, TrailType
    <3>6. ~ IsFalse(l)
      BY <1>2, <1>5, <3>1, <3>2, <3>5, FalseAtLevelOne
    <3>7. (model[VarOf(l)] > 0) = IsPositive(l)
      BY <3>4, <3>6 DEF IsFalse, LitStatus
    <3> QED BY <2>1, <3>1, <3>2, <3>4, <3>7 DEF TopTrue
  <2>4. T \in SUBSET DOMAIN b.lits /\ F \in SUBSET DOMAIN b.lits /\ T \cap F = {}
    BY <1>6, <1>7, <2>1
  <2>5. /\ SumOf(b.weights, T \union F) = SumOf(b.weights, T) + SumOf(b.weights, F)
        /\ SumOf(b.weights, T) \in Nat /\ SumOf(b.weights, F) \in Nat
        /\ T \union F \in SUBSET DOMAIN b.lits
    <3>1. \A i \in T \union F : b.weights[i] \in Nat
      BY <1>4, <2>4
    <3> QED BY <1>8, <2>4, <3>1, SumUnion
  <2>6. /\ SumOf(b.weights, H) \in Nat /\ SumOf(b.weights, T \union F) \in Nat
        /\ SumOf(b.weights, (T \union F) \ H) \in Nat
        /\ SumOf(b.weights, T \union F) = SumOf(b.weights, H) + SumOf(b.weights, (T \union F) \ H)
    <3>1. IsFiniteSet(T \union F) /\ \A i \in T \union F : b.weights[i] \in Nat
      BY <1>8, <2>5
    <3> QED BY <2>3, <3>1, SumSubset
  <2>7. SumOf(b.weights, T) + SumOf(b.weights, F) >= b.card
    BY <1>4, <2>2, <2>5, <2>6
  <2>8. F = {i \in TopFree(b) : b.lits[i] \in Made(a)}
    BY <1>4, <1>7, <2>1 DEF Made
  <2> QED BY <2>1, <2>7, <2>8 DEF WeightOf
<1>11. minW \in Nat /\ SumOf(b.weights, TopFree(b)) \in Nat
  BY <1>6, <1>7, <1>8
<1> QED BY <1>5, <1>7, <1>9, <1>10, <1>11

\* What stays of the calls that only go back to the facts.
AppendKeeps ==
    UNCHANGED <<visiting, pos, todoBin, todo, lvl, met, metLvl, lits, nbLvl, walk, assumptions,
                ptr, lit, cut, cutPtr>>

\* What is left of a constraint of the client, in the clauses of the solver.
Left(b, k, rest) ==
    /\ WellMade(b) /\ (~ b.pb => \A i \in DOMAIN b.lits : b.weights[i] = 1)
    /\ k \in Nat \ {0} /\ rest = Kept(b, TopFree(b))
    /\ TopFree(b) \subseteq DOMAIN b.lits /\ SumOf(b.weights, TopFree(b)) > k
    /\ Solutions' \subseteq Solutions
    /\ \A a \in Solutions' : WeightOf(b, TopFree(b), Made(a)) >= k

LEMMA LeftFacts ==
    ASSUME NEW b, NEW k, NEW rest, Left(b, k, rest)
    PROVE  /\ rest.lits \in Seq(Lits) /\ rest.weights \in Seq(Nat \ {0})
           /\ Len(rest.weights) = Len(rest.lits) /\ rest.lits # <<>>
           /\ DOMAIN rest.lits = 1 .. Len(rest.lits) /\ DOMAIN rest.weights = DOMAIN rest.lits
           /\ Len(rest.lits) \in Nat
           /\ \A i, j \in DOMAIN rest.lits : VarOf(rest.lits[i]) = VarOf(rest.lits[j]) => i = j
           /\ ~ b.pb => /\ k + 1 <= Len(rest.lits)
                        /\ \A i \in DOMAIN rest.lits : rest.weights[i] = 1
           /\ \A a \in Solutions' : WeightOf(rest, DOMAIN rest.lits, Made(a)) >= k
<1>1. PICK I : I = TopFree(b)
  OBVIOUS
<1>2. /\ WellMade(b) /\ (~ b.pb => \A i \in DOMAIN b.lits : b.weights[i] = 1)
      /\ k \in Nat \ {0} /\ rest = Kept(b, I) /\ I \subseteq DOMAIN b.lits
      /\ SumOf(b.weights, I) > k /\ Solutions' \subseteq Solutions
      /\ \A a \in Solutions' : WeightOf(b, I, Made(a)) >= k
  BY <1>1 DEF Left
<1>3. /\ rest.lits \in Seq(Lits) /\ rest.weights \in Seq(Nat \ {0})
      /\ Len(rest.lits) = Cardinality(I) /\ Len(rest.weights) = Cardinality(I)
      /\ Cardinality(I) \in Nat /\ DOMAIN rest.lits = 1 .. Cardinality(I)
      /\ \A i \in DOMAIN rest.lits :
            \E j \in I : rest.lits[i] = b.lits[j] /\ rest.weights[i] = b.weights[j]
      /\ \A i, j \in DOMAIN rest.lits : VarOf(rest.lits[i]) = VarOf(rest.lits[j]) => i = j
      /\ \A T : WeightOf(rest, DOMAIN rest.lits, T) = WeightOf(b, I, T)
  BY <1>2, KeptFacts
<1>4. /\ IsFiniteSet(I) /\ \A i \in I : b.lits[i] \in Lits /\ b.weights[i] \in Nat \ {0}
  <2>1. /\ IsFiniteSet(DOMAIN b.lits)
        /\ \A i \in DOMAIN b.lits : b.lits[i] \in Lits /\ b.weights[i] \in Nat \ {0}
    BY <1>2, WellMadeFacts
  <2> QED BY <1>2, <2>1, FS_Subset
<1>5. rest.lits # <<>>
  <2> SUFFICES ASSUME rest.lits = <<>> PROVE FALSE
    OBVIOUS
  <2>1. Cardinality(I) = 0
    BY <1>3
  <2>2. I = {}
    BY <1>4, <2>1, FS_EmptySet
  <2> QED BY <1>2, <2>2, SumEmpty
<1>6. ASSUME ~ b.pb
      PROVE  /\ k + 1 <= Len(rest.lits)
             /\ \A i \in DOMAIN rest.lits : rest.weights[i] = 1
  <2>1. \A i \in I : b.weights[i] = 1
    BY <1>2, <1>6
  <2>2. SumOf(b.weights, I) = Cardinality(I)
    BY <1>4, <2>1, SumOnes
  <2> QED BY <1>2, <1>3, <2>1, <2>2
<1>7. \A a \in Solutions' : WeightOf(rest, DOMAIN rest.lits, Made(a)) >= k
  BY <1>2, <1>3
<1>8. DOMAIN rest.weights = DOMAIN rest.lits
  BY <1>3
<1> QED BY <1>3, <1>5, <1>6, <1>7, <1>8

\* A clause or a constraint is added between two calls.
LEMMA AppendAdds ==
    ASSUME LiveInv, pc = "idle", pc' = "idle", KeepsAll, DatabaseOK', PBListsInv',
           CleanupBindings(1), reason' = CleanReason(1), queue' = CleanQueue(1), AppendKeeps,
           clauses' \in Seq(Clauses), watched' \in Seq(Lits \X Lits), Len(watched') = Len(clauses'),
           wlistBin' \in [Lits -> SUBSET Watchers'], wlist' \in [Lits -> SUBSET Watchers'],
           DOMAIN pbs \subseteq DOMAIN pbs', DOMAIN pbs' \subseteq ClauseIds',
           pbs' \in [DOMAIN pbs' -> Constraints], wlistPb' \in [Lits -> Seq(DOMAIN pbs')],
           pending' = pending
    PROVE  LiveInv'
<1>1. pending \in Seq(Lits) /\ \A k \in DOMAIN pending : Follows(pending[k])
  BY DEF LiveInv, PBTypeOK, PBUnifyInv
<1>2. Solutions' \subseteq Solutions
  BY DEF KeepsAll
<1>3. pending' \in Seq(Lits) /\ \A k \in DOMAIN pending' : Follows(pending[k])'
  BY <1>1, <1>2 DEF Follows
<1>4. UNCHANGED <<visiting, pos, todoBin, todo, lvl, met, metLvl, lits, nbLvl, walk,
                  assumptions, ptr, lit, cut, cutPtr>>
  BY DEF AppendKeeps
<1>5. pc' \in {"idle", "bind"} /\ (pc' = "bind" => pending' # <<>>)
  OBVIOUS
<1> QED BY <1>3, <1>4, <1>5, BackToClient

\* What is left is a clause: a cardinality of 1.
LEMMA AppendClauseLive ==
    ASSUME LiveInv, pc = "idle", pc' = "idle", NEW b, NEW rest, Left(b, 1, rest), ~ b.pb,
           AddClause(Range(rest.lits), rest.lits[1], rest.lits[2], 0),
           UNCHANGED <<pbs, wlistPb, pending>>,
           CleanupBindings(1), reason' = CleanReason(1), queue' = CleanQueue(1), AppendKeeps
    PROVE  LiveInv'
<1>1. PICK C, c : C = Range(rest.lits) /\ c = Len(clauses) + 1
  OBVIOUS
<1>2. /\ rest.lits \in Seq(Lits) /\ 2 <= Len(rest.lits) /\ Len(rest.lits) \in Nat
      /\ DOMAIN rest.lits = 1 .. Len(rest.lits)
      /\ \A i, j \in DOMAIN rest.lits : VarOf(rest.lits[i]) = VarOf(rest.lits[j]) => i = j
      /\ \A a \in Solutions' : WeightOf(rest, DOMAIN rest.lits, Made(a)) >= 1
  BY LeftFacts
<1>3. 1 \in DOMAIN rest.lits /\ 2 \in DOMAIN rest.lits
  BY <1>2
<1>4. /\ C \in Clauses /\ rest.lits[1] \in C /\ rest.lits[2] \in C /\ rest.lits[1] # rest.lits[2]
  BY <1>1, <1>2, <1>3 DEF Clauses, Range
<1>5. ASSUME NEW a \in Solutions' PROVE SatClause(a, C)
  <2>1. {i \in DOMAIN rest.lits : rest.lits[i] \in Made(a)} # {}
    <3>1. PICK I : I = {i \in DOMAIN rest.lits : rest.lits[i] \in Made(a)}
      OBVIOUS
    <3>2. SumOf(rest.weights, I) >= 1
      BY <1>2, <3>1 DEF WeightOf
    <3>3. SumOf(rest.weights, {}) = 0
      BY SumEmpty
    <3>4. I # {}
      BY <3>2, <3>3
    <3> QED BY <3>1, <3>4
  <2> QED BY <1>1, <2>1 DEF SatClause, Range, Made
<1>6. PBTypeOK /\ DatabaseOK /\ PBListsInv /\ Solutions' \subseteq Solutions
  BY DEF LiveInv, Left
<1>7. clauses' = Append(clauses, C)
  BY <1>1 DEF AddClause
<1>8. KeepsAll /\ DatabaseOK'
  <2>1. pbs' = pbs
    OBVIOUS
  <2> QED BY <1>1, <1>4, <1>5, <1>6, <1>7, <2>1, ClauseAdded
<1>9. /\ PBListsInv'
      /\ watched' \in Seq(Lits \X Lits) /\ Len(watched') = Len(clauses')
      /\ wlistBin' \in [Lits -> SUBSET Watchers'] /\ wlist' \in [Lits -> SUBSET Watchers']
  <2>1. PICK f, s : f = rest.lits[1] /\ s = rest.lits[2]
    OBVIOUS
  <2>2. AddClause(C, f, s, 0) /\ f \in C /\ s \in C /\ f # s /\ UNCHANGED <<pbs, wlistPb>>
    BY <1>1, <1>4, <2>1
  <2> QED BY <1>4, <1>6, <2>2, ClauseListed
<1>10. /\ clauses' \in Seq(Clauses) /\ ClauseIds \subseteq ClauseIds'
  BY <1>1, <1>4, <1>6, <1>7, NewIndex
<1>11. /\ DOMAIN pbs \subseteq DOMAIN pbs' /\ DOMAIN pbs' \subseteq ClauseIds'
       /\ pbs' \in [DOMAIN pbs' -> Constraints] /\ wlistPb' \in [Lits -> Seq(DOMAIN pbs')]
  BY <1>6, <1>10 DEF PBTypeOK
<1>12. pending' = pending
  OBVIOUS
<1> QED BY <1>8, <1>9, <1>10, <1>11, <1>12, AppendAdds

\* Or a constraint.
LEMMA AppendConstraintLive ==
    ASSUME LiveInv, pc = "idle", pc' = "idle", NEW b, NEW k, NEW rest, Left(b, k, rest),
           NEW new, new = NewConstraint(rest.lits, rest.weights, k, b.pb),
           NEW c, c = Len(clauses) + 1,
           clauses' = Append(clauses, Range(rest.lits)),
           watched' = Append(watched, <<Head(rest.lits), Last(rest.lits)>>),
           pbs' = WithConstraint(c, new), wlistPb' = WatchConstraint(wlistPb, c, new),
           UNCHANGED <<wlist, wlistBin, pending>>,
           CleanupBindings(1), reason' = CleanReason(1), queue' = CleanQueue(1), AppendKeeps
    PROVE  LiveInv'
<1>1. /\ new.lits = rest.lits /\ new.weights = rest.weights /\ new.card = k /\ new.pb = b.pb
      /\ new.watched = IF b.pb THEN [i \in DOMAIN rest.lits |-> i \in WatchedByPB(rest.weights, k)]
                       ELSE <<>>
      /\ new = [lits |-> new.lits, weights |-> new.weights, card |-> new.card, pb |-> new.pb,
                watched |-> new.watched]
  BY DEF NewConstraint, Constraint
<1>2. /\ rest.lits \in Seq(Lits) /\ rest.weights \in Seq(Nat \ {0})
      /\ Len(rest.weights) = Len(rest.lits) /\ rest.lits # <<>>
      /\ DOMAIN rest.lits = 1 .. Len(rest.lits) /\ DOMAIN rest.weights = DOMAIN rest.lits
      /\ Len(rest.lits) \in Nat
      /\ \A i, j \in DOMAIN rest.lits : VarOf(rest.lits[i]) = VarOf(rest.lits[j]) => i = j
      /\ ~ b.pb => k + 1 <= Len(rest.lits) /\ \A i \in DOMAIN rest.lits : rest.weights[i] = 1
      /\ \A a \in Solutions' : WeightOf(rest, DOMAIN rest.lits, Made(a)) >= k
  BY LeftFacts
<1>3. /\ k \in Nat \ {0} /\ b.pb \in BOOLEAN /\ Solutions' \subseteq Solutions
  <2>1. WellMade(b) /\ k \in Nat \ {0} /\ Solutions' \subseteq Solutions
    BY DEF Left
  <2> QED BY <2>1, WellMadeFacts
<1>4. new.watched \in Seq(BOOLEAN)
  <2>1. CASE b.pb
    <3>1. new.watched \in [1 .. Len(rest.lits) -> BOOLEAN]
      BY <1>1, <1>2, <2>1
    <3> QED BY <1>2, <3>1, FunctionIsSeq
  <2>2. CASE ~ b.pb
    BY <1>1, <2>2
  <2> QED BY <2>1, <2>2
<1>5. WellMade(new)
  <2>1. new \in Constraints
    BY <1>1, <1>2, <1>3, <1>4 DEF Constraints
  <2> QED BY <1>1, <1>2, <2>1 DEF WellMade
<1>6. Adds(new, c)
  <2>1. ASSUME NEW a \in Solutions' PROVE Meets(a, new)
    <3>1. {i \in DOMAIN rest.lits : Holds(a, rest.lits[i])} =
            {i \in DOMAIN rest.lits : rest.lits[i] \in Made(a)}
      BY <1>2 DEF Made
    <3> QED BY <1>1, <1>2, <3>1 DEF Meets, WeightOf
  <2>2. ~ new.pb => new.card + 1 <= Len(new.lits) /\ \A i \in DOMAIN new.weights : new.weights[i] = 1
    BY <1>1, <1>2
  <2>3. clauses' = Append(clauses, Range(new.lits))
    BY <1>1
  <2> QED BY <1>3, <1>5, <2>1, <2>2, <2>3 DEF Adds
<1>7. PBTypeOK /\ DatabaseOK /\ PBListsInv
  BY DEF LiveInv
<1>8. /\ KeepsAll /\ DatabaseOK' /\ Range(new.lits) \in Clauses
      /\ DOMAIN pbs' = DOMAIN pbs \union {c}
      /\ DOMAIN pbs' \subseteq ClauseIds' /\ pbs' \in [DOMAIN pbs' -> Constraints]
  BY <1>6, <1>7, ConstraintAdded
<1>9. /\ PBListsInv'
      /\ watched' \in Seq(Lits \X Lits) /\ Len(watched') = Len(clauses')
      /\ wlistBin' \in [Lits -> SUBSET Watchers'] /\ wlist' \in [Lits -> SUBSET Watchers']
      /\ wlistPb' \in [Lits -> Seq(DOMAIN pbs')]
  <2>1. Watched(new) \subseteq DOMAIN new.lits
    <3>1. new.card + 1 <= Len(new.lits) => 1 .. new.card + 1 \subseteq DOMAIN new.lits
      BY <1>1, <1>2, <1>3
    <3> QED BY <1>1, <1>2, <1>3, <3>1, SMTT(20) DEF Watched
  <2>2. new.lits # <<>> /\ clauses' = Append(clauses, Range(new.lits))
        /\ watched' = Append(watched, <<Head(new.lits), Last(new.lits)>>)
        /\ UNCHANGED <<wlist, wlistBin>>
    BY <1>1, <1>2
  <2> QED BY <1>5, <1>7, <1>8, <2>1, <2>2, ConstraintListed
<1>10. clauses' \in Seq(Clauses)
  BY <1>6, <1>7, <1>8, NewIndex DEF Adds
<1>11. DOMAIN pbs \subseteq DOMAIN pbs' /\ pending' = pending
  BY <1>8
<1> QED BY <1>8, <1>9, <1>10, <1>11, AppendAdds

\* All the free literals are needed: they follow, and are to be bound.
LEMMA AppendBindsLive ==
    ASSUME LiveInv, pc = "idle", pc' = "bind", NEW b, WellMade(b), NEW k \in Nat \ {0},
           NEW rest, rest = Kept(b, TopFree(b)), Solutions' \subseteq Solutions,
           SumOf(b.weights, TopFree(b)) = k,
           \A a \in Solutions' : WeightOf(b, TopFree(b), Made(a)) >= k,
           UNCHANGED <<clauses, watched, wlist, wlistBin, pbs, wlistPb>>, pending' = rest.lits,
           CleanupBindings(1), reason' = CleanReason(1), queue' = CleanQueue(1), AppendKeeps
    PROVE  LiveInv'
<1>1. PICK I : I = TopFree(b)
  OBVIOUS
<1>2. I \subseteq DOMAIN b.lits
  BY <1>1 DEF TopFree
<1>3. /\ rest.lits \in Seq(Lits) /\ Len(rest.lits) = Cardinality(I)
      /\ \A i \in DOMAIN rest.lits :
            \E j \in I : rest.lits[i] = b.lits[j] /\ rest.weights[i] = b.weights[j]
  BY <1>1, <1>2, KeptFacts
<1>4. /\ IsFiniteSet(I) /\ \A i \in I : b.lits[i] \in Lits /\ b.weights[i] \in Nat \ {0}
  <2>1. /\ IsFiniteSet(DOMAIN b.lits)
        /\ \A i \in DOMAIN b.lits : b.lits[i] \in Lits /\ b.weights[i] \in Nat \ {0}
    BY WellMadeFacts
  <2> QED BY <1>2, <2>1, FS_Subset
<1>5. rest.lits # <<>>
  <2> SUFFICES ASSUME rest.lits = <<>> PROVE FALSE
    OBVIOUS
  <2>1. Cardinality(I) = 0
    BY <1>3
  <2>2. I = {}
    BY <1>4, <2>1, FS_EmptySet
  <2> QED BY <1>1, <2>2, SumEmpty
<1>6. ASSUME NEW j \in I, NEW a \in Solutions' PROVE Holds(a, b.lits[j])
  <2> SUFFICES ASSUME ~ Holds(a, b.lits[j]) PROVE FALSE
    OBVIOUS
  <2>1. PICK H : H = {i \in I : b.lits[i] \in Made(a)}
    OBVIOUS
  <2>2. SumOf(b.weights, H) >= k /\ SumOf(b.weights, I) = k
    BY <1>1, <2>1 DEF WeightOf
  <2>3. H \subseteq I \ {j}
    BY <2>1 DEF Made
  <2>4. IsFiniteSet(I \ {j}) /\ \A i \in I : b.weights[i] \in Nat
    BY <1>4, FS_Subset
  <2>5. /\ SumOf(b.weights, H) \in Nat /\ SumOf(b.weights, (I \ {j}) \ H) \in Nat
        /\ SumOf(b.weights, I \ {j}) = SumOf(b.weights, H) + SumOf(b.weights, (I \ {j}) \ H)
    BY <2>3, <2>4, SumSubset
  <2>6. SumOf(b.weights, I) = b.weights[j] + SumOf(b.weights, I \ {j})
    BY <1>4, <2>4, SumTerm
  <2>7. b.weights[j] \in Nat \ {0}
    BY <1>4
  <2> QED BY <2>2, <2>5, <2>6, <2>7
<1>7. PBTypeOK /\ DatabaseOK /\ PBListsInv
  BY DEF LiveInv
<1>8. KeepsAll /\ DatabaseOK' /\ ClauseIds' = ClauseIds /\ PBListsInv'
  BY <1>7, FewerSolutions, SameLists
<1>9. pending' \in Seq(Lits) /\ \A i \in DOMAIN pending' : Follows(pending[i])'
  <2>1. \A i \in DOMAIN rest.lits, a \in Solutions' : Holds(a, rest.lits[i])
    BY <1>3, <1>6
  <2> QED BY <1>3, <2>1 DEF Follows
<1>10. /\ clauses' \in Seq(Clauses) /\ watched' \in Seq(Lits \X Lits) /\ Len(watched') = Len(clauses')
       /\ wlistBin' \in [Lits -> SUBSET Watchers'] /\ wlist' \in [Lits -> SUBSET Watchers']
       /\ DOMAIN pbs \subseteq DOMAIN pbs' /\ DOMAIN pbs' \subseteq ClauseIds'
       /\ pbs' \in [DOMAIN pbs' -> Constraints] /\ wlistPb' \in [Lits -> Seq(DOMAIN pbs')]
  BY <1>7, <1>8 DEF PBTypeOK, Watchers
<1>11. UNCHANGED <<visiting, pos, todoBin, todo, lvl, met, metLvl, lits, nbLvl, walk,
                   assumptions, ptr, lit, cut, cutPtr>>
  BY DEF AppendKeeps
<1>12. pc' \in {"idle", "bind"} /\ pending' # <<>>
  BY <1>5
<1> QED BY <1>8, <1>9, <1>10, <1>11, <1>12, BackToClient

\* Nothing is left to say, or the status is final: only the bindings change.
LEMMA AppendNothingLive ==
    ASSUME LiveInv, pc = "idle", pc' = "idle", Solutions' \subseteq Solutions,
           UNCHANGED <<clauses, watched, wlist, wlistBin, pbs, wlistPb, pending>>,
           CleanupBindings(1), reason' = CleanReason(1), queue' = CleanQueue(1), AppendKeeps
    PROVE  LiveInv'
<1>1. PBTypeOK /\ DatabaseOK /\ PBListsInv
  BY DEF LiveInv
<1>2. KeepsAll /\ DatabaseOK' /\ ClauseIds' = ClauseIds /\ PBListsInv'
  BY <1>1, FewerSolutions, SameLists
<1>3. /\ clauses' \in Seq(Clauses) /\ watched' \in Seq(Lits \X Lits) /\ Len(watched') = Len(clauses')
      /\ wlistBin' \in [Lits -> SUBSET Watchers'] /\ wlist' \in [Lits -> SUBSET Watchers']
      /\ DOMAIN pbs \subseteq DOMAIN pbs' /\ DOMAIN pbs' \subseteq ClauseIds'
      /\ pbs' \in [DOMAIN pbs' -> Constraints] /\ wlistPb' \in [Lits -> Seq(DOMAIN pbs')]
  BY <1>1, <1>2 DEF PBTypeOK, Watchers
<1>4. pending' = pending
  OBVIOUS
<1> QED BY <1>2, <1>3, <1>4, AppendAdds

\* AppendClause, whatever is left of the constraint.
LEMMA AppendPBLive ==
    ASSUME LiveInv, NEW b, AsGiven(b), AppendPB(b), status' # "Unsat"
    PROVE  LiveInv'
<1>1. PICK rest, minW, maxW :
        /\ rest = Kept(b, TopFree(b)) /\ minW = SumOf(b.weights, TopTrue(b))
        /\ maxW = SumOf(b.weights, TopTrue(b) \union TopFree(b))
  OBVIOUS
<1>2. /\ pc = "idle" /\ problem' = problem \union {Given(b)}
      /\ CleanupBindings(1) /\ reason' = CleanReason(1) /\ queue' = CleanQueue(1)
      /\ UNCHANGED <<propVars, lvl, learnVars, assumptions, lit, visiting, pos, cutVars>>
      /\ \/ /\ minW >= b.card
            /\ UNCHANGED <<clauses, watched, lbd, wlist, wlistBin, pbs, wlistPb, status, pc, ret, pending>>
         \/ /\ minW < b.card /\ maxW = b.card
            /\ pc' = "bind" /\ ret' = "append" /\ pending' = rest.lits
            /\ UNCHANGED <<clauses, watched, lbd, wlist, wlistBin, pbs, wlistPb, status>>
         \/ /\ minW < b.card /\ maxW > b.card
            /\ WatchAppended(b, rest, b.card - minW)
            /\ UNCHANGED <<status, pc, ret, pending>>
  BY <1>1 DEF AppendPB, TopTrue, TopFree, TopBound
<1>3. AppendKeeps
  BY <1>2 DEF AppendKeeps, propVars, learnVars, cutVars
<1>4. WellMade(b) /\ (~ b.pb => \A i \in DOMAIN b.lits : b.weights[i] = 1) /\ b.card \in Nat \ {0}
  BY GivenWellMade, WellMadeFacts
<1>5. /\ Solutions' \subseteq Solutions /\ TopFree(b) \subseteq DOMAIN b.lits
      /\ minW \in Nat /\ SumOf(b.weights, TopFree(b)) \in Nat
      /\ maxW = minW + SumOf(b.weights, TopFree(b))
      /\ \A a \in Solutions' : minW + WeightOf(b, TopFree(b), Made(a)) >= b.card
  <2>1. /\ Solutions' \subseteq Solutions /\ TopFree(b) \subseteq DOMAIN b.lits
        /\ minW \in Nat /\ SumOf(b.weights, TopFree(b)) \in Nat
        /\ SumOf(b.weights, TopTrue(b) \union TopFree(b)) = minW + SumOf(b.weights, TopFree(b))
        /\ \A a \in Solutions' : minW + WeightOf(b, TopFree(b), Made(a)) >= b.card
    BY <1>1, <1>2, <1>4, AppendFacts
  <2> QED BY <1>1, <2>1
<1>6. CASE minW >= b.card /\ UNCHANGED <<clauses, watched, wlist, wlistBin, pbs, wlistPb, pc, pending>>
  BY <1>2, <1>3, <1>5, <1>6, AppendNothingLive
<1>7. ASSUME minW < b.card
      PROVE  /\ b.card - minW \in Nat \ {0}
             /\ \A a \in Solutions' : WeightOf(b, TopFree(b), Made(a)) >= b.card - minW
  <2>1. b.card - minW \in Nat \ {0}
    BY <1>4, <1>5, <1>7
  <2>2. ASSUME NEW a \in Solutions' PROVE WeightOf(b, TopFree(b), Made(a)) >= b.card - minW
    <3>1. WeightOf(b, TopFree(b), Made(a)) \in Nat
      <4>1. PICK H : H = {i \in TopFree(b) : b.lits[i] \in Made(a)}
        OBVIOUS
      <4>2. H \subseteq DOMAIN b.lits
        BY <1>5, <4>1
      <4>3. IsFiniteSet(H) /\ \A i \in H : b.weights[i] \in Nat
        BY <1>4, <4>2, WellMadeFacts, FS_Subset
      <4> QED BY <4>1, <4>3, SumFinite DEF WeightOf
    <3>2. minW + WeightOf(b, TopFree(b), Made(a)) >= b.card
      BY <1>5
    <3> QED BY <1>4, <1>5, <3>1, <3>2
  <2> QED BY <2>1, <2>2
<1>8. CASE /\ minW < b.card /\ maxW = b.card /\ pc' = "bind" /\ pending' = rest.lits
           /\ UNCHANGED <<clauses, watched, wlist, wlistBin, pbs, wlistPb>>
  <2>1. PICK k : k = b.card - minW
    OBVIOUS
  <2>2. k \in Nat \ {0} /\ \A a \in Solutions' : WeightOf(b, TopFree(b), Made(a)) >= k
    BY <1>7, <1>8, <2>1
  <2>3. SumOf(b.weights, TopFree(b)) = k
    BY <1>4, <1>5, <1>8, <2>1
  <2> QED BY <1>1, <1>2, <1>3, <1>4, <1>5, <1>8, <2>2, <2>3, AppendBindsLive
<1>9. CASE /\ minW < b.card /\ maxW > b.card /\ WatchAppended(b, rest, b.card - minW)
           /\ UNCHANGED <<pc, pending>>
  <2>1. PICK k : k = b.card - minW
    OBVIOUS
  <2>2. k \in Nat \ {0} /\ \A a \in Solutions' : WeightOf(b, TopFree(b), Made(a)) >= k
    BY <1>7, <1>9, <2>1
  <2>3. SumOf(b.weights, TopFree(b)) > k
    BY <1>4, <1>5, <1>9, <2>1
  <2>4. Left(b, k, rest)
    BY <1>1, <1>4, <1>5, <2>2, <2>3 DEF Left
  <2>5. CASE b.pb \/ k > 1
    <3>1. PICK c, new : /\ c = Len(clauses) + 1
                        /\ new = NewConstraint(rest.lits, rest.weights, k, b.pb)
      OBVIOUS
    <3>2. /\ clauses' = Append(clauses, Range(rest.lits))
          /\ watched' = Append(watched, <<Head(rest.lits), Last(rest.lits)>>)
          /\ pbs' = WithConstraint(c, new) /\ wlistPb' = WatchConstraint(wlistPb, c, new)
          /\ UNCHANGED <<wlist, wlistBin, pending>>
      BY <1>9, <2>1, <2>5, <3>1 DEF WatchAppended
    <3>3. pc' = "idle"
      BY <1>2, <1>9
    <3> QED BY <1>2, <1>3, <2>4, <3>1, <3>2, <3>3, AppendConstraintLive
  <2>6. CASE ~ (b.pb \/ k > 1)
    <3>1. k = 1 /\ ~ b.pb
      BY <2>2, <2>6
    <3>2. /\ AddClause(Range(rest.lits), rest.lits[1], rest.lits[2], 0)
          /\ UNCHANGED <<pbs, wlistPb, pending>> /\ pc' = "idle"
      BY <1>2, <1>9, <2>1, <2>6 DEF WatchAppended
    <3>3. Left(b, 1, rest)
      BY <2>4, <3>1
    <3> QED BY <1>2, <1>3, <3>1, <3>2, <3>3, AppendClauseLive
  <2> QED BY <2>5, <2>6
<1> QED BY <1>2, <1>6, <1>8, <1>9

-----------------------------------------------------------------------------
(* The initial states.                                                     *)

\* The slices of the clauses and constraints of a problem.
Slices(pb) == pb.clauses \o [c \in DOMAIN pb.constraints |-> pb.constraints[c].lits]

\* A constraint of a problem, once it is simplified.
LEMMA ConstraintGiven ==
    ASSUME NEW pb \in PBProblems, NEW c \in DOMAIN pb.constraints, NEW b, b = pb.constraints[c]
    PROVE  /\ WellMade(b) /\ Len(b.lits) >= 2
           /\ ~ b.pb => b.card + 1 <= Len(b.lits) /\ \A i \in DOMAIN b.weights : b.weights[i] = 1
<1>1. /\ AsGiven(b) /\ b.lits # <<>>
      /\ \A i \in DOMAIN b.lits : SumOf(b.weights, DOMAIN b.lits \ {i}) >= b.card
  BY PBAssumption
<1>2. WellMade(b) /\ (~ b.pb => \A i \in DOMAIN b.lits : b.weights[i] = 1)
  BY <1>1, GivenWellMade
<1>3. /\ b.lits \in Seq(Lits) /\ b.card \in Nat \ {0} /\ DOMAIN b.weights = DOMAIN b.lits
      /\ DOMAIN b.lits = 1 .. Len(b.lits) /\ Len(b.lits) \in Nat /\ IsFiniteSet(DOMAIN b.lits)
  BY <1>2, WellMadeFacts
<1>4. 1 \in DOMAIN b.lits
  BY <1>1, <1>3
<1>5. PICK R : R = DOMAIN b.lits \ {1} /\ SumOf(b.weights, R) >= b.card
  BY <1>1, <1>4
<1>6. R # {}
  <2> SUFFICES ASSUME R = {} PROVE FALSE
    OBVIOUS
  <2>1. SumOf(b.weights, R) = 0
    BY SumEmpty
  <2>2. SumOf(b.weights, R) >= b.card /\ b.card \in Nat \ {0}
    BY <1>3, <1>5
  <2> HIDE DEF SumOf
  <2> QED BY <2>1, <2>2
<1>7. Len(b.lits) >= 2
  BY <1>3, <1>5, <1>6
<1>8. ASSUME ~ b.pb PROVE b.card + 1 <= Len(b.lits)
  <2>1. Cardinality(DOMAIN b.lits) = Len(b.lits)
    BY <1>3, FS_Interval
  <2>2. IsFiniteSet(R) /\ Cardinality(R) = Cardinality(DOMAIN b.lits) - 1
    BY <1>3, <1>4, <1>5, FS_RemoveElement
  <2>3. SumOf(b.weights, R) = Cardinality(R)
    BY <1>2, <1>5, <1>8, <2>2, SumOnes
  <2> QED BY <1>3, <1>5, <2>1, <2>2, <2>3
<1> QED BY <1>2, <1>3, <1>7, <1>8

Sliced(pb, s, n, m) ==
    /\ n \in Nat /\ m \in Nat /\ Len(s) = n + m /\ s \in Seq(Seq(Lits))
    /\ pb.units \in Seq(Lits)
    /\ \A c \in 1 .. n : s[c] = pb.clauses[c] /\ c \in DOMAIN pb.clauses
    /\ \A c \in n + 1 .. n + m : /\ s[c] = pb.constraints[c - n].lits
                                 /\ c - n \in DOMAIN pb.constraints
    /\ \A c \in 1 .. n + m :
        /\ s[c] \in Seq(Lits) /\ Len(s[c]) >= 2
        /\ \A i, j \in DOMAIN s[c] : VarOf(s[c][i]) = VarOf(s[c][j]) => i = j

\* All the slices have two variables at least, none twice.
LEMMA SlicesFacts ==
    ASSUME NEW pb \in PBProblems, NEW s, s = Slices(pb),
           NEW n \in Nat, n = Len(pb.clauses), NEW m \in Nat, m = Len(pb.constraints)
    PROVE  Sliced(pb, s, n, m)
<1>1. /\ pb.clauses \in Seq(Seq(Lits)) /\ pb.units \in Seq(Lits)
      /\ \A c \in DOMAIN pb.clauses :
            LET C == pb.clauses[c] IN
            Len(C) >= 2 /\ \A i, j \in DOMAIN C : i < j => VarOf(C[i]) # VarOf(C[j])
      /\ pb.constraints \in Seq(Constraints)
  BY PBAssumption DEF ClausesGiven
<1>2. PICK t : t = [c \in DOMAIN pb.constraints |-> pb.constraints[c].lits]
  OBVIOUS
<1>3. n \in Nat /\ m \in Nat /\ DOMAIN pb.clauses = 1 .. n /\ DOMAIN pb.constraints = 1 .. m
  BY <1>1
<1>4. ASSUME NEW c \in 1 .. m
      PROVE  /\ t[c] = pb.constraints[c].lits /\ t[c] \in Seq(Lits) /\ Len(t[c]) >= 2
             /\ \A i, j \in DOMAIN t[c] : VarOf(t[c][i]) = VarOf(t[c][j]) => i = j
  <2>1. PICK b : b = pb.constraints[c] /\ t[c] = b.lits
    BY <1>2, <1>3
  <2>2. c \in DOMAIN pb.constraints
    BY <1>3
  <2>3. WellMade(b) /\ Len(b.lits) >= 2
    BY <2>1, <2>2, ConstraintGiven
  <2>4. b.lits \in Seq(Lits)
    BY <2>3, WellMadeFacts
  <2> QED BY <2>1, <2>3, <2>4 DEF WellMade
<1>5. t \in Seq(Seq(Lits)) /\ Len(t) = m
  <2>1. t \in [1 .. m -> Seq(Lits)]
    BY <1>2, <1>3, <1>4
  <2> QED BY <1>3, <2>1, FunctionIsSeq
<1>6. s = pb.clauses \o t
  BY <1>2 DEF Slices
<1>7. /\ s \in Seq(Seq(Lits)) /\ Len(s) = n + m
      /\ \A c \in 1 .. n : s[c] = pb.clauses[c]
      /\ \A c \in n + 1 .. n + m : s[c] = t[c - n] /\ c - n \in 1 .. m /\ c \in 1 .. n + m
  <2>0. n \in Nat /\ m \in Nat
    BY <1>3
  <2>1. s \in Seq(Seq(Lits)) /\ Len(s) = n + m /\ \A c \in 1 .. n : s[c] = pb.clauses[c]
    <3>1. PICK u : u = pb.clauses /\ u \in Seq(Seq(Lits)) /\ Len(u) = n
      BY <1>1
    <3>2. /\ u \o t \in Seq(Seq(Lits)) /\ Len(u \o t) = Len(u) + Len(t)
          /\ \A i \in 1 .. Len(u) + Len(t) :
                (u \o t)[i] = IF i <= Len(u) THEN u[i] ELSE t[i - Len(u)]
      BY ONLY <1>5, <3>1, ConcatProperties
    <3>3. Len(u) = n /\ Len(t) = m
      BY <1>5, <3>1
    <3>4. \A c \in 1 .. n : (u \o t)[c] = u[c]
      BY ONLY <2>0, <3>2, <3>3
    <3>5. u \o t = s
      BY <1>6, <3>1
    <3> QED BY <3>1, <3>2, <3>3, <3>4, <3>5
  <2>2. ASSUME NEW c \in n + 1 .. n + m PROVE s[c] = t[c - n] /\ c - n \in 1 .. m /\ c \in 1 .. n + m
    <3>1. c \in Int /\ n + 1 <= c /\ c <= n + m
      BY ONLY <2>0
    <3>2. c - n \in 1 .. m /\ c \in 1 .. n + m
      BY ONLY <2>0, <3>1
    <3>3. (pb.clauses \o t)[c] = t[c - n]
      BY <1>1, <1>3, <1>5, <3>1, <3>2
    <3> QED BY <1>6, <3>2, <3>3
  <2> QED BY <2>1, <2>2
<1>8. ASSUME NEW c \in 1 .. n
      PROVE  /\ s[c] \in Seq(Lits) /\ Len(s[c]) >= 2
             /\ \A i, j \in DOMAIN s[c] : VarOf(s[c][i]) = VarOf(s[c][j]) => i = j
  <2>1. PICK C : C = s[c] /\ C = pb.clauses[c]
    BY <1>7
  <2>2. /\ C \in Seq(Lits) /\ Len(C) >= 2
        /\ \A i, j \in DOMAIN C : i < j => VarOf(C[i]) # VarOf(C[j])
    BY <1>1, <1>3, <2>1
  <2>3. DOMAIN C \subseteq Nat
    BY <2>2
  <2>4. ASSUME NEW i \in DOMAIN C, NEW j \in DOMAIN C, VarOf(C[i]) = VarOf(C[j]) PROVE i = j
    <3>1. i \in Nat /\ j \in Nat /\ ~ (i < j) /\ ~ (j < i)
      BY <2>2, <2>3, <2>4
    <3> QED BY <3>1
  <2> QED BY <2>1, <2>2, <2>4
<1>9. ASSUME NEW c \in n + 1 .. n + m
      PROVE  /\ s[c] \in Seq(Lits) /\ Len(s[c]) >= 2
             /\ \A i, j \in DOMAIN s[c] : VarOf(s[c][i]) = VarOf(s[c][j]) => i = j
  <2>1. PICK d : d = c - n
    OBVIOUS
  <2>2. s[c] = t[d] /\ d \in 1 .. m
    BY <1>7, <2>1
  <2> QED BY <1>4, <2>2
<1>10. ASSUME NEW c \in 1 .. n + m PROVE c \in 1 .. n \/ c \in n + 1 .. n + m
  <2>0. n \in Nat /\ m \in Nat
    BY <1>3
  <2>1. c \in Int /\ 1 <= c /\ c <= n + m
    BY ONLY <2>0
  <2>2. CASE c <= n
    BY ONLY <2>0, <2>1, <2>2
  <2>3. CASE ~ (c <= n)
    BY ONLY <2>0, <2>1, <2>3
  <2> QED BY <2>2, <2>3
<1>11. \A c \in 1 .. n : s[c] = pb.clauses[c] /\ c \in DOMAIN pb.clauses
  BY <1>3, <1>7
<1>12. \A c \in n + 1 .. n + m : /\ s[c] = pb.constraints[c - n].lits
                                 /\ c - n \in DOMAIN pb.constraints
  BY <1>3, <1>4, <1>7
<1>13. \A c \in 1 .. n + m :
         /\ s[c] \in Seq(Lits) /\ Len(s[c]) >= 2
         /\ \A i, j \in DOMAIN s[c] : VarOf(s[c][i]) = VarOf(s[c][j]) => i = j
  BY <1>8, <1>9, <1>10
<1> QED BY <1>1, <1>3, <1>7, <1>11, <1>12, <1>13 DEF Sliced

Numbered(pb, s, n, m) ==
    /\ clauses \in Seq(Clauses) /\ ClauseIds = 1 .. n + m /\ Len(clauses) = n + m
    /\ watched \in Seq(Lits \X Lits) /\ Len(watched) = Len(clauses)
    /\ \A c \in ClauseIds : clauses[c] = Range(s[c]) /\ watched[c] = <<s[c][1], s[c][2]>>
    /\ \A c \in ClauseIds :
         /\ watched[c][1] \in clauses[c] /\ watched[c][2] \in clauses[c]
         /\ watched[c][1] # watched[c][2]
         /\ watched[c] = <<watched[c][1], watched[c][2]>>
    /\ DOMAIN pbs = n + 1 .. n + m /\ DOMAIN pbs \subseteq ClauseIds
    /\ \A c \in DOMAIN pbs : /\ pbs[c] = pb.constraints[c - n] /\ s[c] = pbs[c].lits
                             /\ c - n \in DOMAIN pb.constraints
    /\ \A c \in ClauseIds \ DOMAIN pbs : c \in DOMAIN pb.clauses /\ s[c] = pb.clauses[c]

\* What NewPB makes of them.
LEMMA NewPBFacts ==
    ASSUME NEW pb \in PBProblems, NewPB(pb), NEW s, s = Slices(pb),
           NEW n \in Nat, n = Len(pb.clauses), NEW m \in Nat, m = Len(pb.constraints)
    PROVE  Numbered(pb, s, n, m)
<1>1. /\ Len(s) = n + m /\ s \in Seq(Seq(Lits))
      /\ \A c \in 1 .. n : s[c] = pb.clauses[c] /\ c \in DOMAIN pb.clauses
      /\ \A c \in n + 1 .. n + m : /\ s[c] = pb.constraints[c - n].lits
                                   /\ c - n \in DOMAIN pb.constraints
      /\ \A c \in 1 .. n + m :
            /\ s[c] \in Seq(Lits) /\ Len(s[c]) >= 2
            /\ \A i, j \in DOMAIN s[c] : VarOf(s[c][i]) = VarOf(s[c][j]) => i = j
  <2>1. Sliced(pb, s, n, m)
    BY SlicesFacts
  <2> QED BY <2>1 DEF Sliced
<1>0. n \in Nat /\ m \in Nat
  OBVIOUS
<1>2. PICK k : k = n + m /\ k \in Nat
  BY ONLY <1>0
<1>3. /\ clauses = [c \in 1 .. k |-> Range(s[c])]
      /\ watched = [c \in 1 .. k |-> <<s[c][1], s[c][2]>>]
  <2>1. /\ clauses = [c \in 1 .. Len(s) |-> Range(s[c])]
        /\ watched = [c \in 1 .. Len(s) |-> <<s[c][1], s[c][2]>>]
    BY DEF NewPB, New, Slices
  <2>2. Len(s) = k
    BY <1>1, <1>2
  <2> QED BY <2>1, <2>2
<1>4. ASSUME NEW c \in 1 .. k
      PROVE  /\ Range(s[c]) \in Clauses /\ <<s[c][1], s[c][2]>> \in Lits \X Lits
             /\ s[c][1] \in Range(s[c]) /\ s[c][2] \in Range(s[c]) /\ s[c][1] # s[c][2]
  <2>1. PICK C : C = s[c]
    OBVIOUS
  <2>2. /\ C \in Seq(Lits) /\ Len(C) >= 2
        /\ \A i, j \in DOMAIN C : VarOf(C[i]) = VarOf(C[j]) => i = j
    BY <1>1, <1>2, <2>1
  <2>3. /\ DOMAIN C = 1 .. Len(C) /\ Len(C) \in Nat /\ \A i \in DOMAIN C : C[i] \in Lits
        /\ 1 \in DOMAIN C /\ 2 \in DOMAIN C
    BY <2>2
  <2>4. Range(C) \subseteq Lits /\ C[1] \in Range(C) /\ C[2] \in Range(C) /\ C[1] # C[2]
    BY <2>2, <2>3 DEF Range
  <2> QED BY <2>1, <2>4 DEF Clauses
<1>5. /\ clauses \in Seq(Clauses) /\ Len(clauses) = k /\ watched \in Seq(Lits \X Lits)
      /\ Len(watched) = k
  <2>1. clauses \in [1 .. k -> Clauses] /\ watched \in [1 .. k -> Lits \X Lits]
    BY <1>3, <1>4
  <2>2. clauses \in Seq(Clauses) /\ Len(clauses) = k
    BY <1>2, <2>1, FunctionIsSeq
  <2>3. watched \in Seq(Lits \X Lits) /\ Len(watched) = k
    BY <1>2, <2>1, FunctionIsSeq
  <2> QED BY <2>2, <2>3
<1>6. ClauseIds = 1 .. k
  BY <1>5 DEF ClauseIds
<1>7. \A c \in 1 .. k : clauses[c] = Range(s[c]) /\ watched[c] = <<s[c][1], s[c][2]>>
  BY <1>3
<1>8. ASSUME NEW c \in 1 .. k
      PROVE  /\ watched[c][1] \in clauses[c] /\ watched[c][2] \in clauses[c]
             /\ watched[c][1] # watched[c][2]
             /\ watched[c] = <<watched[c][1], watched[c][2]>>
  <2>1. PICK x, y, R : x = s[c][1] /\ y = s[c][2] /\ R = Range(s[c])
    OBVIOUS
  <2>2. x \in R /\ y \in R /\ x # y /\ clauses[c] = R /\ watched[c] = <<x, y>>
    BY <1>4, <1>7, <2>1
  <2> QED BY <2>2
<1>9. pbs = [c \in n + 1 .. n + m |-> pb.constraints[c - n]]
  BY DEF NewPB
<1>10. /\ DOMAIN pbs = n + 1 .. n + m
       /\ \A c \in DOMAIN pbs : /\ pbs[c] = pb.constraints[c - n] /\ s[c] = pbs[c].lits
                                /\ c - n \in DOMAIN pb.constraints
  BY <1>1, <1>9
<1>11. \A c : /\ c \in n + 1 .. n + m => c \in 1 .. k
              /\ c \in 1 .. k /\ c \notin n + 1 .. n + m => c \in 1 .. n
  <2>1. n \in Nat /\ m \in Nat
    OBVIOUS
  <2> QED BY ONLY <1>2, <2>1
<1>12. \A c \in ClauseIds \ DOMAIN pbs : c \in DOMAIN pb.clauses /\ s[c] = pb.clauses[c]
  BY <1>1, <1>6, <1>10, <1>11
<1> QED BY <1>2, <1>5, <1>6, <1>7, <1>8, <1>10, <1>11, <1>12 DEF Numbered

\* The solutions of a problem satisfy what it is made of.
LEMMA GivenHold ==
    ASSUME NEW pb \in PBProblems, NewPB(pb), NEW a \in Solutions
    PROVE  /\ \A c \in DOMAIN pb.clauses : \E l \in Range(pb.clauses[c]) : Holds(a, l)
           /\ \A c \in DOMAIN pb.constraints : Meets(a, pb.constraints[c])
           /\ \A i \in DOMAIN pb.units : Holds(a, pb.units[i])
<1>1. /\ \A c \in DOMAIN pb.clauses : GivenClause(pb.clauses[c]) \in problem
      /\ \A c \in DOMAIN pb.constraints : Given(pb.constraints[c]) \in problem
      /\ \A i \in DOMAIN pb.units : GivenClause(<<pb.units[i]>>) \in problem
  BY DEF NewPB, Range
<1>2. \A b \in problem : Meets(a, b)
  BY DEF Solutions
<1>3. ASSUME NEW C, Meets(a, GivenClause(C)) PROVE \E i \in DOMAIN C : Holds(a, C[i])
  <2>1. PICK w, I : w = [i \in DOMAIN C |-> 1] /\ I = {i \in DOMAIN C : Holds(a, C[i])}
    OBVIOUS
  <2>2. SumOf(w, I) >= 1
    BY <1>3, <2>1 DEF Meets, GivenClause
  <2> SUFFICES ASSUME I = {} PROVE FALSE
    BY <2>1
  <2>3. SumOf(w, I) = 0
    BY SumEmpty
  <2> HIDE DEF SumOf
  <2> QED BY <2>2, <2>3
<1>4. ASSUME NEW c \in DOMAIN pb.clauses
      PROVE  \E l \in Range(pb.clauses[c]) : Holds(a, l)
  <2>1. PICK i \in DOMAIN pb.clauses[c] : Holds(a, pb.clauses[c][i])
    BY <1>1, <1>2, <1>3
  <2> QED BY <2>1 DEF Range
<1>5. ASSUME NEW c \in DOMAIN pb.constraints PROVE Meets(a, pb.constraints[c])
  <2>1. Meets(a, Given(pb.constraints[c]))
    BY <1>1, <1>2
  <2> QED BY <2>1 DEF Meets, Given
<1>6. ASSUME NEW i \in DOMAIN pb.units PROVE Holds(a, pb.units[i])
  <2>1. PICK C : C = <<pb.units[i]>>
    OBVIOUS
  <2>2. PICK j \in DOMAIN C : Holds(a, C[j])
    BY <1>1, <1>2, <1>3, <2>1
  <2> QED BY <2>1, <2>2
<1> QED BY <1>4, <1>5, <1>6

\* The units are bound at level 1, and nothing else is.
LEMMA InitBindings ==
    ASSUME PBInit, NEW pb \in PBProblems, NewPB(pb)
    PROVE  BindingsOK /\ model \in [Vars -> Int] /\ trail \in Seq(Lits) /\ \A v \in Vars : Level(v) <= 1
<1>1. /\ trail = pb.units /\ pb.units \in Seq(Lits)
      /\ \A i, j \in DOMAIN trail : trail[i] # Negation(trail[j])
  BY PBAssumption DEF NewPB, New, ClausesGiven
<1>2. model = [v \in Vars |-> IF SignedLit(v, FALSE) \in Range(trail) THEN 1
                              ELSE IF SignedLit(v, TRUE) \in Range(trail) THEN -1
                              ELSE 0]
  BY <1>1 DEF NewPB, New
<1>3. /\ reason = [v \in Vars |-> Nil] /\ pc = "idle"
  BY DEF PBInit
<1>4. /\ model \in [Vars -> Int] /\ Len(trail) \in Nat /\ DOMAIN trail = 1 .. Len(trail)
      /\ \A i \in DOMAIN trail : trail[i] \in Lits /\ VarOf(trail[i]) \in Vars
      /\ \A v \in Vars : model[v] \in {1, -1, 0}
  <2>1. \A v \in Vars : model[v] \in {1, -1, 0}
    BY <1>2
  <2>2. model \in [Vars -> Int]
    BY <1>2, <2>1
  <2>3. /\ Len(trail) \in Nat /\ DOMAIN trail = 1 .. Len(trail)
        /\ \A i \in DOMAIN trail : trail[i] \in Lits
    BY <1>1
  <2> QED BY <2>1, <2>2, <2>3, LitFacts
<1>5. ASSUME NEW i \in DOMAIN trail
      PROVE  LitStatus(trail[i]) = "Sat" /\ Level(VarOf(trail[i])) = 1
  <2>1. PICK l, v : /\ l = trail[i] /\ v = VarOf(l) /\ l \in Lits /\ v \in Vars
                    /\ l \in Range(trail) /\ IsPositive(l) \in BOOLEAN
    BY <1>4, LitFacts DEF Range
  <2>2. Negation(l) \notin Range(trail)
    BY <1>1, <2>1 DEF Range
  <2>3. l = SignedLit(v, ~ IsPositive(l)) /\ Negation(l) = SignedLit(v, IsPositive(l))
    <3>1. /\ SignedLit(v, ~ IsPositive(l)) \in Lits /\ VarOf(SignedLit(v, ~ IsPositive(l))) = v
          /\ IsPositive(SignedLit(v, ~ IsPositive(l))) = IsPositive(l)
      BY <2>1, SignedLitFacts
    <3>2. /\ SignedLit(v, IsPositive(l)) \in Lits /\ VarOf(SignedLit(v, IsPositive(l))) = v
          /\ IsPositive(SignedLit(v, IsPositive(l))) = ~ IsPositive(l)
      BY <2>1, SignedLitFacts
    <3>3. l = SignedLit(v, ~ IsPositive(l))
      BY <2>1, <3>1, SameVar
    <3>4. Negation(l) \in Lits /\ VarOf(Negation(l)) = v /\ IsPositive(Negation(l)) = ~ IsPositive(l)
      BY <2>1, LitFacts
    <3>5. Negation(l) = SignedLit(v, IsPositive(l))
      BY <3>2, <3>4, SameVar
    <3> QED BY <3>3, <3>5
  <2>4. model[v] = IF IsPositive(l) THEN 1 ELSE -1
    <3>1. CASE IsPositive(l)
      <4>1. SignedLit(v, FALSE) \in Range(trail)
        BY <2>1, <2>3, <3>1
      <4> QED BY <1>2, <2>1, <3>1, <4>1
    <3>2. CASE ~ IsPositive(l)
      <4>1. SignedLit(v, TRUE) \in Range(trail) /\ SignedLit(v, FALSE) \notin Range(trail)
        BY <2>1, <2>2, <2>3, <3>2
      <4> QED BY <1>2, <2>1, <3>2, <4>1
    <3> QED BY <2>1, <3>1, <3>2
  <2>5. CASE IsPositive(l)
    <3>1. model[v] = 1
      BY <2>4, <2>5
    <3>2. Level(v) = 1
      BY <3>1 DEF Level, Abs
    <3>3. LitStatus(l) = "Sat"
      <4>1. model[VarOf(l)] # 0 /\ (model[VarOf(l)] > 0) = IsPositive(l)
        <5>1. model[VarOf(l)] = 1 /\ IsPositive(l) = TRUE
          BY <2>1, <2>5, <3>1
        <5>2. model[VarOf(l)] # 0 /\ (model[VarOf(l)] > 0) = TRUE
          BY <5>1
        <5> QED BY <5>1, <5>2
      <4> QED BY <4>1 DEF LitStatus
    <3> QED BY <2>1, <3>2, <3>3
  <2>6. CASE ~ IsPositive(l)
    <3>1. model[v] = -1
      BY <2>4, <2>6
    <3>2. Level(v) = 1
      <4>1. PICK x : x = model[v] /\ x = -1
        BY <3>1
      <4>2. Level(v) = Abs(x) /\ Abs(x) = -x
        BY <4>1 DEF Level, Abs
      <4> QED BY <4>1, <4>2
    <3>3. LitStatus(l) = "Sat"
      BY <2>1, <2>6, <3>1 DEF LitStatus
    <3> QED BY <2>1, <3>2, <3>3
  <2> QED BY <2>1, <2>5, <2>6
<1>6. \A v \in Vars : Level(v) <= 1
  BY <1>4 DEF Level, Abs
<1>7. ASSUME NEW v \in Vars, model[v] # 0 PROVE \E i \in 1 .. Len(trail) : VarOf(trail[i]) = v
  <2>1. SignedLit(v, FALSE) \in Range(trail) \/ SignedLit(v, TRUE) \in Range(trail)
    BY <1>2, <1>7
  <2> QED BY <1>4, <2>1, SignedLitFacts DEF Range
<1>8. TrailBound(Len(trail))
  <2>1. \A i, j \in 1 .. Len(trail) : Level(VarOf(trail[i])) <= Level(VarOf(trail[j]))
    BY <1>4, <1>5
  <2>2. \A i, j \in 1 .. Len(trail) : ~ (Level(VarOf(trail[i])) > 1)
    BY <1>4, <1>5
  <2>3. /\ Len(trail) \in 0 .. Len(trail) /\ \A i \in 1 .. Len(trail) : LitStatus(trail[i]) = "Sat"
        /\ \A i \in Len(trail) + 1 .. Len(trail) : model[VarOf(trail[i])] = 0
        /\ ~ (Len(trail) < Len(trail))
    BY <1>4, <1>5
  <2> QED BY <1>4, <1>5, <1>7, <2>1, <2>2, <2>3, SMTT(20) DEF TrailBound
<1>9. ReasonsBound(Len(trail)) /\ ReasonsHold
  BY <1>3, <1>4 DEF ReasonsBound, ReasonsHold
<1>10. FactsFollow
  BY <1>1, GivenHold DEF FactsFollow, Follows
<1>11. BindingsOK
  <2>1. PICK n : n = Len(trail)
    OBVIOUS
  <2>2. n \in 0 .. Len(trail) /\ TrailBound(n) /\ ReasonsBound(n)
    BY <1>4, <1>8, <1>9, <2>1
  <2>3. \E k \in 0 .. Len(trail) :
          /\ TrailBound(k) /\ ReasonsBound(k)
          /\ pc \in {"cut", "learned"} => k = cutPtr
          /\ pc \notin {"cut", "learned", "bind"} => k = Len(trail)
    BY <1>3, <2>1, <2>2
  <2> QED BY <1>9, <1>10, <2>3 DEF BindingsOK
<1> QED BY <1>1, <1>4, <1>6, <1>11

\* The lists that New makes, and what is in them.
LEMMA InitLists ==
    ASSUME PBInit, NEW pb \in PBProblems, NewPB(pb)
    PROVE  /\ wlistBin \in [Lits -> SUBSET Watchers] /\ wlist \in [Lits -> SUBSET Watchers]
           /\ wlistPb \in [Lits -> Seq(DOMAIN pbs)]
           /\ PBListsInv
<1>1. PICK s : s = Slices(pb)
  OBVIOUS
<1>2. PICK n \in Nat, m \in Nat : n = Len(pb.clauses) /\ m = Len(pb.constraints)
  <2>1. pb.clauses \in Seq(Seq(Lits)) /\ pb.constraints \in Seq(Constraints)
    BY PBAssumption DEF ClausesGiven
  <2> QED BY <2>1
<1>0. Numbered(pb, s, n, m)
  BY <1>1, <1>2, NewPBFacts
<1>3. /\ clauses \in Seq(Clauses) /\ ClauseIds = 1 .. n + m /\ Len(clauses) = n + m
      /\ DOMAIN pbs = n + 1 .. n + m /\ DOMAIN pbs \subseteq ClauseIds
  BY <1>0 DEF Numbered
<1>4. \A c \in ClauseIds :
        /\ watched[c][1] \in clauses[c] /\ watched[c][2] \in clauses[c]
        /\ watched[c][1] # watched[c][2]
        /\ watched[c] = <<watched[c][1], watched[c][2]>>
  BY <1>0 DEF Numbered
<1>5. \A c \in DOMAIN pbs : /\ pbs[c] = pb.constraints[c - n] /\ s[c] = pbs[c].lits
                            /\ c - n \in DOMAIN pb.constraints
  BY <1>0 DEF Numbered
<1>6. \A c \in ClauseIds : clauses[c] = Range(s[c]) /\ clauses[c] \in Clauses
  <2>1. \A c \in ClauseIds : clauses[c] = Range(s[c])
    BY <1>0 DEF Numbered
  <2> QED BY <1>3, <2>1 DEF ClauseIds
<1>7. /\ wlistBin \in [Lits -> SUBSET Watchers] /\ wlist \in [Lits -> SUBSET Watchers]
      /\ \A l \in Lits : \A w \in wlistBin[l] :
            /\ w \in Watchers /\ w[1] \notin DOMAIN pbs /\ Cardinality(clauses[w[1]]) = 2
            /\ watched[w[1]] \in {<<Negation(l), w[2]>>, <<w[2], Negation(l)>>}
      /\ \A l \in Lits : \A w \in wlist[l] :
            /\ w \in Watchers /\ w[1] \notin DOMAIN pbs
            /\ watched[w[1]] \in {<<Negation(l), w[2]>>, <<w[2], Negation(l)>>}
  BY DEF PBInit, WatchLists, BinaryIds, Watchers
<1>8. ASSUME NEW l \in Lits, NEW w \in wlistBin[l]
      PROVE  w[1] \notin DOMAIN pbs /\ clauses[w[1]] = {Negation(l), w[2]}
  <2>1. w[1] \in ClauseIds /\ clauses[w[1]] \in Clauses
    BY <1>6, <1>7 DEF Watchers
  <2>2. /\ Negation(l) \in clauses[w[1]] /\ w[2] \in clauses[w[1]]
        /\ Negation(l) # w[2]
    BY <1>4, <1>7, <2>1
  <2> QED BY <1>7, <2>1, <2>2, PairOfTwo
<1>9. ASSUME NEW l \in Lits, NEW w \in wlist[l]
      PROVE  /\ w[1] \notin DOMAIN pbs
             /\ Negation(l) \in {watched[w[1]][1], watched[w[1]][2]}
             /\ \A x \in wlist[l] : x[1] = w[1] => x = w
  <2>1. w[1] \in ClauseIds /\ w = <<w[1], w[2]>>
    BY <1>7 DEF Watchers
  <2>2. ASSUME NEW x \in wlist[l], x[1] = w[1] PROVE x = w
    <3>1. x = <<x[1], x[2]>>
      BY <1>7 DEF Watchers
    <3>2. x[2] = w[2]
      BY <1>4, <1>7, <2>1, <2>2
    <3> QED BY <2>1, <2>2, <3>1, <3>2
  <2> QED BY <1>7, <2>1, <2>2
<1>10. ASSUME NEW l \in Lits
       PROVE  /\ wlistPb[l] \in Seq(DOMAIN pbs)
              /\ \A c \in Range(wlistPb[l]) : Negation(l) \in clauses[c]
  <2>1. PICK I : I = {c \in DOMAIN pbs : \E i \in Watched(pbs[c]) : LitAt(c, i) = Negation(l)}
    OBVIOUS
  <2>2. wlistPb[l] = InOrder(I)
    BY <2>1 DEF NewPB
  <2>3. n + m \in Nat /\ I \subseteq 1 .. n + m
    BY <1>3, <2>1
  <2>4. PICK k : k = n + m /\ k \in Nat
    BY <2>3
  <2>5. /\ Cardinality(I) \in Nat
        /\ \A j \in 1 .. Cardinality(I) : Nth(I, j) \in I
    BY <2>3, <2>4, NthFacts
  <2>6. InOrder(I) \in [1 .. Cardinality(I) -> I]
    BY <2>5 DEF InOrder
  <2>7. InOrder(I) \in Seq(I) /\ Range(InOrder(I)) \subseteq I
    BY <2>5, <2>6, FunctionIsSeq DEF Range
  <2>8. wlistPb[l] \in Seq(DOMAIN pbs)
    <3>1. InOrder(I) \in [1 .. Cardinality(I) -> DOMAIN pbs]
      BY <2>1, <2>6
    <3> QED BY <2>2, <2>5, <3>1, FunctionIsSeq
  <2>9. ASSUME NEW c \in I PROVE Negation(l) \in clauses[c]
    <3>1. PICK b : b = pbs[c]
      OBVIOUS
    <3>2. c \in DOMAIN pbs /\ b = pb.constraints[c - n] /\ c - n \in DOMAIN pb.constraints
      BY <1>5, <2>1, <2>9, <3>1
    <3>3. WellMade(b) /\ (~ b.pb => b.card + 1 <= Len(b.lits))
      BY <3>2, ConstraintGiven
    <3>4. DOMAIN b.lits = 1 .. Len(b.lits) /\ Len(b.lits) \in Nat /\ b.card \in Nat
      BY <3>3, WellMadeFacts
    <3>5. PICK i \in Watched(b) : b.lits[i] = Negation(l)
      BY <2>1, <2>9, <3>1 DEF LitAt
    <3>6. i \in DOMAIN b.lits
      BY <3>3, <3>4 DEF Watched
    <3>7. clauses[c] = Range(b.lits)
      BY <1>3, <1>5, <1>6, <3>1, <3>2
    <3> QED BY <3>5, <3>6, <3>7 DEF Range
  <2> QED BY <2>2, <2>7, <2>8, <2>9
<1>11. wlistPb \in [Lits -> Seq(DOMAIN pbs)]
  <2>1. DOMAIN wlistPb = Lits /\ wlistPb = [l \in Lits |-> wlistPb[l]]
    BY DEF NewPB
  <2> QED BY <1>10, <2>1
<1>12. PBListsInv
  BY <1>4, <1>8, <1>9, <1>10 DEF PBListsInv
<1> QED BY <1>7, <1>11, <1>12

\* The solutions satisfy all the clauses and constraints.
LEMMA InitDatabase ==
    ASSUME NEW pb \in PBProblems, NewPB(pb)
    PROVE  DatabaseOK /\ pbs \in [DOMAIN pbs -> Constraints]
<1>1. PICK s : s = Slices(pb)
  OBVIOUS
<1>2. PICK n \in Nat, m \in Nat : n = Len(pb.clauses) /\ m = Len(pb.constraints)
  <2>1. pb.clauses \in Seq(Seq(Lits)) /\ pb.constraints \in Seq(Constraints)
    BY PBAssumption DEF ClausesGiven
  <2> QED BY <2>1
<1>0. Numbered(pb, s, n, m)
  BY <1>1, <1>2, NewPBFacts
<1>3. /\ \A c \in ClauseIds : clauses[c] = Range(s[c])
      /\ DOMAIN pbs \subseteq ClauseIds
  BY <1>0 DEF Numbered
<1>4. \A c \in DOMAIN pbs : /\ pbs[c] = pb.constraints[c - n] /\ s[c] = pbs[c].lits
                            /\ c - n \in DOMAIN pb.constraints
  BY <1>0 DEF Numbered
<1>5. \A c \in ClauseIds \ DOMAIN pbs : c \in DOMAIN pb.clauses /\ s[c] = pb.clauses[c]
  BY <1>0 DEF Numbered
<1>6. ASSUME NEW c \in DOMAIN pbs
      PROVE  /\ WellMade(pbs[c]) /\ clauses[c] = Range(pbs[c].lits)
             /\ ~ pbs[c].pb => /\ pbs[c].card + 1 <= Len(pbs[c].lits)
                               /\ \A i \in DOMAIN pbs[c].weights : pbs[c].weights[i] = 1
  <2>1. PICK b : b = pbs[c]
    OBVIOUS
  <2>2. b = pb.constraints[c - n] /\ c - n \in DOMAIN pb.constraints /\ clauses[c] = Range(b.lits)
    BY <1>3, <1>4, <2>1
  <2>3. /\ WellMade(b)
        /\ ~ b.pb => b.card + 1 <= Len(b.lits) /\ \A i \in DOMAIN b.weights : b.weights[i] = 1
    BY <2>2, ConstraintGiven
  <2> QED BY <2>1, <2>2, <2>3
<1>7. ASSUME NEW c \in ClauseIds, NEW a \in Solutions PROVE Enough(Made(a), c)
  <2>1. CASE c \in DOMAIN pbs
    <3>1. PICK b : b = pbs[c]
      OBVIOUS
    <3>2. b = pb.constraints[c - n] /\ c - n \in DOMAIN pb.constraints
      BY <1>4, <2>1, <3>1
    <3>3. Meets(a, b)
      BY <3>2, GivenHold
    <3>4. \A i \in DOMAIN b.lits : b.lits[i] \in Lits
      BY <1>6, <2>1, <3>1, WellMadeFacts
    <3>5. {i \in DOMAIN b.lits : Holds(a, b.lits[i])} = {i \in DOMAIN b.lits : b.lits[i] \in Made(a)}
      BY <3>4 DEF Made
    <3>6. Weight(c, {i \in Idx(c) : LitAt(c, i) \in Made(a)}) >= b.card
      BY <3>1, <3>3, <3>5 DEF Meets, Weight, Idx, LitAt
    <3> QED BY <2>1, <3>1, <3>6 DEF Enough
  <2>2. CASE c \notin DOMAIN pbs
    <3>1. c \in DOMAIN pb.clauses /\ clauses[c] = Range(pb.clauses[c])
      BY <1>3, <1>5, <2>2
    <3>2. PICK l \in clauses[c] : Holds(a, l)
      BY <3>1, GivenHold
    <3>3. l \in Lits
      <4>1. pb.clauses \in Seq(Seq(Lits))
        BY PBAssumption DEF ClausesGiven
      <4>2. PICK C : C = pb.clauses[c] /\ C \in Seq(Lits)
        BY <3>1, <4>1
      <4>3. Range(C) \subseteq Lits
        BY <4>2 DEF Range
      <4> QED BY <3>1, <3>2, <4>2, <4>3
    <3> QED BY <2>2, <3>2, <3>3 DEF Enough, Made
  <2> QED BY <2>1, <2>2
<1>8. pbs \in [DOMAIN pbs -> Constraints]
  <2>1. pbs = [c \in DOMAIN pbs |-> pbs[c]]
    BY DEF NewPB
  <2>2. \A c \in DOMAIN pbs : pbs[c] \in Constraints
    BY <1>6 DEF WellMade
  <2> QED BY <2>1, <2>2
<1>9. ASSUME NEW c \in DOMAIN pbs
      PROVE  LET b == pbs[c] IN
             /\ Len(b.weights) = Len(b.lits) /\ clauses[c] = Range(b.lits)
             /\ \A i, j \in DOMAIN b.lits : VarOf(b.lits[i]) = VarOf(b.lits[j]) => i = j
             /\ ~ b.pb => b.card + 1 <= Len(b.lits) /\ \A i \in DOMAIN b.weights : b.weights[i] = 1
  BY <1>6 DEF WellMade
<1>10. \A c \in ClauseIds, a \in Solutions : Enough({l \in Lits : Holds(a, l)}, c)
  BY <1>7 DEF Made
<1> QED BY <1>8, <1>9, <1>10 DEF DatabaseOK

LEMMA InitLive ==
    ASSUME PBInit
    PROVE  LiveInv
<1>1. PICK pb \in PBProblems : NewPB(pb)
  BY DEF PBInit
<1>2. /\ pc = "idle" /\ lit = NoLit /\ pending = <<>> /\ reason = [v \in Vars |-> Nil]
      /\ polarity = [v \in Vars |-> FALSE] /\ queue = Vars /\ visiting = <<>> /\ pos = 1
      /\ ptr = 1 /\ lvl = 1 /\ todoBin = {} /\ todo = {} /\ met = {} /\ metLvl = {} /\ lits = {}
      /\ nbLvl = 0 /\ walk = 0 /\ assumptions = {} /\ cut = NoCut /\ cutPtr = 0
  BY DEF PBInit
<1>3. /\ BindingsOK /\ model \in [Vars -> Int] /\ trail \in Seq(Lits)
      /\ \A v \in Vars : Level(v) <= 1
  BY <1>1, InitBindings
<1>4. /\ clauses \in Seq(Clauses) /\ watched \in Seq(Lits \X Lits) /\ Len(watched) = Len(clauses)
      /\ DOMAIN pbs \subseteq ClauseIds
  <2>1. pb.clauses \in Seq(Seq(Lits)) /\ pb.constraints \in Seq(Constraints)
    BY PBAssumption DEF ClausesGiven
  <2>2. PICK n \in Nat, m \in Nat : n = Len(pb.clauses) /\ m = Len(pb.constraints)
    BY <2>1
  <2>3. PICK s : s = Slices(pb)
    OBVIOUS
  <2>4. Numbered(pb, s, n, m)
    BY <1>1, <2>2, <2>3, NewPBFacts
  <2> QED BY <2>4 DEF Numbered
<1>5. /\ wlistBin \in [Lits -> SUBSET Watchers] /\ wlist \in [Lits -> SUBSET Watchers]
      /\ wlistPb \in [Lits -> Seq(DOMAIN pbs)]
      /\ PBListsInv
  BY <1>1, InitLists
<1>6. DatabaseOK /\ pbs \in [DOMAIN pbs -> Constraints]
  BY <1>1, InitDatabase
<1>7. PBTypeOK
  <2>1. NoCut \in [weights : [Vars -> Int], card : Int]
    BY DEF NoCut
  <2>2. {} \in Clauses
    BY DEF Clauses
  <2> QED BY <1>2, <1>3, <1>4, <1>5, <1>6, <2>1, <2>2 DEF PBTypeOK
<1>8. PBVisitInv /\ PBLevelsInv /\ PBUnifyInv /\ PBLearnInv /\ CutInv
  BY <1>2, <1>3 DEF PBVisitInv, PBLevelsInv, PBUnifyInv, PBLearnInv, CutInv
<1> QED BY <1>3, <1>5, <1>6, <1>7, <1>8 DEF LiveInv

-----------------------------------------------------------------------------
(* The invariant.                                                          *)

\* A conflict at level 1, for a unit that was learned or given, leaves no solution.
LEMMA TopConflict ==
    ASSUME LiveInv, pc = "conflict", ret \notin {"branch", "cut"}
    PROVE  Solutions = {}
<1>1. PICK n : n = Len(trail) /\ n \in Nat /\ Bound(n)
  BY BoundNow
<1>2. PBTypeOK /\ DatabaseOK /\ FactsFollow /\ TrailBound(n)
  BY <1>1 DEF Bound, LiveInv
<1>3. lvl = 1 /\ \A v \in Vars : Level(v) <= lvl
  BY DEF LiveInv, PBLevelsInv
<1>4. /\ confl \in ClauseIds
      /\ ~ Enough({k \in Lits : ~ IsFalse(k)}, confl)
  BY DEF LiveInv, PBVisitInv
<1> QED BY <1>2, <1>3, <1>4, NoConflictAtLevelOne

\* A constraint that cannot be met any more by its free literals has no solution
\* in common with the others.
LEMMA HopelessAppend ==
    ASSUME LiveInv, NEW b, AsGiven(b), AppendPB(b), status' # status
    PROVE  Solutions' = {}
<1>1. /\ pc = "idle" /\ problem' = problem \union {Given(b)}
  BY DEF AppendPB
<1>2. WellMade(b)
  BY GivenWellMade
<1>3. PICK minW : minW = SumOf(b.weights, TopTrue(b))
  OBVIOUS
<1>4. /\ TopFree(b) \subseteq DOMAIN b.lits
      /\ minW \in Nat
      /\ SumOf(b.weights, TopFree(b)) \in Nat
      /\ SumOf(b.weights, TopTrue(b) \union TopFree(b)) = minW + SumOf(b.weights, TopFree(b))
      /\ \A a \in Solutions' : minW + WeightOf(b, TopFree(b), Made(a)) >= b.card
  BY <1>1, <1>2, <1>3, AppendFacts
<1>5. SumOf(b.weights, TopTrue(b) \union TopFree(b)) < b.card
  BY DEF AppendPB, TopTrue, TopFree, TopBound
<1> SUFFICES ASSUME NEW a \in Solutions' PROVE FALSE
  OBVIOUS
<1>6. WeightOf(b, TopFree(b), Made(a)) \in Nat
      /\ WeightOf(b, TopFree(b), Made(a)) <= SumOf(b.weights, TopFree(b))
  <2>1. PICK F, K : F = TopFree(b) /\ K = {i \in F : b.lits[i] \in Made(a)}
    OBVIOUS
  <2>2. K \subseteq F /\ F \subseteq DOMAIN b.lits /\ IsFiniteSet(DOMAIN b.lits)
    BY <1>2, <1>4, <2>1, WellMadeFacts
  <2>3. IsFiniteSet(F) /\ \A i \in F : b.weights[i] \in Nat
    BY <1>2, <2>2, WellMadeFacts, FS_Subset
  <2>4. SumOf(b.weights, K) \in Nat /\ SumOf(b.weights, K) <= SumOf(b.weights, F)
    <3>1. /\ SumOf(b.weights, K) \in Nat /\ SumOf(b.weights, F \ K) \in Nat
          /\ SumOf(b.weights, F) = SumOf(b.weights, K) + SumOf(b.weights, F \ K)
      BY <2>2, <2>3, SumSubset
    <3> HIDE DEF SumOf
    <3> QED BY <3>1
  <2> QED BY <2>1, <2>4 DEF WeightOf
<1>7. b.card \in Nat
  BY <1>2, WellMadeFacts
<1> QED BY <1>4, <1>5, <1>6, <1>7

\* What an action does to the answers: it never takes Unsat back.
AnswerStep ==
    /\ pc # "panic"
    /\ status = "Unsat" => status' = "Unsat"
    /\ Solutions' \subseteq Solutions
    /\ StatusUnsat'

\* Propagation stays where it is.
LEMMA PropagationPcs ==
    ASSUME PBPropagateStep
    PROVE  /\ pc \in {"propagate", "visit", "pb"}
           /\ pc' \in {"propagate", "visit", "pb", "conflict", "panic"}
<1>1. CASE StartLit /\ UNCHANGED pbVars
  BY <1>1 DEF StartLit
<1>2. ASSUME NEW w \in todoBin, VisitBinary(w)
      PROVE  pc = "visit" /\ pc' \in {"visit", "conflict"}
  BY <1>2 DEF VisitBinary, ReturnConflict
<1>3. ASSUME NEW w \in todo, VisitLong(w)
      PROVE  pc = "visit" /\ pc' \in {"visit", "conflict"}
  BY <1>3 DEF VisitLong, ReturnConflict
<1>4. CASE StartConstraints
  BY <1>4 DEF StartConstraints
<1>5. ASSUME VisitPB(Visited) PROVE pc = "pb" /\ pc' \in {"pb", "conflict"}
  BY <1>5 DEF VisitPB, Visiting, NextConstraint, FalsifiedConstraint, pbVars
<1>6. ASSUME VisitCard(Visited) PROVE pc = "pb" /\ pc' \in {"pb", "conflict", "panic"}
  BY <1>6 DEF VisitCard, Visiting, NextConstraint, FalsifiedConstraint, SwapFalse
<1>7. CASE EndConstraints
  BY <1>7 DEF EndConstraints
<1> QED BY <1>1, <1>2, <1>3, <1>4, <1>5, <1>6, <1>7 DEF PBPropagateStep

\* chooseLit answers Sat or decides.
LEMMA ChooseAnswers ==
    ASSUME StatusUnsat, NEW q, NEW m, NEW pol, NEW n, ChooseLit(q, m, pol, n),
           pc \in {"search", "propagate"}, ret # "append", UNCHANGED <<cutting, problem>>
    PROVE  AnswerStep
<1>1. Solutions' = Solutions
  BY DEF Solutions, Meets
<1>2. status # "Unsat"
  BY DEF StatusUnsat
<1>3. /\ pc' \in {"idle", "unify"} /\ (pc' = "idle" => ret' = "none") /\ ret' \in {"none", "branch"}
      /\ status' # "Unsat" /\ (result' = result \/ result' = "Sat")
  BY <1>2 DEF ChooseLit
<1>4. StatusUnsat'
  BY <1>2, <1>3 DEF StatusUnsat
<1> QED BY <1>1, <1>2, <1>4 DEF AnswerStep

\* Unsat is answered: what learns clauses does so when there is no solution.
LEMMA UnsatAnswers ==
    ASSUME StatusUnsat, status' = "Unsat", pc' = "idle", ret' = "none", pc # "panic",
           UNCHANGED <<cutting, problem>>, ~ cutting => Solutions = {}
    PROVE  AnswerStep
<1>1. Solutions' = Solutions
  BY DEF Solutions, Meets
<1>2. StatusUnsat'
  BY <1>1 DEF StatusUnsat
<1> QED BY <1>1, <1>2 DEF AnswerStep

\* Nothing is answered.
LEMMA SilentAnswers ==
    ASSUME StatusUnsat, UNCHANGED <<status, result, cutting, problem>>,
           pc \notin {"idle", "panic"}, pc' # "idle",
           pc' = "search" => ret' = "none",
           pc' \in {"cut", "learned", "learn"} => ret' \in {"branch", "cut"},
           ~ cutting => pc' \notin {"cut", "learned"} /\ ret' \notin {"units", "cut"},
           status = "Unsat" => ret' = ret
    PROVE  AnswerStep
<1>1. Solutions' = Solutions
  BY DEF Solutions, Meets
<1>2. StatusUnsat'
  BY <1>1 DEF StatusUnsat
<1> QED BY <1>1, <1>2 DEF AnswerStep

\* When learnClause answers Unsat there is no solution: or the invariant would
\* hold, and there would be no conflict at level 1.
LEMMA AnswersSearch ==
    ASSUME StatusUnsat, Live => LiveInv, PBPropagate \/ ClauseStep
    PROVE  AnswerStep
<1>1. UNCHANGED <<cutting, problem>>
  BY DEF PBPropagate, ClauseStep, pbCtlVars
<1>2. CASE PBPropagate
  <2>1. UNCHANGED <<status, result, ret>>
    BY <1>2 DEF PBPropagate, ctlVars, clientVars
  <2>2. pc \in {"propagate", "visit", "pb"} /\ pc' \in {"propagate", "visit", "pb", "conflict", "panic"}
    BY <1>2, PropagationPcs DEF PBPropagate
  <2>3. cutting \/ ret' \notin {"units", "cut"}
    BY <2>1 DEF StatusUnsat
  <2> QED BY <1>1, <2>1, <2>2, <2>3, SilentAnswers
<1>3. CASE Search
  <2>1. pc = "search" /\ ChooseLit(queue, model, polarity, 2) /\ ret # "append"
    BY <1>3 DEF Search, StatusUnsat
  <2> QED BY <1>1, <2>1, ChooseAnswers
<1>4. CASE UnifyLiteral
  <2>1. UNCHANGED <<status, result, ret>> /\ pc = "unify" /\ pc' = "propagate"
    BY <1>4 DEF UnifyLiteral, clientVars
  <2>2. cutting \/ ret' \notin {"units", "cut"}
    BY <2>1 DEF StatusUnsat
  <2> QED BY <1>1, <2>1, <2>2, SilentAnswers
<1>5. CASE ResolveReason
  <2>1. UNCHANGED <<status, result, ret>> /\ pc = "learn" /\ pc' = "learn"
    BY <1>5 DEF ResolveReason, Resolve, ctlVars, clientVars
  <2>2. ret \in {"branch", "cut"} /\ (cutting \/ ret' \notin {"units", "cut"})
    BY <2>1 DEF StatusUnsat
  <2> QED BY <1>1, <2>1, <2>2, SilentAnswers
<1>6. CASE LearnFalse
  <2>1. pc = "learn" /\ status' = "Unsat" /\ pc' = "idle" /\ ret' = "none"
    BY <1>6 DEF LearnFalse, OnlyAssumed, Learnt, SetUnsat
  <2>2. status # "Unsat"
    BY <2>1 DEF StatusUnsat
  <2>3. Solutions = {}
    BY <1>6, <2>1, <2>2, LearnFalseNever DEF Live
  <2> QED BY <1>1, <2>1, <2>3, UnsatAnswers
<1>7. CASE UnitPropagated
  <2>1. pc = "propagate" /\ ChooseLit(OrderHeap(model), model, polarity, 2) /\ ret # "append"
    BY <1>7 DEF UnitPropagated, Propagated
  <2> QED BY <1>1, <2>1, ChooseAnswers
<1>8. CASE UnitConflict
  <2>1. pc = "conflict" /\ ret = "unit" /\ status' = "Unsat" /\ pc' = "idle" /\ ret' = "none"
    BY <1>8 DEF UnitConflict, SetUnsat
  <2>2. status # "Unsat"
    BY <2>1 DEF StatusUnsat
  <2>3. Solutions = {}
    BY <2>1, <2>2, TopConflict DEF Live
  <2> QED BY <1>1, <2>1, <2>3, UnsatAnswers
<1>9. ASSUME NEW u \in AssertingLits, LearnUnit(u) PROVE AnswerStep
  <2>1. UNCHANGED <<status, result>> /\ pc = "learn" /\ pc' = "unify" /\ ret' = "unit"
    BY <1>9 DEF LearnUnit, Learnt, clientVars
  <2>2. status # "Unsat"
    BY <2>1 DEF StatusUnsat
  <2> QED BY <1>1, <2>1, <2>2, SilentAnswers
<1>10. ASSUME NEW u \in AssertingLits, NEW s \in SecondLits(Minimized), LearnClause(u, s)
       PROVE  AnswerStep
  <2>1. UNCHANGED <<status, result, ret>> /\ pc = "learn" /\ pc' = "unify"
    BY <1>10 DEF LearnClause, Learnt, clientVars
  <2>2. cutting \/ ret' \notin {"units", "cut"}
    BY <2>1 DEF StatusUnsat
  <2> QED BY <1>1, <2>1, <2>2, SilentAnswers
<1>11. CASE Restart
  <2>1. /\ UNCHANGED <<status, result>> /\ pc = "propagate" /\ ret = "branch"
        /\ pc' = "search" /\ ret' = "none"
    BY <1>11 DEF Restart, Restarted, Propagated, clientVars
  <2>2. status # "Unsat"
    BY <2>1 DEF StatusUnsat
  <2> QED BY <1>1, <2>1, <2>2, SilentAnswers
<1>12. CASE Branch
  <2>1. pc = "propagate" /\ ret = "branch"
    BY <1>12 DEF Branch, Propagated
  <2>2. \/ ChooseLit(queue, model, polarity, lvl + 1)
        \/ pc' = "panic" /\ UNCHANGED <<status, result, ret>>
    BY <1>12 DEF Branch
  <2>3. status # "Unsat"
    BY <2>1 DEF StatusUnsat
  <2>4. CASE ChooseLit(queue, model, polarity, lvl + 1)
    BY <1>1, <2>1, <2>4, ChooseAnswers
  <2>5. CASE pc' = "panic" /\ UNCHANGED <<status, result, ret>>
    BY <1>1, <2>1, <2>3, <2>5, SilentAnswers
  <2> QED BY <2>2, <2>4, <2>5
<1>13. CASE ~ cutting /\ Conflict
  <2>1. UNCHANGED <<status, result, ret>> /\ pc = "conflict" /\ pc' = "learn" /\ ret = "branch"
    BY <1>13 DEF Conflict, clientVars
  <2> QED BY <1>1, <2>1, SilentAnswers
<1> QED
  BY <1>2, <1>3, <1>4, <1>5, <1>6, <1>7, <1>8, <1>9, <1>10, <1>11, <1>12, <1>13 DEF ClauseStep

\* So it is with what learns constraints, except for the answers of cuttingPlanes
\* and of its units.
LEMMA AnswersCut ==
    ASSUME StatusUnsat, Live => LiveInv,
           \/ LubyRestart \/ CutBranch \/ CutConflict \/ CutTurn \/ CutRound \/ CutEnd
           \/ BindUnit \/ UnitsBound \/ UnitsConflict \/ AppendReturns
    PROVE  AnswerStep
<1>1. UNCHANGED <<cutting, problem>>
  BY DEF LubyRestart, CutBranch, CutConflict, CutTurn, CutRound, CutEnd, LearnPB, SearchKeeps,
         BindKeeps, BindUnit, UnitsBound, UnitsConflict, AppendReturns, pbCtlVars
<1>2. CASE LubyRestart
  <2>1. /\ UNCHANGED <<status, result>> /\ pc = "propagate" /\ ret = "branch"
        /\ pc' = "search" /\ ret' = "none"
    BY <1>2 DEF LubyRestart, Propagated, clientVars
  <2>2. status # "Unsat"
    BY <2>1 DEF StatusUnsat
  <2> QED BY <1>1, <2>1, <2>2, SilentAnswers
<1>3. CASE CutBranch
  <2>1. /\ pc = "propagate" /\ ret # "append"
        /\ ChooseLit(queue, model, polarity, lvl + 1)
    BY <1>3 DEF CutBranch, Propagated
  <2> QED BY <1>1, <2>1, ChooseAnswers
<1>4. CASE CutConflict
  <2>1. /\ UNCHANGED <<status, result, ret>> /\ pc = "conflict" /\ pc' = "cut" /\ cutting
        /\ ret \in {"branch", "cut"}
    BY <1>4 DEF CutConflict, clientVars
  <2> QED BY <1>1, <2>1, SilentAnswers
<1>5. CASE CutTurn
  <2>1. pc = "cut"
    BY <1>5 DEF CutTurn
  <2>2. cutting /\ ret \in {"branch", "cut"}
    BY <2>1 DEF StatusUnsat
  <2>3. CASE AnswerUnsat
    BY <1>1, <2>1, <2>2, <2>3, UnsatAnswers DEF AnswerUnsat
  <2>4. CASE Panic
    <3>1. UNCHANGED <<status, result, ret>> /\ pc' = "panic"
      BY <2>4 DEF Panic
    <3> QED BY <1>1, <2>1, <2>2, <3>1, SilentAnswers
  <2>5. CASE UNCHANGED <<status, result, pc, ret>>
    BY <1>1, <2>1, <2>2, <2>5, SilentAnswers
  <2> QED BY <1>5, <2>3, <2>4, <2>5 DEF CutTurn
<1>6. CASE CutRound
  <2>1. UNCHANGED <<status, result, ret>> /\ pc = "cut" /\ pc' = "learned"
    BY <1>6 DEF CutRound
  <2>2. cutting /\ ret \in {"branch", "cut"}
    BY <2>1 DEF StatusUnsat
  <2> QED BY <1>1, <2>1, <2>2, SilentAnswers
<1>7. CASE CutEnd
  <2>1. pc = "learned"
    BY <1>7 DEF CutEnd
  <2>2. cutting /\ ret \in {"branch", "cut"}
    BY <2>1 DEF StatusUnsat
  <2>3. status # "Unsat"
    BY <2>1, <2>2 DEF StatusUnsat
  <2>4. CASE AnswerUnsat
    BY <1>1, <2>1, <2>2, <2>4, UnsatAnswers DEF AnswerUnsat
  <2>5. CASE Panic
    <3>1. UNCHANGED <<status, result, ret>> /\ pc' = "panic"
      BY <2>5 DEF Panic
    <3> QED BY <1>1, <2>1, <2>2, <3>1, SilentAnswers
  <2>6. ASSUME NEW us, LearnUnits(us) PROVE AnswerStep
    <3>1. UNCHANGED <<status, result>> /\ pc' = "bind" /\ ret' = "units"
      BY <2>6 DEF LearnUnits
    <3> QED BY <1>1, <2>1, <2>2, <2>3, <3>1, SilentAnswers
  <2>7. CASE LearnPB
    <3>1. UNCHANGED <<status, result>> /\ pc' = "unify" /\ ret' = "cut"
      BY <2>7 DEF LearnPB, clientVars
    <3> QED BY <1>1, <2>1, <2>2, <2>3, <3>1, SilentAnswers
  <2> QED BY <1>7, <2>4, <2>5, <2>6, <2>7 DEF CutEnd
<1>8. CASE BindUnit
  <2>1. /\ pc \notin {"idle", "panic", "search"}
        /\ ~ (pc \in {"cut", "learned", "learn"})
    BY <1>8 DEF BindUnit, Propagated
  <2>2. CASE ret = "units" /\ AnswerUnsat
    <3>1. cutting
      BY <2>2 DEF StatusUnsat
    <3> QED BY <1>1, <2>1, <2>2, <3>1, UnsatAnswers DEF AnswerUnsat
  <2>3. CASE UNCHANGED <<status, result, ret>> /\ pc' = "unify"
    <3>1. cutting \/ ret' \notin {"units", "cut"}
      BY <2>3 DEF StatusUnsat
    <3> QED BY <1>1, <2>1, <2>3, <3>1, SilentAnswers
  <2> QED BY <1>8, <2>2, <2>3 DEF BindUnit
<1>9. CASE UnitsBound
  <2>1. pc = "propagate" /\ ret # "append" /\ ChooseLit(OrderHeap(model), model, polarity, 2)
    BY <1>9 DEF UnitsBound, Propagated
  <2> QED BY <1>1, <2>1, ChooseAnswers
<1>10. CASE UnitsConflict
  <2>1. pc = "conflict" /\ ret = "units" /\ AnswerUnsat
    BY <1>10 DEF UnitsConflict
  <2>2. cutting
    BY <2>1 DEF StatusUnsat
  <2> QED BY <1>1, <2>1, <2>2, UnsatAnswers DEF AnswerUnsat
<1>11. CASE AppendReturns
  <2>1. /\ ret \in {"append", "assume"} /\ pc' = "idle" /\ ret' = "none" /\ UNCHANGED result
        /\ \/ pc = "propagate" /\ UNCHANGED status
           \/ pc = "conflict" /\ status' = "Unsat"
    BY <1>11 DEF AppendReturns, CallReturns, Propagated, clientVars
  <2>2. CASE pc = "propagate" /\ UNCHANGED status
    <3>1. Solutions' = Solutions
      BY <1>1 DEF Solutions, Meets
    <3>2. StatusUnsat'
      BY <1>1, <2>1, <2>2, <3>1 DEF StatusUnsat
    <3> QED BY <2>2, <3>1, <3>2 DEF AnswerStep
  <2>3. CASE pc = "conflict" /\ status' = "Unsat"
    <3>1. ~ cutting => Solutions = {}
      <4>1. CASE status = "Unsat"
        BY <4>1 DEF StatusUnsat
      <4>2. CASE status # "Unsat"
        BY <2>1, <2>3, <4>2, TopConflict DEF Live
      <4> QED BY <4>1, <4>2
    <3> QED BY <1>1, <2>1, <2>3, <3>1, UnsatAnswers
  <2> QED BY <2>1, <2>2, <2>3
<1> QED
  BY <1>2, <1>3, <1>4, <1>5, <1>6, <1>7, <1>8, <1>9, <1>10, <1>11

\* The client's calls; there are fewer solutions with one more constraint.
LEMMA AnswersClient ==
    ASSUME StatusUnsat, Live => LiveInv,
           \/ Solve /\ UNCHANGED <<pbVars, cutVars, pbCtlVars>>
           \/ \E b \in Appended : AppendPB(b)
    PROVE  AnswerStep
<1>1. CASE Solve /\ UNCHANGED <<pbVars, cutVars, pbCtlVars>>
  <2>1. /\ pc = "idle" /\ UNCHANGED <<ret, cutting, problem>>
        /\ \/ status = "Unsat" /\ result' = "Unsat" /\ UNCHANGED <<status, pc>>
           \/ status # "Unsat" /\ status' = "Indet" /\ result' = "none" /\ pc' = "search"
    BY <1>1 DEF Solve, pbCtlVars
  <2>2. Solutions' = Solutions
    BY <2>1 DEF Solutions, Meets
  <2>3. StatusUnsat'
    BY <2>1, <2>2 DEF StatusUnsat
  <2> QED BY <2>1, <2>2, <2>3 DEF AnswerStep
<1>2. ASSUME NEW b \in Appended, AppendPB(b) PROVE AnswerStep
  <2>1. /\ pc = "idle" /\ problem' = problem \union {Given(b)} /\ result' = "none" /\ UNCHANGED cutting
        /\ \/ UNCHANGED <<status, pc, ret>>
           \/ status' = "Unsat" /\ UNCHANGED <<pc, ret>>
           \/ pc' = "bind" /\ ret' = "append" /\ UNCHANGED status
    BY <1>2 DEF AppendPB
  <2>2. Solutions' \subseteq Solutions
    BY <2>1 DEF Solutions, Meets
  <2>3. status' = "Unsat" /\ ~ cutting' => Solutions' = {}
    <3> SUFFICES ASSUME status' = "Unsat", ~ cutting', Solutions' # {} PROVE FALSE
      OBVIOUS
    <3>1. status # "Unsat"
      BY <2>1, <2>2 DEF StatusUnsat
    <3>2. LiveInv
      BY <2>1, <2>2, <3>1 DEF Live
    <3>3. AsGiven(b)
      BY PBAssumption
    <3> QED BY <1>2, <3>1, <3>2, <3>3, HopelessAppend
  <2>4. status = "Unsat" => status' = "Unsat"
    BY <2>1
  <2>5. StatusUnsat'
    BY <2>1, <2>3, <2>4 DEF StatusUnsat
  <2> QED BY <2>1, <2>2, <2>4, <2>5 DEF AnswerStep
<1> QED BY <1>1, <1>2

LEMMA Answers ==
    ASSUME PBInv, PBNext
    PROVE  AnswerStep
<1>1. StatusUnsat /\ (Live => LiveInv)
  BY DEF PBInv
<1> QED BY <1>1, AnswersSearch, AnswersCut, AnswersClient DEF PBNext, PBSearchStep

\* The invariant holds from the start.
LEMMA InitPBInv == PBInit => PBInv
<1> SUFFICES ASSUME PBInit PROVE PBInv
  OBVIOUS
<1>1. StatusUnsat
  BY DEF PBInit, StatusUnsat
<1> QED BY <1>1, InitLive DEF PBInv

\* One step keeps what holds as long as there is a solution.
LEMMA StepLive ==
    ASSUME LiveInv, StatusUnsat, Live, Live', PBNext
    PROVE  LiveInv'
<1>1. Solutions # {} /\ status' # "Unsat" /\ pc' # "panic"
  BY DEF Live
<1>2. CASE PBPropagate
  BY <1>1, <1>2, PropagateLive
<1>3. ASSUME ClauseStep PROVE LiveInv'
  <2>1. UNCHANGED <<pbVars, cutVars, pbCtlVars>>
    BY <1>3 DEF ClauseStep
  <2>2. CASE Search
    BY <2>1, <2>2, SearchLive
  <2>3. CASE UnifyLiteral
    BY <1>1, <2>1, <2>3, UnifyLive
  <2>4. CASE ResolveReason
    BY <2>1, <2>4, ResolveLive
  <2>5. CASE LearnFalse
    BY <2>5, LearnFalseNever
  <2>6. CASE UnitPropagated
    BY <2>1, <2>6, TopPropagated DEF UnitPropagated
  <2>7. CASE UnitConflict
    BY <1>1, <2>7 DEF UnitConflict, SetUnsat
  <2>8. ASSUME NEW u \in AssertingLits, LearnUnit(u) PROVE LiveInv'
    BY <2>1, <2>8, LearnUnitLive
  <2>9. ASSUME NEW u \in AssertingLits, NEW s \in SecondLits(Minimized), LearnClause(u, s)
        PROVE  LiveInv'
    <3>1. ret \in {"branch", "cut"}
      BY <2>9 DEF LearnClause, Learnt, StatusUnsat
    <3> QED BY <2>1, <2>9, <3>1, LearnClauseLive
  <2>10. CASE Restart
    BY <2>1, <2>10, RestartLive
  <2>11. CASE Branch
    BY <1>1, <2>1, <2>11, BranchLive
  <2>12. CASE Conflict
    BY <1>1, <2>1, <2>12, ConflictLive
  <2> QED
    BY <1>3, <2>2, <2>3, <2>4, <2>5, <2>6, <2>7, <2>8, <2>9, <2>10, <2>11, <2>12 DEF ClauseStep
<1>4. CASE LubyRestart
  BY <1>4, LubyRestartLive
<1>5. CASE CutBranch
  BY <1>5, CutBranchLive
<1>6. CASE CutConflict
  BY <1>6, CutConflictLive
<1>7. CASE CutTurn
  BY <1>1, <1>7, CutTurnLive
<1>8. CASE CutRound
  BY <1>1, <1>8, CutRoundLive
<1>9. CASE CutEnd
  BY <1>1, <1>9, CutEndLive
<1>10. CASE BindUnit
  BY <1>1, <1>10, BindUnitLive
<1>11. CASE UnitsBound
  BY <1>11, TopPropagated DEF UnitsBound
<1>12. CASE UnitsConflict
  BY <1>1, <1>12 DEF UnitsConflict, AnswerUnsat
<1>13. CASE AppendReturns
  BY <1>1, <1>13, AppendReturnsLive
<1>14. CASE Solve /\ UNCHANGED <<pbVars, cutVars, pbCtlVars>>
  BY <1>14, SolveLive
<1>15. ASSUME NEW b \in Appended, AppendPB(b) PROVE LiveInv'
  <2>1. AsGiven(b)
    BY PBAssumption
  <2> QED BY <1>1, <1>15, <2>1, AppendPBLive
<1> QED
  BY <1>2, <1>3, <1>4, <1>5, <1>6, <1>7, <1>8, <1>9, <1>10, <1>11, <1>12, <1>13, <1>14, <1>15
  DEF PBNext, PBSearchStep

\* Nothing changes in a stuttering step.
LEMMA StutterPB ==
    ASSUME PBInv, UNCHANGED pbSolverVars
    PROVE  PBInv'
<1>1. UNCHANGED <<model, trail, reason, polarity, queue, clauses, watched, wlist, wlistBin, pbs,
                  wlistPb, visiting, pos, ptr, lvl, todoBin, todo, confl, lit, pending, met,
                  metLvl, lits, nbLvl, walk, assumptions, cut, cutPtr, pc, ret, status, result,
                  cutting, problem>>
  BY DEF pbSolverVars, vars, bindingVars, dbVars, propVars, learnVars, ctlVars, clientVars, pbVars,
         cutVars, pbCtlVars
<1>2. Solutions' = Solutions
  BY <1>1 DEF Solutions, Meets
<1>3. StatusUnsat' = StatusUnsat /\ Live' = Live
  BY <1>1, <1>2 DEF StatusUnsat, Live
<1>4. /\ \A v \in Vars : Level(v)' = Level(v)
      /\ \A l : LitStatus(l)' = LitStatus(l)
      /\ \A l : IsFalse(l)' = IsFalse(l)
      /\ ClauseIds' = ClauseIds
  BY <1>1 DEF Level, LitStatus, IsFalse, ClauseIds
<1>5. PBTypeOK => PBTypeOK'
  BY <1>1, <1>4 DEF PBTypeOK, Watchers
<1>6. ASSUME PBTypeOK, BindingsOK, DatabaseOK PROVE BindingsOK'
  <2>1. KeepsAll
    BY <1>1, <1>6, SameDatabase
  <2>2. PICK n \in 0 .. Len(trail) :
          /\ TrailBound(n) /\ ReasonsBound(n)
          /\ pc \in {"cut", "learned"} => n = cutPtr
          /\ pc \notin {"cut", "learned", "bind"} => n = Len(trail)
    BY <1>6 DEF BindingsOK
  <2>3. Bound(n)
    BY <1>6, <2>2 DEF Bound, BindingsOK
  <2>4. TrailBound(n)' /\ FactsFollow' /\ ReasonsHold'
    BY <1>1, <2>1, <2>3, BoundKept
  <2>5. ReasonsBound(n)'
    BY <1>1, <2>2 DEF ReasonsBound
  <2>6. /\ n \in 0 .. Len(trail')
        /\ pc' \in {"cut", "learned"} => n = cutPtr'
        /\ pc' \notin {"cut", "learned", "bind"} => n = Len(trail')
    BY <1>1, <2>2
  <2> QED BY <2>4, <2>5, <2>6 DEF BindingsOK
<1>7. DatabaseOK => DatabaseOK'
  BY <1>1, SameDatabase
<1>8. PBListsInv => PBListsInv'
  BY <1>1 DEF PBListsInv, ClauseIds
<1>9. PBVisitInv => PBVisitInv'
  BY <1>1 DEF PBVisitInv, Enough, Weight, Idx, LitAt, ClauseIds, Level, LitStatus, IsFalse
<1>10. PBLevelsInv => PBLevelsInv'
  BY <1>1 DEF PBLevelsInv, Level
<1>11. PBUnifyInv => PBUnifyInv'
  BY <1>1, <1>2 DEF PBUnifyInv, Follows, ImpliedBy, Enough, Weight, Idx, LitAt, Level, LitStatus,
     IsFalse
<1>12. PBLearnInv => PBLearnInv'
  BY <1>1, <1>2 DEF PBLearnInv, Pending, Resolvent, Level, LitStatus, IsFalse
<1>13. CutInv => CutInv'
  BY <1>1, <1>2 DEF CutInv, MeetsCut, NotContradicted, Level, LitStatus, IsFalse
<1> QED
  BY <1>3, <1>5, <1>6, <1>7, <1>8, <1>9, <1>10, <1>11, <1>12, <1>13 DEF PBInv, LiveInv

LEMMA StepPBInv ==
    ASSUME PBInv, [PBNext]_pbSolverVars
    PROVE  PBInv'
<1>1. CASE PBNext
  <2>1. AnswerStep
    BY <1>1, Answers
  <2>2. Live' => Live
    BY <2>1 DEF AnswerStep, Live
  <2>3. Live' => LiveInv'
    BY <1>1, <2>2, StepLive DEF PBInv
  <2> QED BY <2>1, <2>3 DEF AnswerStep, PBInv
<1>2. CASE UNCHANGED pbSolverVars
  BY <1>2, StutterPB
<1> QED BY <1>1, <1>2

\* While there is a solution, whatever the search holds follows from what was
\* given: clauses and constraints, bindings of the first level, reasons, and what
\* is being learned.
THEOREM PBInvariance == PBSpec => []PBInv
<1>1. PBInit => PBInv
  BY InitPBInv
<1>2. PBInv /\ [PBNext]_pbSolverVars => PBInv'
  BY StepPBInv
<1> QED BY <1>1, <1>2, PTL DEF PBSpec

\* When the solver that learns clauses answers Unsat, nothing satisfies all the
\* constraints it was given.
THEOREM UnsatIsRight == PBSpec => []ClausesUnsatSound
<1>1. PBInv => ClausesUnsatSound
  BY DEF PBInv, StatusUnsat, ClausesUnsatSound, UnsatHasNoSolution
<1> QED BY <1>1, PBInvariance, PTL

\* The constraint that cutting planes compute follows from those given and is
\* false on the trail, as long as there is a solution.
THEOREM CutsFollow == PBSpec => [](Solutions # {} => CutFollows)
<1>1. PBInv => (Solutions # {} => CutFollows)
  <2> SUFFICES ASSUME PBInv, Solutions # {}, pc = "cut" PROVE CutFollows
    BY DEF CutFollows
  <2>1. status # "Unsat"
    BY DEF PBInv, StatusUnsat
  <2>2. CutInv
    BY <2>1 DEF PBInv, Live, LiveInv
  <2> QED BY <2>2 DEF CutFollows, CutInv
<1> QED BY <1>1, PBInvariance, PTL

\* The reason of each literal of the trail implied it when it was bound.
THEOREM ReasonsImplied == PBSpec => [](Live => PBReasonsImply)
<1>1. PBInv => (Live => PBReasonsImply)
  BY DEF PBInv, LiveInv, BindingsOK, ReasonsHold, PBReasonsImply
<1> QED BY <1>1, PBInvariance, PTL

-----------------------------------------------------------------------------
(* No panic.                                                               *)

\* More than k elements: outside of 1 .. k + 1 there are as many as it lacks.
LEMMA EnoughOthers ==
    ASSUME NEW A, IsFiniteSet(A), NEW k \in Nat, Cardinality(A) > k
    PROVE  ~ (Cardinality(A \ (1 .. k + 1)) < Cardinality((1 .. k + 1) \ A))
<1>1. PICK W : W = 1 .. k + 1
  OBVIOUS
<1>2. IsFiniteSet(W) /\ Cardinality(W) = k + 1
  <2>1. 1 \in Int /\ k + 1 \in Int /\ 1 <= k + 1
    OBVIOUS
  <2> QED BY <1>1, <2>1, FS_Interval
<1>3. /\ Cardinality(A \ W) = Cardinality(A) - Cardinality(A \cap W)
      /\ Cardinality(W \ A) = Cardinality(W) - Cardinality(W \cap A)
  BY <1>2, FS_Difference
<1>4. Cardinality(A) \in Nat /\ Cardinality(A \cap W) \in Nat /\ A \cap W = W \cap A
  BY <1>2, FS_CardinalityType, FS_Intersection
<1>5. PICK a, b : a = Cardinality(A) /\ b = Cardinality(A \cap W) /\ a \in Nat /\ b \in Nat
  BY <1>4
<1>6. Cardinality(A \ W) = a - b /\ Cardinality(W \ A) = k + 1 - b /\ a > k
  BY <1>2, <1>3, <1>4, <1>5
<1>7. ~ (a - b < k + 1 - b)
  BY <1>5, <1>6
<1> QED BY <1>1, <1>6, <1>7

\* A constraint with more free literals than its cardinality has enough others
\* to watch: swapFalse does not run past its end.
LEMMA CardNeverPanics ==
    ASSUME LiveInv, VisitCard(Visited)
    PROVE  pc' # "panic"
<1> DEFINE c == Visited
           A == NonFalse(c)
           W == 1 .. pbs[c].card + 1
<1>1. pc = "pb" /\ pos <= Len(visiting) /\ ~ pbs[c].pb
  BY DEF VisitCard, Visiting
<1>2. c \in DOMAIN pbs
  BY <1>1, AtConstraint
<1>3. /\ Idx(c) = 1 .. Len(pbs[c].lits) /\ Len(pbs[c].lits) \in Nat /\ pbs[c].card \in Nat
      /\ A \subseteq Idx(c) /\ IsFiniteSet(A)
  BY <1>2, PbFacts
<1>4. Others(c) = A \ W
  BY <1>3 DEF Others
<1>5. Cardinality(A) > pbs[c].card => ~ (Cardinality(Others(c)) < Cardinality(W \ A))
  <2>1. PICK k : k = pbs[c].card
    OBVIOUS
  <2>2. k \in Nat /\ IsFiniteSet(A)
    BY <1>3, <2>1
  <2> HIDE DEF A
  <2> QED BY <1>4, <2>1, <2>2, EnoughOthers
<1>6. CASE Cardinality(A) > pbs[c].card /\ SwapFalse(c)
  BY <1>1, <1>5, <1>6 DEF SwapFalse, NextConstraint
<1>7. CASE pc' \in {"pb", "conflict"}
  BY <1>7
<1> QED BY <1>1, <1>6, <1>7 DEF VisitCard, NextConstraint, FalsifiedConstraint

\* Cutting planes find a literal to look at before the start of the trail, and
\* learn no constraint whose cardinality is below 1.
LEMMA CutNeverPanics ==
    ASSUME LiveInv, Solutions # {}, CutTurn \/ CutEnd
    PROVE  pc' # "panic"
<1>1. CASE CutTurn
  <2>1. pc = "cut"
    BY <1>1 DEF CutTurn
  <2>2. Falsified # {}
    BY <2>1, FalsifiedAbove
  <2> QED BY <1>1, <2>1, <2>2 DEF CutTurn, AnswerUnsat
<1>2. CASE CutEnd
  <2>1. pc = "learned"
    BY <1>2 DEF CutEnd
  <2>2. cut \in Cuts /\ NotContradicted(cut, {trail[i] : i \in 1 .. cutPtr}) < cut.card
    BY <2>1 DEF LiveInv, PBTypeOK, CutInv, Cuts
  <2>3. NotContradicted(cut, {trail[i] : i \in 1 .. cutPtr}) \in Nat
    BY <2>2, NotContradictedShares
  <2>4. ~ (cut.card < 1)
    BY <2>2, <2>3 DEF Cuts
  <2> QED BY <1>2, <2>1, <2>4 DEF CutEnd, AnswerUnsat, LearnUnits, LearnPB
<1> QED BY <1>1, <1>2

\* No step panics, as long as there is a solution, except perhaps the removal of
\* learned clauses.
THEOREM StepsNeverPanic == PBSpec => [][Live /\ ~ Propagated => PBNoPanic']_pbSolverVars
<1>1. ASSUME PBInv, PBNext, Live, ~ Propagated PROVE PBNoPanic'
  <2>1. LiveInv /\ Solutions # {} /\ pc # "panic"
    BY <1>1 DEF PBInv, Live
  <2>2. CASE PBPropagate
    <3>1. ASSUME StartLit \/ StartConstraints \/ EndConstraints PROVE pc' # "panic"
      BY <3>1 DEF StartLit, StartConstraints, EndConstraints
    <3>2. ASSUME NEW w, VisitBinary(w) PROVE pc' # "panic"
      BY <3>2 DEF VisitBinary, ReturnConflict
    <3>3. ASSUME NEW w, VisitLong(w) PROVE pc' # "panic"
      BY <3>3 DEF VisitLong, ReturnConflict
    <3>4. ASSUME VisitPB(Visited) PROVE pc' # "panic"
      BY <3>4 DEF VisitPB, Visiting, NextConstraint, FalsifiedConstraint, pbVars
    <3> QED BY <2>1, <2>2, <3>1, <3>2, <3>3, <3>4, CardNeverPanics DEF PBPropagate, PBPropagateStep, PBNoPanic
  <2>3. CASE ClauseStep
    <3>1. ~ UnitPropagated /\ ~ Restart /\ ~ Branch
      BY <1>1 DEF UnitPropagated, Restart, Restarted, Branch
    <3>2. CASE Search
      BY <3>2 DEF Search, ChooseLit, PBNoPanic
    <3>3. CASE UnifyLiteral \/ ResolveReason \/ LearnFalse \/ UnitConflict \/ Conflict
      BY <2>1, <3>3 DEF UnifyLiteral, ResolveReason, Resolve, LearnFalse, SetUnsat, UnitConflict,
                        Conflict, PBNoPanic
    <3>4. ASSUME NEW u \in AssertingLits, LearnUnit(u) PROVE PBNoPanic'
      BY <3>4 DEF LearnUnit, PBNoPanic
    <3>5. ASSUME NEW u \in AssertingLits, NEW s \in SecondLits(Minimized), LearnClause(u, s)
          PROVE  PBNoPanic'
      BY <3>5 DEF LearnClause, PBNoPanic
    <3> QED BY <2>3, <3>1, <3>2, <3>3, <3>4, <3>5 DEF ClauseStep
  <2>4. CASE LubyRestart \/ CutBranch \/ UnitsBound
    BY <1>1, <2>4 DEF LubyRestart, CutBranch, UnitsBound
  <2>5. CASE CutConflict \/ CutRound
    BY <2>5 DEF CutConflict, CutRound, PBNoPanic
  <2>6. CASE CutTurn \/ CutEnd
    BY <2>1, <2>6, CutNeverPanics DEF PBNoPanic
  <2>7. CASE BindUnit \/ UnitsConflict
    BY <2>7 DEF BindUnit, UnitsConflict, AnswerUnsat, PBNoPanic
  <2>8. CASE AppendReturns \/ Solve
    BY <2>1, <2>8 DEF AppendReturns, CallReturns, Solve, PBNoPanic
  <2>9. ASSUME NEW b \in Appended, AppendPB(b) PROVE PBNoPanic'
    BY <2>1, <2>9 DEF AppendPB, PBNoPanic
  <2> QED
    BY <1>1, <2>2, <2>3, <2>4, <2>5, <2>6, <2>7, <2>8, <2>9 DEF PBNext, PBSearchStep
<1>2. PBInv /\ [PBNext]_pbSolverVars => [Live /\ ~ Propagated => PBNoPanic']_pbSolverVars
  BY <1>1
<1> QED BY <1>2, PBInvariance, PTL DEF PBSpec
=============================================================================
