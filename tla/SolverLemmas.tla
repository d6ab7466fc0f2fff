---------------------------- MODULE SolverLemmas ----------------------------
(***************************************************************************)
(* Lemmas about the state of the solver that the proofs of its actions     *)
(* share: finite sets of literals, what a binding means, and how the three *)
(* ways of changing the bindings (not at all, by one more literal, by      *)
(* undoing the levels above some level) preserve the invariant; and        *)
(* lemmas about conflict analysis.                                         *)
(***************************************************************************)
EXTENDS SolverInvariant, LitsProofs, SequenceTheorems

-----------------------------------------------------------------------------
(* Finite sets of literals.                                                *)

LEMMA ClausesFinite ==
    ASSUME NEW C \in Clauses
    PROVE  IsFiniteSet(C) /\ Cardinality(C) \in Nat
<1>1. IsFiniteSet(Lits)
  BY FS_Interval, NbVarsAssumption DEF Lits
<1> QED BY <1>1, FS_Subset, FS_CardinalityType DEF Clauses

LEMMA VarsFinite ==
    ASSUME NEW S, S \subseteq Vars
    PROVE  IsFiniteSet(S) /\ Cardinality(S) \in Nat
<1>1. IsFiniteSet(Vars)
  BY FS_Interval, NbVarsAssumption DEF Vars
<1> QED BY <1>1, FS_Subset, FS_CardinalityType

\* A clause of two literals has no others.
LEMMA PairOfTwo ==
    ASSUME NEW C \in Clauses, Cardinality(C) = 2, NEW x \in C, NEW y \in C, x # y
    PROVE  C = {x, y}
<1>1. IsFiniteSet(C)
  BY ClausesFinite
<1>2. IsFiniteSet(C \ {x}) /\ Cardinality(C \ {x}) = 1
  BY <1>1, FS_RemoveElement
<1>3. IsFiniteSet((C \ {x}) \ {y}) /\ Cardinality((C \ {x}) \ {y}) = 0
  BY <1>2, FS_RemoveElement
<1>4. (C \ {x}) \ {y} = {}
  BY <1>3, FS_EmptySet
<1> QED BY <1>4

\* Literals of different variables are as many as their variables.
LEMMA CardinalityVarsOf ==
    ASSUME NEW C \in Clauses, \A k, l \in C : VarOf(k) = VarOf(l) => k = l
    PROVE  Cardinality(VarsOf(C)) = Cardinality(C)
<1> DEFINE f == [l \in C |-> VarOf(l)]
<1>1. f \in Bijection(C, VarsOf(C))
  BY DEF Bijection, Injection, Surjection, VarsOf, IsInjective
<1>2. ExistsBijection(C, VarsOf(C))
  BY <1>1 DEF ExistsBijection
<1> QED BY <1>2, ClausesFinite, FS_Bijection

\* Replacing v by the disjoint set T.
LEMMA CardinalityReplace ==
    ASSUME NEW S, S \subseteq Vars, NEW T, T \subseteq Vars, NEW v \in S, S \cap T = {}
    PROVE  Cardinality((S \ {v}) \union T) = (Cardinality(S) - 1) + Cardinality(T)
<1>1. IsFiniteSet(S \ {v}) /\ Cardinality(S \ {v}) = Cardinality(S) - 1
  BY VarsFinite, FS_RemoveElement
<1>2. IsFiniteSet(T) /\ (S \ {v}) \cap T = {}
  BY VarsFinite
<1>3. Cardinality((S \ {v}) \union T) = Cardinality(S \ {v}) + Cardinality(T)
              - Cardinality((S \ {v}) \cap T)
  BY <1>1, <1>2, FS_Union
<1>4. Cardinality((S \ {v}) \cap T) = 0
  BY <1>2, FS_EmptySet
<1>5. Cardinality(S) \in Nat /\ Cardinality(T) \in Nat
  BY VarsFinite
<1> QED BY <1>1, <1>3, <1>4, <1>5

-----------------------------------------------------------------------------
(* What a binding means.                                                   *)

LEMMA LevelFacts ==
    ASSUME model \in [Vars -> Int], NEW v \in Vars
    PROVE  Level(v) \in Nat /\ (Level(v) = 0 <=> model[v] = 0)
BY DEF Level, Abs

LEMMA StatusFacts ==
    ASSUME model \in [Vars -> Int], NEW l \in Lits
    PROVE  /\ LitStatus(l) = "Indet" <=> model[VarOf(l)] = 0
           /\ LitStatus(l) = "Sat" <=>
                model[VarOf(l)] # 0 /\ (model[VarOf(l)] > 0 <=> IsPositive(l))
           /\ IsFalse(l) <=>
                model[VarOf(l)] # 0 /\ (model[VarOf(l)] > 0 <=> ~ IsPositive(l))
           /\ LitStatus(l) \in {"Indet", "Sat", "Unsat"}
<1>1. VarOf(l) \in Vars /\ IsPositive(l) \in BOOLEAN
  BY LitFacts
<1>2. model[VarOf(l)] \in Int
  BY <1>1
<1> QED BY <1>1, <1>2 DEF LitStatus, IsFalse

\* A literal is true when it is on the trail, false when its negation is.
LEMMA TrailFacts ==
    ASSUME model \in [Vars -> Int], trail \in Seq(Lits), TrailMatchesModel, NEW l \in Lits
    PROVE  /\ LitStatus(l) = "Sat" <=> \E i \in DOMAIN trail : trail[i] = l
           /\ IsFalse(l) <=> \E i \in DOMAIN trail : trail[i] = Negation(l)
           /\ IsFalse(l) <=> LitStatus(Negation(l)) = "Sat"
           /\ model[VarOf(l)] # 0 <=> \E i \in DOMAIN trail : VarOf(trail[i]) = VarOf(l)
<1>1. VarOf(l) \in Vars /\ Negation(l) \in Lits
  BY LitFacts
<1>2. \A i \in DOMAIN trail : trail[i] \in Lits /\ LitStatus(trail[i]) = "Sat"
  BY DEF TrailMatchesModel
<1>3. model[VarOf(l)] # 0 <=> \E i \in DOMAIN trail : VarOf(trail[i]) = VarOf(l)
  BY <1>1 DEF TrailMatchesModel, TrailVars
<1>4. IsFalse(l) <=> LitStatus(Negation(l)) = "Sat"
  BY <1>1, StatusFacts, LitFacts
<1>5. ASSUME NEW k \in Lits
      PROVE  LitStatus(k) = "Sat" <=> \E i \in DOMAIN trail : trail[i] = k
  <2>1. ASSUME LitStatus(k) = "Sat" PROVE \E i \in DOMAIN trail : trail[i] = k
    <3>1. model[VarOf(k)] # 0 /\ VarOf(k) \in Vars
      BY <2>1, StatusFacts, LitFacts
    <3>2. PICK i \in DOMAIN trail : VarOf(trail[i]) = VarOf(k)
      BY <3>1 DEF TrailMatchesModel, TrailVars
    <3>3. trail[i] = k
      BY <1>2, <2>1, <3>2, StatusFacts, SameVar, LitFacts
    <3> QED BY <3>3
  <2> QED BY <1>2, <2>1
<1> QED BY <1>1, <1>3, <1>4, <1>5

\* The invariants about the bindings that the lemmas below carry over a step.
BindingsInv ==
    /\ model \in [Vars -> Int] /\ trail \in Seq(Lits)
    /\ reason \in [Vars -> {Nil} \union ClauseIds]
    /\ polarity \in [Vars -> BOOLEAN]
    /\ TrailMatchesModel /\ ReasonsImply /\ DecisionsFirst

-----------------------------------------------------------------------------
(* Undoing the levels above some level.                                    *)

\* cleanupBindings keeps a prefix of the trail and the bindings of the levels
\* it is asked to keep, no more and no less.
LEMMA CleanFacts ==
    ASSUME BindingsInv, NEW level \in Nat
    PROVE  /\ KeptLen(level) \in 0 .. Len(trail)
           /\ \A i \in 1 .. KeptLen(level) : Level(VarOf(trail[i])) <= level
           /\ \A i \in KeptLen(level) + 1 .. Len(trail) : Level(VarOf(trail[i])) > level
           /\ CleanTrail(level) \in Seq(Lits)
           /\ Len(CleanTrail(level)) = KeptLen(level)
           /\ \A i \in 1 .. KeptLen(level) : CleanTrail(level)[i] = trail[i]
           /\ Dropped(level) = {v \in Vars : Level(v) > level}
           /\ CleanModel(level) = [v \in Vars |-> IF Level(v) > level THEN 0 ELSE model[v]]
           /\ CleanReason(level) = [v \in Vars |-> IF Level(v) > level THEN Nil ELSE reason[v]]
           /\ CleanModel(level) \in [Vars -> Int]
           /\ CleanReason(level) \in [Vars -> {Nil} \union ClauseIds]
           /\ CleanPolarity(level) \in [Vars -> BOOLEAN]
<1> DEFINE n == KeptLen(level)
<1>0. /\ Len(trail) \in Nat /\ DOMAIN trail = 1 .. Len(trail)
      /\ \A i \in DOMAIN trail : trail[i] \in Lits /\ VarOf(trail[i]) \in Vars
      /\ TrailMatchesModel
  BY LitFacts DEF BindingsInv
<1>1. \A i \in DOMAIN trail : Level(VarOf(trail[i])) \in Nat
  BY <1>0, LevelFacts DEF BindingsInv
<1>2. /\ n \in 0 .. Len(trail)
      /\ \A i \in 1 .. n : Level(VarOf(trail[i])) <= level
      /\ \A i \in n + 1 .. Len(trail) : Level(VarOf(trail[i])) > level
  <2>1. CASE Above(level) = {}
    <3>1. n = Len(trail)
      BY <2>1 DEF KeptLen
    <3> HIDE DEF n
    <3> QED BY <1>0, <1>1, <2>1, <3>1 DEF Above
  <2>2. CASE Above(level) # {}
    <3>1. Above(level) \subseteq Nat
      BY <1>0 DEF Above
    <3> DEFINE m == Min(Above(level))
    <3>2. m \in Above(level) /\ \A i \in Above(level) : m <= i
      BY <2>2, <3>1, MinOfNats
    <3>3. m \in 1 .. Len(trail) /\ Level(VarOf(trail[m])) > level
      BY <3>2 DEF Above
    <3>4. n = m - 1
      BY <2>2 DEF KeptLen
    <3> HIDE DEF m, n
    <3>5. ASSUME NEW i \in 1 .. n PROVE Level(VarOf(trail[i])) <= level
      <4>1. i \in 1 .. Len(trail) /\ i < m
        BY <1>0, <3>3, <3>4
      <4>2. i \notin Above(level)
        BY <4>1, <3>2, <3>3
      <4> QED BY <4>1, <4>2, <1>0, <1>1 DEF Above
    <3>6. ASSUME NEW i \in n + 1 .. Len(trail) PROVE Level(VarOf(trail[i])) > level
      <4>1. i \in 1 .. Len(trail) /\ m <= i
        BY <1>0, <3>3, <3>4
      <4>2. Level(VarOf(trail[m])) <= Level(VarOf(trail[i]))
        BY <4>1, <1>0, <3>3 DEF TrailMatchesModel
      <4> QED BY <4>1, <4>2, <1>0, <1>1, <3>3
    <3> QED BY <1>0, <3>3, <3>4, <3>5, <3>6
  <2> QED BY <2>1, <2>2
<1> HIDE DEF n
<1>3. /\ CleanTrail(level) \in Seq(Lits) /\ Len(CleanTrail(level)) = n
      /\ \A i \in 1 .. n : CleanTrail(level)[i] = trail[i]
  <2>1. CleanTrail(level) = SubSeq(trail, 1, n)
    BY DEF CleanTrail, n
  <2>2. n \in Int /\ \A i \in 1 .. n : trail[i] \in Lits
    BY <1>0, <1>2
  <2> QED BY <2>1, <2>2, <1>2, SubSeqProperties
<1>4. Dropped(level) = {v \in Vars : Level(v) > level}
  <2>1. Dropped(level) = {VarOf(trail[i]) : i \in n + 1 .. Len(trail)}
    BY DEF Dropped, n
  <2>2. ASSUME NEW v \in Vars, Level(v) > level PROVE v \in Dropped(level)
    <3>1. model[v] # 0
      BY <2>2, LevelFacts DEF BindingsInv
    <3>2. PICK i \in DOMAIN trail : VarOf(trail[i]) = v
      BY <1>0, <3>1 DEF TrailMatchesModel, TrailVars
    <3>3. ~ (i \in 1 .. n)
      BY <3>2, <1>2, <2>2, <1>1
    <3> QED BY <2>1, <3>2, <3>3, <1>0, <1>2
  <2> QED BY <2>1, <2>2, <1>0, <1>2
<1>5. \A v \in Vars : v \in Dropped(level) <=> Level(v) > level
  BY <1>4
<1>6. /\ CleanModel(level) = [v \in Vars |-> IF Level(v) > level THEN 0 ELSE model[v]]
      /\ CleanReason(level) = [v \in Vars |-> IF Level(v) > level THEN Nil ELSE reason[v]]
  BY <1>5 DEF CleanModel, CleanReason
<1>7. CleanPolarity(level) \in [Vars -> BOOLEAN]
  <2>1. \A v \in Vars : (SignedLit(v, FALSE) \in Range(trail)) \in BOOLEAN
    OBVIOUS
  <2>2. polarity \in [Vars -> BOOLEAN]
    BY DEF BindingsInv
  <2>3. \A v \in Vars :
          (IF v \in Dropped(level) THEN SignedLit(v, FALSE) \in Range(trail) ELSE polarity[v])
            \in BOOLEAN
    BY <2>1, <2>2, Zenon
  <2> QED BY <2>3, Zenon DEF CleanPolarity
<1>8. /\ CleanModel(level) \in [Vars -> Int]
      /\ CleanReason(level) \in [Vars -> {Nil} \union ClauseIds]
  BY <1>6 DEF BindingsInv
<1> QED BY <1>2, <1>3, <1>4, <1>6, <1>7, <1>8 DEF n

\* A step that undoes the levels above some level, and keeps the reasons and
\* the clauses that stay.
Undoes(level) ==
    /\ trail' = CleanTrail(level) /\ model' = CleanModel(level)
    /\ \A v \in Vars : model[v] # 0 /\ Level(v) <= level => reason'[v] = reason[v]
    /\ \A c \in ClauseIds : clauses'[c] = clauses[c]

\* Undoing levels preserves the invariants of the bindings.
LEMMA BindingsCleaned ==
    ASSUME BindingsInv, FactsEntailed, NEW level \in Nat \ {0}, Undoes(level),
           Question \subseteq Question'
    PROVE  TrailMatchesModel' /\ ReasonsImply' /\ DecisionsFirst' /\ FactsEntailed'
<1> DEFINE n == KeptLen(level)
<1>0. /\ level \in Nat
      /\ \A v \in Vars : model[v] # 0 /\ Level(v) <= level => reason'[v] = reason[v]
      /\ \A c \in ClauseIds : clauses'[c] = clauses[c]
  BY DEF Undoes
<1>1. /\ n \in 0 .. Len(trail) /\ Len(trail) \in Nat
      /\ trail \in Seq(Lits) /\ trail' \in Seq(Lits) /\ Len(trail') = n
      /\ DOMAIN trail = 1 .. Len(trail) /\ DOMAIN trail' = 1 .. n
      /\ \A i \in 1 .. n : trail'[i] = trail[i] /\ i \in DOMAIN trail
      /\ \A i \in DOMAIN trail : trail[i] \in Lits /\ VarOf(trail[i]) \in Vars
  <2>1. /\ n \in 0 .. Len(trail) /\ CleanTrail(level) \in Seq(Lits)
        /\ Len(CleanTrail(level)) = n
        /\ \A i \in 1 .. n : CleanTrail(level)[i] = trail[i]
    BY <1>0, CleanFacts
  <2>2. trail' = CleanTrail(level)
    BY DEF Undoes
  <2>3. trail \in Seq(Lits)
    BY DEF BindingsInv
  <2> HIDE DEF n
  <2> QED BY <2>1, <2>2, <2>3, LitFacts
<1>2. /\ \A v \in Vars : Level(v) \in Nat
      /\ \A v \in Vars : Level(v) = 0 <=> model[v] = 0
  BY LevelFacts DEF BindingsInv
<1>3. \A v \in Vars : model'[v] = IF Level(v) > level THEN 0 ELSE model[v]
  <2>1. model' = [v \in Vars |-> IF Level(v) > level THEN 0 ELSE model[v]]
    BY <1>0, CleanFacts DEF Undoes
  <2> QED BY <2>1
<1>4. \A v \in Vars : Level(v)' = IF Level(v) > level THEN 0 ELSE Level(v)
  BY <1>3 DEF Level, Abs
<1>5. \A i \in 1 .. n :
        /\ Level(VarOf(trail[i])) <= level /\ Level(VarOf(trail[i]))' = Level(VarOf(trail[i]))
        /\ model'[VarOf(trail[i])] = model[VarOf(trail[i])]
        /\ reason'[VarOf(trail[i])] = reason[VarOf(trail[i])]
  <2>1. \A i \in 1 .. n : Level(VarOf(trail[i])) <= level
    BY <1>0, CleanFacts
  <2>2. \A i \in 1 .. n : model[VarOf(trail[i])] # 0
    BY <1>1, TrailFacts DEF BindingsInv
  <2> QED BY <1>0, <1>1, <1>2, <1>3, <1>4, <2>1, <2>2
<1>6. \A i \in n + 1 .. Len(trail) : Level(VarOf(trail[i])) > level
  BY <1>0, CleanFacts
<1>7. \A v \in Vars : model'[v] # 0 <=> \E i \in 1 .. n : VarOf(trail[i]) = v
  <2>1. ASSUME NEW v \in Vars, model'[v] # 0 PROVE \E i \in 1 .. n : VarOf(trail[i]) = v
    <3>1. model[v] # 0 /\ ~ (Level(v) > level)
      BY <1>3, <2>1
    <3>2. PICK i \in DOMAIN trail : VarOf(trail[i]) = v
      BY <3>1 DEF BindingsInv, TrailMatchesModel, TrailVars
    <3> QED BY <3>1, <3>2, <1>1, <1>6
  <2>2. ASSUME NEW i \in 1 .. n PROVE model'[VarOf(trail[i])] # 0
    BY <1>1, <1>5, TrailFacts DEF BindingsInv
  <2> QED BY <2>1, <2>2, <1>1
<1> HIDE DEF n
<1>8. TrailMatchesModel'
  <2>1. \A i \in 1 .. n : LitStatus(trail[i])' = LitStatus(trail[i])
    BY <1>1, <1>5 DEF LitStatus
  <2> QED BY <1>1, <1>5, <1>7, <2>1 DEF BindingsInv, TrailMatchesModel, TrailVars
<1>9. ReasonsImply'
  <2> SUFFICES ASSUME NEW i \in 1 .. n, reason[VarOf(trail[i])] # Nil
               PROVE  LET r == reason[VarOf(trail[i])] IN
                        /\ trail[i] \in clauses'[r]
                        /\ \A l \in clauses'[r] \ {trail[i]} :
                              \E j \in 1 .. i - 1 : trail'[j] = Negation(l)
    BY <1>1, <1>5 DEF ReasonsImply
  <2>1. clauses'[reason[VarOf(trail[i])]] = clauses[reason[VarOf(trail[i])]]
    BY <1>0, <1>1 DEF BindingsInv
  <2>2. \A j \in 1 .. i - 1 : trail'[j] = trail[j]
    BY <1>1
  <2>3. LET r == reason[VarOf(trail[i])] IN
          /\ trail[i] \in clauses[r]
          /\ \A l \in clauses[r] \ {trail[i]} :
                \E j \in 1 .. i - 1 : trail[j] = Negation(l)
    BY <1>1 DEF BindingsInv, ReasonsImply
  <2> QED BY <2>1, <2>2, <2>3
<1>10. DecisionsFirst'
  BY <1>1, <1>5 DEF BindingsInv, DecisionsFirst
<1>11. FactsEntailed'
  <2> SUFFICES ASSUME NEW i \in 1 .. n, Level(VarOf(trail[i])) = 1
               PROVE  Entails(Question', {trail[i]})
    BY <1>1, <1>5 DEF FactsEntailed
  <2> QED BY <1>1, EntailsWeaken DEF FactsEntailed
<1> QED BY <1>8, <1>9, <1>10, <1>11

-----------------------------------------------------------------------------
(* Binding one more literal.                                               *)

\* A step that binds l at the current level, because of clause r or of none.
Binds(l, r) ==
    /\ trail' = Append(trail, l)
    /\ model' = [model EXCEPT ![VarOf(l)] = LvlToSignedLvl(l, lvl)]
    /\ reason' = [reason EXCEPT ![VarOf(l)] = r]
    /\ clauses' = clauses /\ formula' = formula /\ assumed' = assumed

\* What makes it right: l is the last literal of r, or a decision, or a fact.
Justified(l, r) ==
    /\ r # Nil => /\ l \in clauses[r] /\ clauses[r] \in Clauses
                  /\ \A k \in clauses[r] \ {l} : IsFalse(k)
    /\ r = Nil /\ lvl > 1 => \A v \in Vars : Level(v) < lvl
    /\ r = Nil /\ lvl = 1 => Entails(Question, {l})

\* Such a step preserves the invariants of the bindings.
LEMMA BindingsExtended ==
    ASSUME BindingsInv, FactsEntailed, ClausesEntailed,
           NEW l \in Lits, NEW r \in {Nil} \union ClauseIds,
           model[VarOf(l)] = 0, lvl \in Nat \ {0}, \A v \in Vars : Level(v) <= lvl,
           Justified(l, r), Binds(l, r)
    PROVE  /\ TrailMatchesModel' /\ ReasonsImply' /\ DecisionsFirst' /\ FactsEntailed'
           /\ \A v \in Vars : Level(v)' = IF v = VarOf(l) THEN lvl ELSE Level(v)
<1> DEFINE n == Len(trail)
           u == VarOf(l)
<1>1. /\ n \in Nat /\ trail \in Seq(Lits) /\ trail' \in Seq(Lits) /\ Len(trail') = n + 1
      /\ DOMAIN trail = 1 .. n /\ DOMAIN trail' = 1 .. n + 1
      /\ \A i \in 1 .. n : trail'[i] = trail[i]
      /\ trail'[n + 1] = l
      /\ \A i \in 1 .. n : trail[i] \in Lits /\ VarOf(trail[i]) \in Vars
      /\ u \in Vars
  BY LitFacts, AppendProperties DEF BindingsInv, Binds
<1>2. \A i \in 1 .. n : model[VarOf(trail[i])] # 0 /\ VarOf(trail[i]) # u
  BY <1>1, TrailFacts DEF BindingsInv
<1>3. \A v \in Vars : model'[v] = IF v = u THEN LvlToSignedLvl(l, lvl) ELSE model[v]
  BY <1>1 DEF BindingsInv, Binds
<1>4. \A v \in Vars : Level(v) \in Nat /\ Level(v)' = IF v = u THEN lvl ELSE Level(v)
  BY <1>3, LevelFacts DEF Level, Abs, LvlToSignedLvl, BindingsInv
<1>5. /\ \A v \in Vars : reason'[v] = IF v = u THEN r ELSE reason[v]
      /\ clauses' = clauses /\ formula' = formula /\ assumed' = assumed
  BY <1>1 DEF BindingsInv, Binds
<1> HIDE DEF n, u
<1>6. TrailMatchesModel'
  <2>1. \A i, j \in 1 .. n + 1 : VarOf(trail'[i]) = VarOf(trail'[j]) => i = j
    <3>1. \A i, j \in 1 .. n : VarOf(trail[i]) = VarOf(trail[j]) => i = j
      BY <1>1 DEF BindingsInv, TrailMatchesModel
    <3>2. VarOf(trail'[n + 1]) = u
      BY <1>1 DEF u
    <3> QED BY <1>1, <1>2, <3>1, <3>2
  <2>2. \A i \in 1 .. n + 1 : LitStatus(trail[i])' = "Sat"
    <3>1. \A i \in 1 .. n : LitStatus(trail[i])' = LitStatus(trail[i])
      BY <1>1, <1>2, <1>3 DEF LitStatus
    <3>2. LitStatus(l)' = "Sat"
      BY <1>1, <1>3, LitFacts DEF LitStatus, LvlToSignedLvl, u
    <3>3. \A i \in 1 .. n : LitStatus(trail[i]) = "Sat"
      BY <1>1 DEF BindingsInv, TrailMatchesModel
    <3>4. \A i \in 1 .. n : LitStatus(trail[i])' = "Sat"
      BY <3>1, <3>3
    <3>5. \A i \in 1 .. n + 1 : i = n + 1 => LitStatus(trail[i])' = "Sat"
      BY <1>1, <3>2 DEF LitStatus
    <3>6. \A i \in 1 .. n + 1 : i \in 1 .. n \/ i = n + 1
      BY <1>1
    <3> QED BY <3>4, <3>5, <3>6
  <2>3. \A v \in Vars : model'[v] # 0 <=> \E i \in 1 .. n + 1 : VarOf(trail'[i]) = v
    <3>1. model'[u] # 0
      BY <1>1, <1>3 DEF LvlToSignedLvl
    <3>2. \A v \in Vars : model[v] # 0 <=> \E i \in 1 .. n : VarOf(trail[i]) = v
      BY <1>1 DEF BindingsInv, TrailMatchesModel, TrailVars
    <3>3. VarOf(trail'[n + 1]) = u
      BY <1>1 DEF u
    <3> QED BY <1>1, <1>3, <3>1, <3>2, <3>3
  <2>4. \A i, j \in 1 .. n + 1 :
          i <= j => Level(VarOf(trail[i]))' <= Level(VarOf(trail[j]))'
    <3>1. \A i, j \in 1 .. n : i <= j => Level(VarOf(trail[i])) <= Level(VarOf(trail[j]))
      BY <1>1 DEF BindingsInv, TrailMatchesModel
    <3>2. VarOf(trail'[n + 1]) = u
      BY <1>1 DEF u
    <3>3. \A i, j \in 1 .. n :
             i <= j => Level(VarOf(trail[i]))' <= Level(VarOf(trail[j]))'
      BY <1>1, <1>2, <1>4, <3>1
    <3>4. \A i \in 1 .. n : Level(VarOf(trail[i]))' <= lvl
      BY <1>1, <1>2, <1>4
    <3>5. \A i \in 1 .. n + 1 : i = n + 1 => Level(VarOf(trail[i]))' = lvl
      BY <1>1, <1>4, <3>2
    <3>6. \A i, j \in 1 .. n + 1 :
             i <= j => (i \in 1 .. n /\ j \in 1 .. n) \/ (i \in 1 .. n /\ j = n + 1)
                       \/ (i = n + 1 /\ j = n + 1)
      BY <1>1
    <3>7. lvl \in Nat /\ lvl <= lvl
      OBVIOUS
    <3> QED BY <3>3, <3>4, <3>5, <3>6, <3>7
  <2> QED BY <1>1, <2>1, <2>2, <2>3, <2>4 DEF TrailMatchesModel, TrailVars
<1>7. ReasonsImply'
  <2>1. ASSUME NEW i \in 1 .. n, reason'[VarOf(trail'[i])] # Nil
        PROVE  LET q == reason'[VarOf(trail'[i])] IN
                 /\ trail'[i] \in clauses[q]
                 /\ \A k \in clauses[q] \ {trail'[i]} :
                       \E j \in 1 .. i - 1 : trail'[j] = Negation(k)
    <3>1. trail'[i] = trail[i] /\ reason'[VarOf(trail'[i])] = reason[VarOf(trail[i])]
      BY <1>1, <1>2, <1>5
    <3>2. \A j \in 1 .. i - 1 : trail'[j] = trail[j]
      BY <1>1
    <3>3. LET q == reason[VarOf(trail[i])] IN
            q # Nil =>
              /\ trail[i] \in clauses[q]
              /\ \A k \in clauses[q] \ {trail[i]} :
                    \E j \in 1 .. i - 1 : trail[j] = Negation(k)
      BY <1>1 DEF BindingsInv, ReasonsImply
    <3> QED BY <2>1, <3>1, <3>2, <3>3
  <2>2. ASSUME r # Nil
        PROVE  /\ l \in clauses[r]
               /\ \A k \in clauses[r] \ {l} :
                     \E j \in 1 .. n : trail'[j] = Negation(k)
    <3>1. ASSUME NEW k \in clauses[r] \ {l} PROVE \E j \in 1 .. n : trail[j] = Negation(k)
      BY <1>1, <2>2, TrailFacts DEF BindingsInv, Clauses, Justified
    <3> QED BY <1>1, <2>2, <3>1 DEF Justified
  <2>3. reason'[VarOf(trail'[n + 1])] = r
    BY <1>1, <1>5 DEF u
  <2>4. (n + 1) - 1 = n
    BY <1>1
  <2>5. ASSUME NEW i \in 1 .. n + 1, reason'[VarOf(trail'[i])] # Nil
        PROVE  LET q == reason'[VarOf(trail'[i])] IN
                 /\ trail'[i] \in clauses[q]
                 /\ \A k \in clauses[q] \ {trail'[i]} :
                       \E j \in 1 .. i - 1 : trail'[j] = Negation(k)
    <3>1. CASE i \in 1 .. n
      BY <2>1, <2>5, <3>1
    <3>2. CASE i = n + 1
      BY <1>1, <2>2, <2>3, <2>4, <2>5, <3>2
    <3> QED BY <1>1, <3>1, <3>2
  <2> QED BY <1>1, <1>5, <2>5 DEF ReasonsImply
<1>8. DecisionsFirst'
  <2> SUFFICES ASSUME NEW i \in 1 .. n + 1, NEW j \in 1 .. n + 1,
                      Level(VarOf(trail[i]))' > 1, reason'[VarOf(trail'[i])] = Nil, j < i
               PROVE  Level(VarOf(trail[j]))' < Level(VarOf(trail[i]))'
    BY <1>1 DEF DecisionsFirst
  <2>1. j \in 1 .. n /\ Level(VarOf(trail[j]))' = Level(VarOf(trail[j]))
    BY <1>1, <1>2, <1>4
  <2>2. CASE i \in 1 .. n
    <3>1. Level(VarOf(trail[i])) > 1 /\ reason[VarOf(trail[i])] = Nil =>
            Level(VarOf(trail[j])) < Level(VarOf(trail[i]))
      BY <1>1, <2>1, <2>2 DEF BindingsInv, DecisionsFirst
    <3>2. /\ Level(VarOf(trail[i]))' = Level(VarOf(trail[i]))
          /\ reason'[VarOf(trail'[i])] = reason[VarOf(trail[i])]
      BY <1>1, <1>2, <1>4, <1>5, <2>2
    <3> QED BY <2>1, <3>1, <3>2
  <2>3. CASE i = n + 1
    BY <1>1, <1>4, <1>5, <2>1, <2>3 DEF u, Justified
  <2> QED BY <2>2, <2>3, <1>1
<1>9. FactsEntailed'
  <2> SUFFICES ASSUME NEW i \in 1 .. n + 1, Level(VarOf(trail[i]))' = 1
               PROVE  Entails(Question, {trail'[i]})
    BY <1>1, <1>5 DEF FactsEntailed, Question
  <2>1. CASE i \in 1 .. n
    BY <1>1, <1>2, <1>4, <2>1 DEF FactsEntailed
  <2>2. CASE i = n + 1
    <3>1. lvl = 1
      BY <1>1, <1>4, <2>2 DEF u
    <3>2. CASE r # Nil
      <4>1. Entails(Question, clauses[r])
        BY <3>2, EntailsWeaken DEF ClausesEntailed, Question
      <4>2. ASSUME NEW k \in clauses[r] \ {l} PROVE Entails(Question, {Negation(k)})
        <5>1. k \in Lits /\ IsFalse(k) /\ VarOf(k) \in Vars
          BY <3>2, LitFacts DEF Clauses, Justified
        <5>2. PICK j \in 1 .. n : trail[j] = Negation(k)
          BY <1>1, <5>1, TrailFacts DEF BindingsInv
        <5>3. VarOf(trail[j]) = VarOf(k) /\ model[VarOf(k)] # 0
          BY <5>1, <5>2, LitFacts, <1>2
        <5>4. Level(VarOf(trail[j])) = 1
          BY <3>1, <5>1, <5>3, LevelFacts, <1>4 DEF BindingsInv
        <5> QED BY <1>1, <5>2, <5>4 DEF FactsEntailed
      <4>3. Entails(Question, {l})
        BY <3>2, <4>1, <4>2, EntailsUnit DEF Justified
      <4> QED BY <4>3, <2>2, <1>1
    <3>3. CASE r = Nil
      BY <1>1, <2>2, <3>1, <3>3 DEF Justified
    <3> QED BY <3>2, <3>3
  <2> QED BY <2>1, <2>2, <1>1
<1> QED BY <1>4, <1>6, <1>7, <1>8, <1>9 DEF u

-----------------------------------------------------------------------------
(* Steps that do not touch the bindings.                                   *)

LEMMA BindingsKept ==
    ASSUME BindingsInv, FactsEntailed, ClausesEntailed,
           UNCHANGED <<model, trail, reason, clauses, formula, assumed>>
    PROVE  /\ TrailMatchesModel' /\ ReasonsImply' /\ DecisionsFirst'
           /\ FactsEntailed' /\ ClausesEntailed'
<1>1. \A v \in Vars : Level(v)' = Level(v)
  BY DEF Level
<1>2. TrailMatchesModel'
  <2>1. /\ \A i \in DOMAIN trail : LitStatus(trail[i])' = LitStatus(trail[i])
        /\ TrailVars' = TrailVars
        /\ \A i \in DOMAIN trail : Level(VarOf(trail[i]))' = Level(VarOf(trail[i]))
    BY DEF LitStatus, TrailVars, Level
  <2> QED BY <2>1 DEF BindingsInv, TrailMatchesModel
<1>3. ReasonsImply'
  BY DEF BindingsInv, ReasonsImply
<1>4. DecisionsFirst'
  <2>1. \A i \in DOMAIN trail : Level(VarOf(trail[i]))' = Level(VarOf(trail[i]))
    BY DEF Level
  <2> QED BY <2>1 DEF BindingsInv, DecisionsFirst
<1>5. FactsEntailed' /\ ClausesEntailed'
  <2>1. \A i \in DOMAIN trail : Level(VarOf(trail[i]))' = Level(VarOf(trail[i]))
    BY DEF Level
  <2>2. Question' = Question /\ ClauseIds' = ClauseIds
    BY DEF Question, ClauseIds
  <2> QED BY <2>1, <2>2 DEF FactsEntailed, ClausesEntailed
<1> QED BY <1>2, <1>3, <1>4, <1>5

-----------------------------------------------------------------------------
(* Conflicts with facts only.                                              *)

\* When every literal of a clause is false because of facts, the question has
\* no model.
LEMMA FactsRefute ==
    ASSUME BindingsInv, FactsEntailed, NEW C \in Clauses, Entails(Question, C),
           \A l \in C : IsFalse(l) /\ Level(VarOf(l)) = 1
    PROVE  ~ Satisfiable(Question)
<1>1. ASSUME NEW l \in C PROVE Entails(Question, {Negation(l)})
  <2>1. l \in Lits /\ VarOf(Negation(l)) = VarOf(l)
    BY LitFacts DEF Clauses
  <2>2. PICK i \in DOMAIN trail : trail[i] = Negation(l)
    BY <2>1, TrailFacts DEF BindingsInv
  <2> QED BY <2>1, <2>2 DEF FactsEntailed
<1> QED BY <1>1, EntailsFalse

-----------------------------------------------------------------------------
(* Conflict analysis: what learnClause builds follows from the clauses of  *)
(* the client, including after minimizeLearned.                            *)

\* What the proofs below use of the invariant.
AnalysisInv ==
    /\ TypeOK /\ TrailMatchesModel /\ ReasonsImply /\ DecisionsFirst
    /\ ClausesEntailed /\ FactsEntailed /\ LearnInv

LEMMA AnalysisFacts ==
    ASSUME AnalysisInv, pc = "learn"
    PROVE  /\ BindingsInv
           /\ Len(trail) \in Nat /\ DOMAIN trail = 1 .. Len(trail)
           /\ \A i \in 1 .. Len(trail) : trail[i] \in Lits /\ VarOf(trail[i]) \in Vars
           /\ \A i \in 1 .. Len(trail) : Negation(trail[i]) \in Lits
           /\ \A i \in 1 .. Len(trail) : VarOf(Negation(trail[i])) = VarOf(trail[i])
           /\ \A i \in 1 .. Len(trail) : IsFalse(Negation(trail[i]))
           /\ \A i, j \in 1 .. Len(trail) : VarOf(trail[i]) = VarOf(trail[j]) => i = j
           /\ \A v \in Vars : Level(v) \in Nat /\ (Level(v) = 0 <=> model[v] = 0)
           /\ walk \in 0 .. Len(trail)
           /\ lvl \in Nat \ {0} /\ lits \subseteq Lits
           /\ met \subseteq Vars /\ metLvl \subseteq met
<1>1. BindingsInv
  BY DEF AnalysisInv, BindingsInv, TypeOK
<1>2. /\ trail \in Seq(Lits) /\ lvl \in Nat \ {0} /\ lits \subseteq Lits
      /\ met \subseteq Vars /\ model \in [Vars -> Int]
  BY DEF AnalysisInv, TypeOK, Clauses
<1>3. /\ Len(trail) \in Nat /\ DOMAIN trail = 1 .. Len(trail)
      /\ \A i \in 1 .. Len(trail) : trail[i] \in Lits
  BY <1>2
<1>4. \A i \in 1 .. Len(trail) : IsFalse(Negation(trail[i]))
  <2> SUFFICES ASSUME NEW i \in 1 .. Len(trail) PROVE IsFalse(Negation(trail[i]))
    OBVIOUS
  <2>1. Negation(trail[i]) \in Lits /\ Negation(Negation(trail[i])) = trail[i]
    BY <1>3, LitFacts
  <2> QED BY <1>1, <1>2, <1>3, <2>1, TrailFacts DEF BindingsInv
<1>5. \A i, j \in 1 .. Len(trail) : VarOf(trail[i]) = VarOf(trail[j]) => i = j
  BY <1>3 DEF AnalysisInv, TrailMatchesModel
<1>6. walk \in 0 .. Len(trail) /\ metLvl \subseteq met
  BY DEF AnalysisInv, LearnInv
<1>7. \A v \in Vars : Level(v) \in Nat /\ (Level(v) = 0 <=> model[v] = 0)
  BY <1>2, LevelFacts
<1>8. \A i \in 1 .. Len(trail) :
        /\ VarOf(trail[i]) \in Vars /\ Negation(trail[i]) \in Lits
        /\ VarOf(Negation(trail[i])) = VarOf(trail[i])
  BY <1>3, LitFacts
<1> QED BY <1>1, <1>2, <1>3, <1>4, <1>5, <1>6, <1>7, <1>8

\* The resolvent is a clause whose literals are false at the current level or
\* below.
LEMMA ResolventFacts ==
    ASSUME AnalysisInv, pc = "learn"
    PROVE  /\ Resolvent \in Clauses
           /\ \A l \in Resolvent : IsFalse(l) /\ Level(VarOf(l)) <= lvl
           /\ Entails(Premises, Resolvent)
<1>1. \A l \in lits : IsFalse(l) /\ Level(VarOf(l)) < lvl
  BY DEF AnalysisInv, LearnInv
<1>2. \A v \in metLvl : Level(v) = lvl
  BY DEF AnalysisInv, LearnInv
<1>3. Entails(Premises, Resolvent)
  BY DEF AnalysisInv, LearnInv
<1>4. ASSUME NEW i \in {j \in 1 .. walk : VarOf(trail[j]) \in metLvl}
      PROVE  /\ Negation(trail[i]) \in Lits /\ IsFalse(Negation(trail[i]))
             /\ Level(VarOf(Negation(trail[i]))) = lvl
  <2>1. i \in 1 .. Len(trail)
    BY AnalysisFacts
  <2> QED BY <2>1, <1>2, AnalysisFacts
<1>5. \A l \in lits : l \in Lits /\ VarOf(l) \in Vars
  BY AnalysisFacts, LitFacts
<1> QED BY <1>1, <1>3, <1>4, <1>5, AnalysisFacts DEF Resolvent, Clauses

\* At level 1 a conflict refutes the question.
LEMMA LearnTop ==
    ASSUME AnalysisInv, pc = "learn", lvl = 1
    PROVE  ~ Satisfiable(Question)
<1>1. Entails(Question, Resolvent) /\ Resolvent \in Clauses
  BY ResolventFacts DEF Premises
<1>2. ASSUME NEW l \in Resolvent PROVE IsFalse(l) /\ Level(VarOf(l)) = 1
  <2>1. l \in Lits /\ VarOf(l) \in Vars
    BY <1>1, LitFacts DEF Clauses
  <2>2. IsFalse(l) /\ Level(VarOf(l)) <= 1
    BY ResolventFacts
  <2>3. model[VarOf(l)] # 0
    BY <2>1, <2>2, StatusFacts, AnalysisFacts DEF BindingsInv
  <2> QED BY <2>1, <2>2, <2>3, AnalysisFacts
<1> QED BY <1>1, <1>2, AnalysisFacts, FactsRefute DEF AnalysisInv

\* When one variable of the current level is left, the asserting literal is
\* the negation of its literal on the trail.
LEMMA AssertingFacts ==
    ASSUME AnalysisInv, Learnt, NEW u \in AssertingLits
    PROVE  /\ u \in Lits /\ IsFalse(u) /\ Level(VarOf(u)) = lvl
           /\ Resolvent = lits \union {u}
<1> DEFINE I == {i \in 1 .. Len(trail) : VarOf(trail[i]) \in metLvl}
           J == {i \in 1 .. walk : VarOf(trail[i]) \in metLvl}
<1>0. pc = "learn"
  BY DEF Learnt
<1>1. PICK v : Pending = {v}
  <2>1. Pending \subseteq Vars
    BY <1>0, AnalysisFacts DEF Pending
  <2>2. IsFiniteSet(Pending) /\ Cardinality(Pending) \in Nat
    BY <2>1, VarsFinite
  <2>3. Cardinality(Pending) = 1
    BY <1>0, <2>2 DEF AnalysisInv, LearnInv, Learnt
  <2> QED BY <2>2, <2>3, FS_Singleton
<1>2. PICK i \in 1 .. walk : VarOf(trail[i]) = v /\ v \in metLvl
  BY <1>1 DEF Pending
<1>3. walk \in 0 .. Len(trail) /\ Len(trail) \in Nat
  BY <1>0, AnalysisFacts
<1>4. J = {i}
  <2>1. ASSUME NEW j \in J PROVE j = i
    <3>1. VarOf(trail[j]) \in Pending
      BY DEF Pending
    <3>2. j \in 1 .. Len(trail) /\ i \in 1 .. Len(trail)
      BY <1>3
    <3> QED BY <1>0, <1>1, <1>2, <3>1, <3>2, AnalysisFacts
  <2> QED BY <1>2, <2>1
<1>5. i \in I /\ I \subseteq Nat /\ I # {} /\ J \subseteq I
  BY <1>2, <1>3
<1>6. \A j \in I : i <= j
  <2> SUFFICES ASSUME NEW j \in I, j < i PROVE FALSE
    BY <1>3
  <2>1. j \in J
    BY <1>3
  <2> QED BY <2>1, <1>4, <1>3
<1>7. Min(I) = i
  <2> HIDE DEF I, J
  <2>1. Min(I) \in I /\ \A j \in I : Min(I) <= j
    BY <1>5, MinOfNats
  <2>2. Min(I) \in Nat /\ i \in Nat /\ Min(I) <= i /\ i <= Min(I)
    BY <2>1, <1>5, <1>6
  <2> QED BY <2>2
<1>8. u = Negation(trail[i])
  BY <1>5, <1>7 DEF AssertingLits
<1>9. Resolvent = lits \union {u}
  BY <1>4, <1>8 DEF Resolvent
<1>10. u \in Lits /\ IsFalse(u) /\ VarOf(u) = v
  BY <1>0, <1>2, <1>3, <1>8, AnalysisFacts
<1>11. Level(v) = lvl
  BY <1>0, <1>2 DEF AnalysisInv, LearnInv
<1> QED BY <1>9, <1>10, <1>11

\* minimizeLearned only drops literals the others imply: a literal is dropped
\* when the variables of its reason were all met, those of the reason were
\* bound before it, so that a set of literals that has what the clauses imply
\* and the negations of the literals kept, but not that of a dropped one, lacks
\* that of one that was bound earlier, and there is a first one.
LEMMA MinimizedImplied ==
    ASSUME AnalysisInv, Learnt, NEW T,
           \A c \in ClauseIds : \A l \in clauses[c] :
              (\A k \in clauses[c] \ {l} : Negation(k) \in T) => l \in T,
           \A l \in Minimized : Negation(l) \in T
    PROVE  \A l \in lits : Negation(l) \in T
<1>0. pc = "learn"
  BY DEF Learnt
<1>1. lits \subseteq Lits /\ Minimized \subseteq lits
  BY <1>0, AnalysisFacts DEF Minimized
<1> SUFFICES ASSUME NEW l0 \in lits, Negation(l0) \notin T
             PROVE  FALSE
  OBVIOUS
<1> DEFINE I == {i \in 1 .. Len(trail) : Negation(trail[i]) \in lits /\ trail[i] \notin T}
<1>2. \A l \in lits : \E i \in 1 .. Len(trail) :
          trail[i] = Negation(l) /\ Negation(trail[i]) = l
  <2> SUFFICES ASSUME NEW l \in lits
               PROVE  \E i \in 1 .. Len(trail) :
                         trail[i] = Negation(l) /\ Negation(trail[i]) = l
    OBVIOUS
  <2>1. IsFalse(l) /\ l \in Lits
    BY <1>0, <1>1 DEF AnalysisInv, LearnInv
  <2>2. PICK i \in DOMAIN trail : trail[i] = Negation(l)
    BY <2>1, <1>0, AnalysisFacts, TrailFacts DEF BindingsInv
  <2> QED BY <2>1, <2>2, <1>0, AnalysisFacts, LitFacts
<1>3. I # {} /\ I \subseteq Nat
  <2>1. PICK i \in 1 .. Len(trail) : trail[i] = Negation(l0) /\ Negation(trail[i]) = l0
    BY <1>2
  <2> QED BY <2>1, <1>0, AnalysisFacts
<1>4. PICK i \in I : \A j \in I : i <= j
  <2> HIDE DEF I
  <2> QED BY <1>3, NatMin
<1> DEFINE l == Negation(trail[i])
           r == reason[VarOf(l)]
<1>5. /\ i \in 1 .. Len(trail) /\ trail[i] \in Lits /\ l \in lits /\ trail[i] \notin T
      /\ VarOf(l) = VarOf(trail[i]) /\ Negation(l) = trail[i]
  BY <1>0, <1>4, AnalysisFacts, LitFacts
<1>6. r # Nil /\ VarsOf(clauses[r]) \subseteq met
  <2>1. l \notin Minimized
    BY <1>5
  <2> QED BY <1>5, <2>1 DEF Minimized, Redundant
<1>7. r \in ClauseIds /\ clauses[r] \in Clauses
  <2>1. r \in ClauseIds
    BY <1>0, <1>5, <1>6, AnalysisFacts DEF BindingsInv
  <2> QED BY <2>1 DEF AnalysisInv, TypeOK, ClauseIds
<1>8. /\ trail[i] \in clauses[r]
      /\ \A k \in clauses[r] \ {trail[i]} : \E j \in 1 .. i - 1 : trail[j] = Negation(k)
  BY <1>0, <1>5, <1>6, AnalysisFacts DEF AnalysisInv, ReasonsImply
<1>9. PICK k \in clauses[r] \ {trail[i]} : Negation(k) \notin T
  <2> HIDE DEF r
  <2> QED BY <1>5, <1>7, <1>8
<1>10. k \in Lits
  BY <1>7 DEF Clauses
<1>11. PICK j \in 1 .. i - 1 : trail[j] = Negation(k)
  BY <1>8
<1>12. /\ j \in 1 .. Len(trail) /\ j < i /\ Negation(trail[j]) = k
       /\ VarOf(k) = VarOf(trail[j]) /\ VarOf(k) \in Vars
  BY <1>0, <1>5, <1>10, <1>11, AnalysisFacts, LitFacts
<1>13. VarOf(k) \in met /\ Level(VarOf(k)) < lvl
  <2>1. VarOf(k) \in met
    BY <1>6 DEF VarsOf
  <2>2. Level(VarOf(trail[j])) <= Level(VarOf(trail[i]))
    BY <1>0, <1>5, <1>12, AnalysisFacts DEF AnalysisInv, TrailMatchesModel
  <2>3. Level(VarOf(l)) < lvl
    BY <1>0, <1>5 DEF AnalysisInv, LearnInv
  <2>4. Level(VarOf(trail[j])) \in Nat /\ Level(VarOf(trail[i])) \in Nat /\ lvl \in Nat
    BY <1>0, <1>5, <1>12, AnalysisFacts
  <2> QED BY <1>5, <1>12, <2>1, <2>2, <2>3, <2>4
<1>14. PICK m \in lits : VarOf(m) = VarOf(k)
  BY <1>0, <1>13 DEF AnalysisInv, LearnInv
<1>15. m = k
  <2>1. m \in Lits /\ IsFalse(m)
    BY <1>0, <1>1 DEF AnalysisInv, LearnInv
  <2>2. IsFalse(k)
    BY <1>0, <1>12, AnalysisFacts
  <2>3. model \in [Vars -> Int]
    BY <1>0, AnalysisFacts DEF BindingsInv
  <2>4. IsPositive(m) \in BOOLEAN /\ IsPositive(k) \in BOOLEAN
    BY <2>1, <1>10, LitFacts
  <2>5. IsPositive(m) = IsPositive(k)
    BY <2>1, <2>2, <2>3, <2>4, <1>10, <1>14, StatusFacts
  <2> QED BY <2>1, <2>5, <1>10, <1>14, SameVar
<1>16. j \in I
  BY <1>9, <1>11, <1>12, <1>15
<1>17. i \in Nat /\ j \in Nat
  BY <1>3, <1>16
<1> QED BY <1>4, <1>12, <1>16, <1>17

\* So what is left of the clause follows from the clauses of the client: the
\* literals that a model makes true have what the clauses imply.
LEMMA MinimizedEntailed ==
    ASSUME AnalysisInv, Learnt, lvl > 1, NEW u \in AssertingLits
    PROVE  {u} \union Minimized \in Clauses /\ Entails(formula, {u} \union Minimized)
<1>0. pc = "learn"
  BY DEF Learnt
<1>1. u \in Lits /\ Resolvent = lits \union {u}
  BY AssertingFacts
<1>2. lits \subseteq Lits /\ Minimized \subseteq lits
  BY <1>0, AnalysisFacts DEF Minimized
<1>3. Entails(formula, lits \union {u})
  BY <1>0, <1>1, ResolventFacts, AnalysisFacts DEF Premises
<1> SUFFICES ASSUME NEW a \in Assignments, SatAll(a, formula),
                    \A l \in {u} \union Minimized : ~ Holds(a, l)
             PROVE  FALSE
  BY <1>1, <1>2 DEF Clauses, Entails, SatClause
<1> DEFINE T == {l \in Lits : Holds(a, l)}
<1>4. \A l \in Lits : Negation(l) \in T <=> ~ Holds(a, l)
  BY HoldsNegation, LitFacts
<1>5. ASSUME NEW c \in ClauseIds, NEW l \in clauses[c],
             \A k \in clauses[c] \ {l} : Negation(k) \in T
      PROVE  l \in T
  <2>1. clauses[c] \subseteq Lits /\ Entails(formula, clauses[c])
    BY DEF AnalysisInv, TypeOK, ClauseIds, ClausesEntailed, Clauses
  <2>2. PICK k \in clauses[c] : Holds(a, k)
    BY <2>1 DEF Entails, SatClause
  <2> QED BY <1>4, <1>5, <2>1, <2>2
<1>6. \A l \in Minimized : Negation(l) \in T
  BY <1>2, <1>4
<1>7. \A l \in lits : Negation(l) \in T
  <2> HIDE DEF T
  <2> QED BY <1>5, <1>6, MinimizedImplied
<1>8. PICK l \in lits \union {u} : Holds(a, l)
  BY <1>3 DEF Entails, SatClause
<1> QED BY <1>2, <1>4, <1>7, <1>8

\* The start of the analysis: every literal of the conflict clause is false and
\* one of them belongs to the current level.
LEMMA StartLearnInv ==
    ASSUME BindingsInv, ClausesEntailed, NEW c \in ClauseIds, clauses[c] \in Clauses,
           \A l \in clauses[c] : IsFalse(l),
           \E l \in clauses[c] : Level(VarOf(l)) = lvl,
           \A v \in Vars : Level(v) <= lvl, lvl \in Nat \ {0},
           StartLearn(c), ret = "branch",
           UNCHANGED <<model, trail, lvl, ret, formula, assumed>>
    PROVE  /\ LearnInv'
           /\ met' \subseteq Vars /\ metLvl' \subseteq Vars /\ lits' \in Clauses
           /\ nbLvl' \in Int /\ walk' \in Int
           /\ clauses[c] \subseteq Resolvent'
<1> DEFINE C == clauses[c]
           D == AtLvl(C)
<1>1. /\ \A l \in C : l \in Lits /\ IsFalse(l) /\ VarOf(l) \in Vars /\ Level(VarOf(l)) \in Nat
      /\ \A l \in C : Level(VarOf(l)) <= lvl /\ model[VarOf(l)] # 0
      /\ {l \in C : IsFalse(l)} = C
  BY LitFacts, LevelFacts, StatusFacts DEF Clauses, BindingsInv
<1>2. /\ met' = VarsOf(C) /\ metLvl' = VarsOf(D) /\ nbLvl' = Cardinality(D)
      /\ lits' = C \ D /\ walk' = Len(trail)
  BY <1>1 DEF StartLearn
<1>3. D = {l \in C : Level(VarOf(l)) = lvl}
  BY DEF AtLvl
<1> HIDE DEF C, D
<1>4. /\ Len(trail) \in Nat /\ DOMAIN trail = 1 .. Len(trail)
      /\ \A i \in 1 .. Len(trail) : trail[i] \in Lits /\ VarOf(trail[i]) \in Vars
  BY LitFacts DEF BindingsInv
<1>5. \A l \in C : \E i \in 1 .. Len(trail) : trail[i] = Negation(l)
  BY <1>1, <1>4, TrailFacts DEF BindingsInv
<1>6. \A l \in C : \E i \in 1 .. Len(trail) : Negation(trail[i]) = l /\ VarOf(trail[i]) = VarOf(l)
  BY <1>1, <1>5, LitFacts
<1>7. \A k, l \in C : VarOf(k) = VarOf(l) => k = l
  <2> SUFFICES ASSUME NEW k \in C, NEW l \in C, VarOf(k) = VarOf(l) PROVE k = l
    OBVIOUS
  <2>1. IsPositive(k) \in BOOLEAN /\ IsPositive(l) \in BOOLEAN
    BY <1>1, LitFacts
  <2>2. IsPositive(k) = IsPositive(l)
    BY <1>1, <2>1, StatusFacts DEF BindingsInv
  <2> QED BY <1>1, <2>2, SameVar
<1>8. \A i \in 1 .. Len(trail), l \in C : VarOf(trail[i]) = VarOf(l) => Negation(trail[i]) = l
  BY <1>4, <1>6 DEF BindingsInv, TrailMatchesModel
<1>9. D \in Clauses /\ D \subseteq C
  BY <1>1, <1>3 DEF Clauses
<1>10. Pending' = VarsOf(D)
  <2>1. \A l \in D : \E i \in 1 .. Len(trail) : VarOf(trail[i]) = VarOf(l)
    BY <1>6, <1>9
  <2> QED BY <1>2, <2>1 DEF Pending, VarsOf
<1>11. nbLvl' = Cardinality(Pending') /\ nbLvl' >= 1
  <2>1. Cardinality(VarsOf(D)) = Cardinality(D)
    BY <1>7, <1>9, CardinalityVarsOf
  <2>2. D # {}
    BY <1>3 DEF C
  <2>3. IsFiniteSet(D) /\ Cardinality(D) \in Nat
    BY <1>9, ClausesFinite
  <2>4. Cardinality(D) # 0
    BY <2>2, <2>3, FS_EmptySet
  <2> QED BY <1>2, <1>10, <2>1, <2>3, <2>4
<1>12. /\ met' \subseteq Vars /\ metLvl' \subseteq Vars /\ metLvl' \subseteq met'
       /\ lits' \in Clauses
  BY <1>1, <1>2, <1>9 DEF VarsOf, Clauses
<1>13. \A l \in Lits : IsFalse(l)' = IsFalse(l)
  BY DEF IsFalse, LitStatus
<1>14. \A v \in Vars : Level(v)' = Level(v)
  BY DEF Level
<1>15. \A v \in metLvl' : Level(v) = lvl
  BY <1>2, <1>3 DEF VarsOf
<1>16. \A l \in lits' : IsFalse(l) /\ Level(VarOf(l)) < lvl
  BY <1>1, <1>2, <1>3
<1>17. \A i \in 1 .. walk' :
         VarOf(trail[i]) \in met' => VarOf(trail[i]) \in metLvl' \/ Negation(trail[i]) \in lits'
  BY <1>2, <1>8 DEF VarsOf
<1>18. \A v \in met' : model[v] # 0 /\ (Level(v) < lvl => \E l \in lits' : VarOf(l) = v)
  BY <1>1, <1>2, <1>3 DEF VarsOf
<1>19. C \subseteq Resolvent'
  <2> SUFFICES ASSUME NEW l \in C, l \notin lits' PROVE l \in Resolvent'
    BY DEF Resolvent
  <2>1. VarOf(l) \in metLvl'
    BY <1>2 DEF VarsOf
  <2> QED BY <1>2, <1>6, <2>1 DEF Resolvent
<1>20. Entails(Premises', Resolvent')
  <2>1. formula \subseteq Premises'
    BY DEF Premises, Question
  <2>2. Entails(formula, C)
    BY DEF ClausesEntailed, C
  <2> QED BY <1>19, <2>1, <2>2, EntailsWeaken
<1>21. walk' \in 0 .. Len(trail') /\ ret' = "branch" /\ nbLvl' \in Int /\ walk' \in Int
  <2>1. Cardinality(D) \in Nat
    BY <1>9, ClausesFinite
  <2> QED BY <1>2, <1>4, <2>1
<1>22. LearnInv'
  <2>1. \A v \in metLvl' : Level(v)' = lvl'
    BY <1>12, <1>14, <1>15
  <2>2. \A l \in lits' : IsFalse(l)' /\ Level(VarOf(l))' < lvl'
    BY <1>2, <1>1, <1>13, <1>14, <1>16
  <2>3. \A v \in met' : model'[v] # 0 /\ (Level(v)' < lvl' => \E l \in lits' : VarOf(l) = v)
    BY <1>12, <1>14, <1>18
  <2> QED BY <1>11, <1>12, <1>17, <1>20, <1>21, <2>1, <2>2, <2>3 DEF LearnInv
<1> QED BY <1>12, <1>19, <1>21, <1>22 DEF C

\* The inner loop of learnClause finds a variable: one is pending.
LEMMA NextMetFacts ==
    ASSUME AnalysisInv, pc = "learn"
    PROVE  /\ NextMet \in 1 .. walk /\ ResolveVar \in metLvl /\ Level(ResolveVar) = lvl
           /\ \A i \in 1 .. walk : VarOf(trail[i]) \in metLvl => i <= NextMet
<1> DEFINE K == {i \in 1 .. walk : VarOf(trail[i]) \in metLvl}
<1>1. nbLvl = Cardinality(Pending) /\ nbLvl >= 1 /\ \A v \in metLvl : Level(v) = lvl
  BY DEF AnalysisInv, LearnInv
<1>2. Pending # {}
  BY <1>1, FS_EmptySet
<1>3. K # {} /\ K \subseteq 0 .. walk /\ walk \in Nat
  BY <1>2, AnalysisFacts DEF Pending
<1>4. NextMet = Max(K)
  BY DEF NextMet
<1>5. Max(K) \in K /\ \A i \in K : i <= Max(K)
  <2> HIDE DEF K
  <2> QED BY <1>3, MaxOfNats
<1> QED BY <1>1, <1>4, <1>5 DEF ResolveVar

\* A step that resolves the clause being built with the reason of the literal
\* at index i of the trail, or with that literal when it is a fact.
ReasonOf(i) ==
    IF reason[VarOf(trail[i])] = Nil THEN {trail[i]} ELSE clauses[reason[VarOf(trail[i])]]

Resolves(i) ==
    /\ trail[i] \in ReasonOf(i)
    /\ reason[VarOf(trail[i])] = Nil => Level(VarOf(trail[i])) = 1
    /\ Resolvent \ {Negation(trail[i])} \subseteq Resolvent'
    /\ ReasonOf(i) \ {trail[i]} \subseteq Resolvent'

\* One resolution step.  Above level 1 the variable at hand has a reason, since
\* another one of the level comes before it on the trail.
LEMMA ResolveStep ==
    ASSUME AnalysisInv, ResolveReason
    PROVE  /\ LearnInv'
           /\ met' \subseteq Vars /\ metLvl' \subseteq Vars /\ lits' \in Clauses
           /\ nbLvl' \in Int /\ walk' \in Int
           /\ \E i \in 1 .. Len(trail) : Resolves(i)
<1> DEFINE K == {i \in 1 .. walk : VarOf(trail[i]) \in metLvl}
           n == NextMet
           v == ResolveVar
           seen == met \union SteppedOver
           new == NewLits(v, seen)
           D == AtLvl(new)
<1>0. pc = "learn" /\ nbLvl > 1
  BY DEF ResolveReason, Resolve
<1>1. /\ met' = seen \union VarsOf(new) /\ metLvl' = metLvl \union VarsOf(D)
      /\ nbLvl' = (nbLvl - 1) + Cardinality(D)
      /\ lits' = lits \union (new \ D) /\ walk' = n - 1
      /\ UNCHANGED <<model, trail, reason, clauses, lvl, pc, ret, formula, assumed>>
  BY DEF ResolveReason, Resolve, bindingVars, dbVars, ctlVars, clientVars
<1>2. /\ Len(trail) \in Nat /\ walk \in 0 .. Len(trail) /\ DOMAIN trail = 1 .. Len(trail)
      /\ \A i \in 1 .. Len(trail) : trail[i] \in Lits /\ VarOf(trail[i]) \in Vars
      /\ \A i \in 1 .. Len(trail) : Negation(trail[i]) \in Lits
      /\ \A i, j \in 1 .. Len(trail) : VarOf(trail[i]) = VarOf(trail[j]) => i = j
      /\ lits \subseteq Lits /\ met \subseteq Vars /\ metLvl \subseteq met
      /\ \A x \in Vars : Level(x) \in Nat /\ (Level(x) = 0 <=> model[x] = 0)
      /\ lvl \in Nat \ {0}
  BY <1>0, AnalysisFacts
<1>3. /\ ret = "branch"
      /\ nbLvl = Cardinality(Pending)
      /\ \A x \in metLvl : Level(x) = lvl
      /\ \A l \in lits : IsFalse(l) /\ Level(VarOf(l)) < lvl
      /\ \A i \in 1 .. walk :
            VarOf(trail[i]) \in met => \/ VarOf(trail[i]) \in metLvl
                                       \/ Negation(trail[i]) \in lits
      /\ \A x \in met : model[x] # 0 /\ (Level(x) < lvl => \E l \in lits : VarOf(l) = x)
  BY <1>0 DEF AnalysisInv, LearnInv
<1>4. Pending \subseteq Vars /\ IsFiniteSet(Pending) /\ Cardinality(Pending) \in Nat
  <2>1. Pending \subseteq Vars
    BY <1>2 DEF Pending
  <2> QED BY <2>1, VarsFinite
<1>5. n \in 1 .. walk /\ VarOf(trail[n]) \in metLvl /\ \A i \in K : i <= n
  BY <1>0, NextMetFacts DEF ResolveVar
<1>6. v = VarOf(trail[n])
  BY DEF ResolveVar
<1> HIDE DEF n
<1>7. /\ n \in 1 .. Len(trail) /\ n \in Nat /\ v \in Vars /\ v \in Pending /\ v \in metLvl
      /\ Level(v) = lvl
  BY <1>2, <1>3, <1>5, <1>6 DEF Pending
<1>8. \E j \in 1 .. n - 1 : VarOf(trail[j]) \in metLvl
  <2>1. Pending # {v}
    BY <1>0, <1>3, FS_Singleton
  <2>2. PICK x \in Pending : x # v
    BY <1>7, <2>1
  <2>3. PICK j \in 1 .. walk : VarOf(trail[j]) = x /\ x \in metLvl
    BY <2>2 DEF Pending
  <2>4. j \in K /\ j # n
    BY <2>2, <2>3, <1>6
  <2> QED BY <2>3, <2>4, <1>5, <1>2
<1>9. ASSUME reason[v] = Nil PROVE lvl = 1
  <2> SUFFICES ASSUME lvl > 1 PROVE FALSE
    BY <1>2
  <2>1. PICK j \in 1 .. n - 1 : VarOf(trail[j]) \in metLvl
    BY <1>8
  <2>2. j \in 1 .. Len(trail) /\ j < n
    BY <1>7
  <2>3. Level(VarOf(trail[j])) < Level(VarOf(trail[n]))
    BY <1>2, <1>6, <1>7, <1>9, <2>2 DEF AnalysisInv, DecisionsFirst
  <2> QED BY <1>2, <1>3, <1>6, <1>7, <2>1, <2>3
\* The clause to resolve with: the reason, or the fact itself.
<1> DEFINE R == IF reason[v] = Nil THEN {trail[n]} ELSE clauses[reason[v]]
<1>10. /\ R \in Clauses /\ trail[n] \in R /\ Entails(Premises, R)
       /\ \A l \in R \ {trail[n]} : \E j \in 1 .. n - 1 : trail[j] = Negation(l)
  <2>1. CASE reason[v] = Nil
    <3>1. Entails(Question, {trail[n]})
      BY <1>2, <1>6, <1>7, <1>9, <2>1 DEF AnalysisInv, FactsEntailed
    <3>2. R = {trail[n]}
      BY <2>1
    <3> QED BY <1>2, <1>7, <1>9, <2>1, <3>1, <3>2 DEF Premises, Clauses
  <2>2. CASE reason[v] # Nil
    <3>1. reason[v] \in ClauseIds
      BY <1>0, <1>7, <2>2, AnalysisFacts DEF BindingsInv
    <3>2. R \in Clauses /\ Entails(formula, R)
      BY <2>2, <3>1 DEF AnalysisInv, TypeOK, ClauseIds, ClausesEntailed
    <3>3. formula \subseteq Premises
      BY DEF Premises, Question
    <3>4. Entails(Premises, R)
      BY <3>2, <3>3, EntailsWeaken
    <3>5. /\ trail[n] \in R
          /\ \A l \in R \ {trail[n]} : \E j \in 1 .. n - 1 : trail[j] = Negation(l)
      BY <1>2, <1>6, <1>7, <2>2 DEF AnalysisInv, ReasonsImply
    <3> QED BY <3>2, <3>4, <3>5
  <2> QED BY <2>1, <2>2
<1>11. new = IF reason[v] = Nil THEN {} ELSE {l \in R : VarOf(l) \notin seen /\ IsFalse(l)}
  BY DEF NewLits
<1>12. \A x \in SteppedOver : /\ x \in Vars /\ Level(x) = lvl
                              /\ \E i \in n + 1 .. walk : VarOf(trail[i]) = x
  BY DEF SteppedOver, n
<1> HIDE DEF v, R, new, seen, K, D
<1>13. \A i \in 1 .. n : VarOf(trail[i]) \notin SteppedOver
  <2> SUFFICES ASSUME NEW i \in 1 .. n, VarOf(trail[i]) \in SteppedOver PROVE FALSE
    OBVIOUS
  <2>1. PICK j \in n + 1 .. walk : VarOf(trail[j]) = VarOf(trail[i])
    BY <1>12
  <2>2. i \in 1 .. Len(trail) /\ j \in 1 .. Len(trail) /\ i # j
    BY <1>2, <1>7
  <2> QED BY <1>2, <2>1, <2>2
\* A literal of the reason is false, and new or met before.
<1>14. ASSUME NEW l \in R \ {trail[n]}
       PROVE  /\ l \in Lits /\ VarOf(l) \in Vars /\ IsFalse(l)
              /\ \E j \in 1 .. n - 1 : Negation(trail[j]) = l /\ VarOf(trail[j]) = VarOf(l)
              /\ l \in new \/ VarOf(l) \in met
  <2>1. l \in Lits /\ VarOf(l) \in Vars
    BY <1>10, LitFacts DEF Clauses
  <2>2. PICK j \in 1 .. n - 1 : trail[j] = Negation(l)
    BY <1>10
  <2>3. j \in 1 .. Len(trail) /\ j \in 1 .. n
    BY <1>2, <1>7, <2>2
  <2>4. Negation(trail[j]) = l /\ VarOf(trail[j]) = VarOf(l)
    BY <2>1, <2>2, LitFacts
  <2>5. IsFalse(l)
    BY <1>0, <2>3, <2>4, AnalysisFacts
  <2>6. VarOf(l) \notin SteppedOver
    BY <1>13, <2>3, <2>4
  <2>7. reason[v] # Nil
    BY DEF R
  <2> QED BY <1>11, <2>1, <2>2, <2>4, <2>5, <2>6, <2>7 DEF seen
<1>15. ASSUME NEW l \in new
       PROVE  /\ l \in R \ {trail[n]} /\ VarOf(l) \notin seen /\ IsFalse(l)
              /\ l \in Lits /\ VarOf(l) \in Vars
  <2>1. l \in R /\ VarOf(l) \notin seen /\ IsFalse(l)
    BY <1>11
  <2>2. VarOf(trail[n]) \in seen
    BY <1>2, <1>5 DEF seen
  <2> QED BY <2>1, <2>2, <1>14
<1>16. ASSUME NEW i \in 1 .. n - 1, NEW l \in R \ {trail[n]}, VarOf(trail[i]) = VarOf(l)
       PROVE  Negation(trail[i]) = l
  <2>1. PICK j \in 1 .. n - 1 : Negation(trail[j]) = l /\ VarOf(trail[j]) = VarOf(l)
    BY <1>14
  <2>2. i \in 1 .. Len(trail) /\ j \in 1 .. Len(trail)
    BY <1>2, <1>7
  <2> QED BY <1>2, <1>16, <2>1, <2>2
<1>17. D \subseteq new /\ D \in Clauses /\ \A l \in new : l \in D <=> Level(VarOf(l)) = lvl
  BY <1>15 DEF D, AtLvl, Clauses
<1>18. SteppedOver \subseteq Vars /\ VarsOf(new) \subseteq Vars /\ VarsOf(D) \subseteq VarsOf(new)
  BY <1>12, <1>15, <1>17 DEF VarsOf
<1>19. Pending' = (Pending \ {v}) \union VarsOf(D)
  <2>1. Pending' = {x \in metLvl \union VarsOf(D) : \E i \in 1 .. n - 1 : VarOf(trail[i]) = x}
    BY <1>1 DEF Pending
  <2>2. ASSUME NEW x \in Pending, x # v PROVE \E i \in 1 .. n - 1 : VarOf(trail[i]) = x
    <3>1. PICK i \in 1 .. walk : VarOf(trail[i]) = x /\ x \in metLvl
      BY DEF Pending
    <3>2. i \in K /\ i # n
      BY <2>2, <3>1, <1>6 DEF K
    <3> QED BY <3>1, <3>2, <1>5, <1>2
  <2>3. ASSUME NEW x \in VarsOf(D) PROVE \E i \in 1 .. n - 1 : VarOf(trail[i]) = x
    <3>1. PICK l \in D : VarOf(l) = x
      BY DEF VarsOf
    <3> QED BY <3>1, <1>17, <1>15, <1>14
  <2>4. ASSUME NEW x \in metLvl, NEW i \in 1 .. n - 1, VarOf(trail[i]) = x
        PROVE  x \in Pending /\ x # v
    <3>1. i \in 1 .. walk /\ i \in 1 .. Len(trail) /\ i # n
      BY <1>2, <1>5, <1>7
    <3> QED BY <2>4, <3>1, <1>2, <1>6, <1>7 DEF Pending
  <2> QED BY <2>1, <2>2, <2>3, <2>4 DEF Pending
<1>20. VarsOf(D) \cap Pending = {}
  BY <1>2, <1>15, <1>17 DEF VarsOf, Pending, seen
<1>21. nbLvl' = Cardinality(Pending') /\ nbLvl' >= 1 /\ nbLvl' \in Int
  <2>1. \A k, l \in D : VarOf(k) = VarOf(l) => k = l
    <3> SUFFICES ASSUME NEW k \in D, NEW l \in D, VarOf(k) = VarOf(l) PROVE k = l
      OBVIOUS
    <3>1. k \in R \ {trail[n]} /\ l \in R \ {trail[n]}
      BY <1>15, <1>17
    <3>2. PICK j \in 1 .. n - 1 : Negation(trail[j]) = l /\ VarOf(trail[j]) = VarOf(l)
      BY <1>14, <3>1
    <3> QED BY <1>16, <3>1, <3>2
  <2>2. Cardinality(VarsOf(D)) = Cardinality(D)
    BY <1>17, <2>1, CardinalityVarsOf
  <2>3. Cardinality(Pending') = (Cardinality(Pending) - 1) + Cardinality(VarsOf(D))
    <3>1. VarsOf(D) \subseteq Vars
      BY <1>18
    <3> QED BY <1>4, <1>7, <1>19, <1>20, <3>1, CardinalityReplace
  <2>4. Cardinality(D) \in Nat
    BY <1>17, ClausesFinite
  <2> QED BY <1>0, <1>1, <1>3, <1>4, <2>2, <2>3, <2>4
<1>22. /\ met' \subseteq Vars /\ metLvl' \subseteq Vars /\ metLvl' \subseteq met'
       /\ lits' \in Clauses
  BY <1>1, <1>2, <1>15, <1>18 DEF seen, Clauses
<1>23. \A l \in Lits : IsFalse(l)' = IsFalse(l)
  BY <1>1 DEF IsFalse, LitStatus
<1>24. \A x \in Vars : Level(x)' = Level(x)
  BY <1>1 DEF Level
<1>25. \A x \in metLvl' : Level(x)' = lvl'
  BY <1>1, <1>3, <1>17, <1>22, <1>24 DEF VarsOf
<1>26. ASSUME NEW l \in new PROVE Level(VarOf(l)) \in Nat /\ model[VarOf(l)] # 0 /\ Level(VarOf(l)) <= lvl
  <2>1. model[VarOf(l)] # 0
    BY <1>0, <1>15, AnalysisFacts, StatusFacts DEF BindingsInv
  <2>2. PICK j \in 1 .. n - 1 : VarOf(trail[j]) = VarOf(l)
    BY <1>14, <1>15
  <2>3. j \in 1 .. Len(trail) /\ j <= n
    BY <1>2, <1>7
  <2>4. Level(VarOf(trail[j])) <= Level(VarOf(trail[n]))
    BY <1>2, <1>7, <2>3 DEF AnalysisInv, TrailMatchesModel
  <2> QED BY <1>2, <1>6, <1>7, <1>15, <2>1, <2>2, <2>4
<1>27. \A l \in lits' : IsFalse(l)' /\ Level(VarOf(l))' < lvl'
  <2> SUFFICES ASSUME NEW l \in lits' PROVE IsFalse(l) /\ Level(VarOf(l)) < lvl /\ l \in Lits
    BY <1>1, <1>23, <1>24, LitFacts
  <2>1. CASE l \in lits
    BY <1>2, <1>3, <2>1
  <2>2. CASE l \in new \ D
    BY <1>2, <1>15, <1>17, <1>26, <2>2
  <2> QED BY <1>1, <2>1, <2>2
<1>28. ASSUME NEW i \in 1 .. n - 1, VarOf(trail[i]) \in met'
       PROVE  VarOf(trail[i]) \in metLvl' \/ Negation(trail[i]) \in lits'
  <2>1. i \in 1 .. walk /\ i \in 1 .. n
    BY <1>2, <1>5, <1>7
  <2>2. VarOf(trail[i]) \in met \/ VarOf(trail[i]) \in VarsOf(new)
    BY <1>1, <1>13, <1>28, <2>1 DEF seen
  <2>3. CASE VarOf(trail[i]) \in met
    BY <1>1, <1>3, <2>1, <2>3
  <2>4. CASE VarOf(trail[i]) \in VarsOf(new)
    <3>1. PICK l \in new : VarOf(l) = VarOf(trail[i])
      BY <2>4 DEF VarsOf
    <3>2. Negation(trail[i]) = l
      BY <1>15, <1>16, <3>1
    <3> QED BY <1>1, <3>1, <3>2 DEF VarsOf
  <2> QED BY <2>2, <2>3, <2>4
<1>29. \A x \in met' : model[x] # 0 /\ (Level(x) < lvl => \E l \in lits' : VarOf(l) = x)
  <2> SUFFICES ASSUME NEW x \in met'
               PROVE  model[x] # 0 /\ (Level(x) < lvl => \E l \in lits' : VarOf(l) = x)
    OBVIOUS
  <2>1. CASE x \in met
    BY <1>1, <1>3, <2>1
  <2>2. CASE x \in SteppedOver
    BY <1>2, <1>12, <2>2
  <2>3. CASE x \in VarsOf(new)
    <3>1. PICK l \in new : VarOf(l) = x
      BY <2>3 DEF VarsOf
    <3>2. Level(x) < lvl => l \notin D
      BY <1>2, <1>15, <1>17, <3>1
    <3> QED BY <1>1, <1>26, <3>1, <3>2
  <2> QED BY <1>1, <2>1, <2>2, <2>3 DEF seen
<1>30. /\ Resolvent \ {Negation(trail[n])} \subseteq Resolvent'
       /\ R \ {trail[n]} \subseteq Resolvent'
  <2>1. Resolvent' = lits' \union
          {Negation(trail[i]) : i \in {j \in 1 .. n - 1 : VarOf(trail[j]) \in metLvl'}}
    BY <1>1 DEF Resolvent
  <2>2. Resolvent \ {Negation(trail[n])} \subseteq Resolvent'
    <3> SUFFICES ASSUME NEW l \in Resolvent, l # Negation(trail[n]), l \notin lits
                 PROVE  l \in Resolvent'
      BY <1>1, <2>1
    <3>1. PICK i \in K : l = Negation(trail[i])
      BY DEF Resolvent, K
    <3>2. i \in 1 .. n - 1 /\ VarOf(trail[i]) \in metLvl'
      <4>1. i # n /\ i <= n /\ i \in 1 .. walk /\ VarOf(trail[i]) \in metLvl
        BY <1>5, <3>1 DEF K
      <4> QED BY <1>1, <1>2, <1>7, <4>1
    <3> QED BY <2>1, <3>1, <3>2
  <2>3. R \ {trail[n]} \subseteq Resolvent'
    <3> SUFFICES ASSUME NEW l \in R \ {trail[n]} PROVE l \in Resolvent'
      OBVIOUS
    <3>1. PICK j \in 1 .. n - 1 : Negation(trail[j]) = l /\ VarOf(trail[j]) = VarOf(l)
      BY <1>14
    <3>2. VarOf(trail[j]) \in met'
      BY <1>1, <1>14, <3>1 DEF VarsOf, seen
    <3>3. VarOf(trail[j]) \in metLvl' \/ l \in lits'
      BY <1>28, <3>1, <3>2
    <3> QED BY <2>1, <3>1, <3>3
  <2> QED BY <2>2, <2>3
<1>31. Entails(Premises', Resolvent')
  <2>1. Premises' = Premises
    BY <1>1 DEF Premises, Question
  <2>2. Entails(Premises, Resolvent) /\ Resolvent \in Clauses
    BY <1>0, ResolventFacts
  <2>3. trail[n] \in Lits
    BY <1>2, <1>7
  <2> QED BY <1>10, <1>30, <2>1, <2>2, <2>3, EntailsResolve
<1>32. Resolves(n)
  <2>1. ReasonOf(n) = R
    BY <1>6 DEF ReasonOf, R
  <2>2. reason[v] = Nil => Level(v) = 1
    BY <1>7, <1>9
  <2> QED BY <1>6, <1>10, <1>30, <2>1, <2>2 DEF Resolves
<1>33. walk' \in 0 .. Len(trail') /\ walk' \in Int /\ ret' = "branch"
  BY <1>1, <1>2, <1>3, <1>7
<1>34. LearnInv'
  <2>1. \A i \in 1 .. walk' :
          VarOf(trail'[i]) \in met' => VarOf(trail'[i]) \in metLvl' \/ Negation(trail'[i]) \in lits'
    BY <1>1, <1>28
  <2>2. \A x \in met' : model'[x] # 0 /\ (Level(x)' < lvl' => \E l \in lits' : VarOf(l) = x)
    BY <1>1, <1>22, <1>24, <1>29
  <2> QED BY <1>21, <1>22, <1>25, <1>27, <1>31, <1>33, <2>1, <2>2 DEF LearnInv
<1> QED BY <1>7, <1>21, <1>22, <1>32, <1>33, <1>34
=============================================================================
