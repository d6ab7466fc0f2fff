--------------------------- MODULE OptimizeProofs ---------------------------
(***************************************************************************)
(* Optimizing finds the best: the constraints given to the solver leave    *)
(* the models cheaper than the last one and no other, so that what is      *)
(* returned when none is left is a cheapest model.  Weights have to be     *)
(* positive, and the cost is without a literal and its negation.           *)
(***************************************************************************)
EXTENDS Optimize, LitsProofs, SequenceTheorems

-----------------------------------------------------------------------------
(* The terms of the cost function.                                         *)

\* The terms are finitely many, and so are those of any constraint.
LEMMA TermsFinite ==
    ASSUME TypeOK, NEW T \in SUBSET Terms
    PROVE  /\ IsFiniteSet(T)
           /\ \A k \in T : goal.weights[k] \in Nat /\ goal.lits[k] \in Lits /\ Hypothesis(k) \in Lits
           /\ Weight(T) \in Nat
<1>1. /\ goal.lits \in Seq(Lits) /\ goal.weights \in Seq(Nat)
      /\ Len(goal.lits) = Len(goal.weights)
  BY GoalsAssumption DEF TypeOK
<1>2. Terms = 1 .. Len(goal.lits) /\ Len(goal.lits) \in Nat
  BY <1>1 DEF Terms
<1>3. IsFiniteSet(Terms)
  BY <1>2, FS_Interval
<1>4. IsFiniteSet(T)
  BY <1>3, FS_Subset
<1>5. \A k \in Terms : goal.weights[k] \in Nat /\ goal.lits[k] \in Lits
  BY <1>1, <1>2
<1>6. \A k \in T : goal.weights[k] \in Nat
  BY <1>5
<1>7. Weight(T) \in Nat
  BY <1>4, <1>6, SumFinite DEF Weight
<1> QED BY <1>4, <1>5, <1>7, LitFacts DEF Hypothesis

\* The weights of some terms and of the others add up.
LEMMA WeightSplit ==
    ASSUME TypeOK, NEW T \in SUBSET Terms, NEW S \in SUBSET T
    PROVE  /\ Weight(T) = Weight(S) + Weight(T \ S)
           /\ Weight(T) \in Nat /\ Weight(S) \in Nat /\ Weight(T \ S) \in Nat
<1>1. IsFiniteSet(T) /\ \A k \in T : goal.weights[k] \in Nat
  BY TermsFinite
<1> QED BY <1>1, SumSubset DEF Weight

\* With positive weights only all of the terms weigh as much as all of them.
LEMMA WeightAll ==
    ASSUME TypeOK, PositiveWeights, NEW T \in SUBSET Terms, NEW S \in SUBSET T,
           Weight(S) >= Weight(T)
    PROVE  S = T
<1> SUFFICES ASSUME NEW k \in T, k \notin S PROVE FALSE
  OBVIOUS
<1> DEFINE U == T \ S
<1>1. IsFiniteSet(U) /\ \A i \in U : goal.weights[i] \in Nat
  BY TermsFinite
<1>2. k \in U
  OBVIOUS
<1>3. /\ SumOf(goal.weights, U) = goal.weights[k] + SumOf(goal.weights, U \ {k})
      /\ SumOf(goal.weights, U \ {k}) \in Nat
  <2> HIDE DEF U
  <2> QED BY <1>1, <1>2, SumTerm
<1>4. goal.weights[k] > 0 /\ goal.weights[k] \in Nat
  <2>1. /\ goal.lits \in Seq(Lits) /\ goal.weights \in Seq(Nat)
        /\ Len(goal.lits) = Len(goal.weights)
    BY GoalsAssumption DEF TypeOK
  <2>2. k \in DOMAIN goal.weights
    BY <2>1 DEF Terms
  <2> QED BY <2>2, TermsFinite DEF PositiveWeights, TypeOK
<1>5. Weight(U) > 0
  BY <1>3, <1>4 DEF Weight
<1> QED BY <1>5, WeightSplit

\* The terms of the negated cost function that an assignment makes true.
TrueHypotheses(a) == {k \in Terms : Holds(a, Hypothesis(k))}

\* Their weight is what the assignment does not cost.
LEMMA CostOfHypotheses ==
    ASSUME TypeOK, NEW a \in Assignments
    PROVE  /\ Weight(TrueHypotheses(a)) = MaxCost - Cost(a)
           /\ Cost(a) \in Nat /\ MaxCost \in Nat
<1> DEFINE S == {k \in Terms : Holds(a, goal.lits[k])}
<1>1. TrueHypotheses(a) = Terms \ S
  <2>1. \A k \in Terms : Holds(a, Hypothesis(k)) <=> ~Holds(a, goal.lits[k])
    BY TermsFinite, HoldsNegation DEF Hypothesis
  <2> QED BY <2>1 DEF TrueHypotheses
<1>2. Cost(a) = Weight(S) /\ MaxCost = Weight(Terms)
  BY DEF Cost, MaxCost
<1>3. S \in SUBSET Terms
  OBVIOUS
<1> QED BY <1>1, <1>2, <1>3, WeightSplit

\* The abstract costs are those of the model.
LEMMA BetterCosts ==
    ASSUME TypeOK
    PROVE  /\ \A a \in Assignments : O!Cost(goal, a) = Cost(a)
           /\ O!Models(goal) \subseteq Assignments
           /\ NoModel \notin Assignments
           /\ O!Better(goal, NoModel) = O!Models(goal)
           /\ \A m \in Assignments :
                 O!Better(goal, m) = {a \in O!Models(goal) : Cost(a) < Cost(m)}
<1>0. O!Assignments = Assignments
  BY DEF O!Assignments, Assignments, O!Vars, Vars
<1>1. \A a \in Assignments : O!Cost(goal, a) = Cost(a)
  <2>1. \A f, I : O!SumOf(f, I) = SumOf(f, I)
    BY Zenon DEF O!SumOf, SumOf, O!Cardinality, Cardinality
  <2>2. \A a, l : O!Holds(a, l) <=> Holds(a, l)
    BY DEF O!Holds, Holds, O!VarOf, VarOf, O!IsPositive, IsPositive
  <2>3. \A a : Cost(a) = SumOf(goal.weights, {k \in DOMAIN goal.lits : Holds(a, goal.lits[k])})
    BY DEF Cost, Weight, Terms
  <2>4. \A a : O!Cost(goal, a) = O!SumOf(goal.weights, {k \in DOMAIN goal.lits : O!Holds(a, goal.lits[k])})
    BY DEF O!Cost
  <2>5. \A a : {k \in DOMAIN goal.lits : O!Holds(a, goal.lits[k])}
                 = {k \in DOMAIN goal.lits : Holds(a, goal.lits[k])}
    BY <2>2
  <2> QED BY <2>1, <2>3, <2>4, <2>5
<1>2. NoModel \notin Assignments
  <2>1. DOMAIN NoModel = {-1}
    BY DEF NoModel, O!NoModel
  <2>2. -1 \notin Vars
    BY NbVarsAssumption DEF Vars
  <2> QED BY <2>1, <2>2 DEF Assignments
<1>3. O!Models(goal) \subseteq Assignments
  BY <1>0 DEF O!Models
<1> QED BY <1>1, <1>2, <1>3 DEF O!Better, NoModel

\* What the models left are among.
LEMMA SameModels == O!Models(goal) = {a \in Assignments : SatAll(a, goal.formula)}
<1>1. O!Assignments = Assignments
  BY DEF O!Assignments, Assignments, O!Vars, Vars
<1>2. \A a, F : O!SatAll(a, F) <=> SatAll(a, F)
  BY DEF O!SatAll, SatAll, O!SatClause, SatClause, O!Holds, Holds,
         O!VarOf, VarOf, O!IsPositive, IsPositive
<1> QED BY <1>1, <1>2 DEF O!Models

LEMMA LeftModels == Left \subseteq O!Models(goal)
BY SameModels DEF Left, ModelsWith

-----------------------------------------------------------------------------
(* AppendClause.                                                           *)

\* The models left that a constraint on the cost accepts.
Accepted(card) == {a \in Left : Weight(TrueHypotheses(a)) >= card}

\* For a model left, the true terms and those of the free terms it makes true.
LEMMA HypothesesSplit ==
    ASSUME TypeOK, NEW a \in Left
    PROVE  /\ TrueTerms(Terms) \in SUBSET Terms /\ FreeTerms(Terms) \in SUBSET Terms
           /\ Weight(TrueTerms(Terms)) \in Nat /\ Weight(FreeTerms(Terms)) \in Nat
           /\ Weight(TrueHypotheses(a) \cap FreeTerms(Terms)) \in Nat
           /\ Weight(TrueHypotheses(a) \cap FreeTerms(Terms)) <= Weight(FreeTerms(Terms))
           /\ Weight(TrueHypotheses(a))
                = Weight(TrueTerms(Terms)) + Weight(TrueHypotheses(a) \cap FreeTerms(Terms))
<1> DEFINE H == TrueHypotheses(a)
           T == TrueTerms(Terms)
           F == FreeTerms(Terms)
<1>0. T \in SUBSET Terms /\ F \in SUBSET Terms /\ H \in SUBSET Terms
  BY DEF TrueTerms, FreeTerms, TrueHypotheses
<1>1. a \in Assignments /\ \A l \in bound : Holds(a, l)
  BY DEF Left, ModelsWith
<1>2. \A k \in Terms : Holds(a, Hypothesis(k)) <=> ~Holds(a, goal.lits[k])
  BY <1>1, TermsFinite, HoldsNegation DEF Hypothesis
<1>3. T \subseteq H
  BY <1>1 DEF TrueTerms, TrueHypotheses
<1>4. H \ T = H \cap F
  <2>1. ASSUME NEW k \in H, k \notin T PROVE k \in F
    <3>1. k \in Terms /\ Holds(a, Hypothesis(k)) /\ Hypothesis(k) \notin bound
      BY <2>1 DEF TrueHypotheses, TrueTerms
    <3>2. goal.lits[k] \notin bound
      BY <1>1, <1>2, <3>1
    <3> QED BY <3>1, <3>2 DEF FreeTerms
  <2>2. F \cap T = {}
    BY DEF FreeTerms, TrueTerms
  <2> QED BY <2>1, <2>2
<1>5. Weight(H) = Weight(T) + Weight(H \ T)
  BY <1>0, <1>3, WeightSplit
<1>6. /\ Weight(F) = Weight(H \cap F) + Weight(F \ (H \cap F))
      /\ Weight(F \ (H \cap F)) \in Nat /\ Weight(H \cap F) \in Nat
  <2>1. H \cap F \in SUBSET F
    OBVIOUS
  <2> HIDE DEF H, F
  <2> QED BY <1>0, <2>1, WeightSplit
<1>7. Weight(T) \in Nat /\ Weight(F) \in Nat
  BY <1>0, TermsFinite
<1> QED BY <1>0, <1>4, <1>5, <1>6, <1>7

\* Binding literals that the models among M all make true loses none of M.
LEMMA FactsKeep ==
    ASSUME NEW M, NEW B, NEW B1 \in Facts(B, M)
    PROVE  /\ \A a \in M : (\A l \in B : Holds(a, l)) => \A l \in B1 : Holds(a, l)
           /\ B \subseteq B1
           /\ B \subseteq Lits => B1 \subseteq Lits
BY DEF Facts

\* So the models that have the literals B have what level 1 becomes from B.
LEMMA FactsModels ==
    ASSUME NEW B, NEW B1 \in Facts(B, ModelsWith(B))
    PROVE  ModelsWith(B1) = ModelsWith(B)
<1>1. /\ \A a \in ModelsWith(B) : (\A l \in B : Holds(a, l)) => \A l \in B1 : Holds(a, l)
      /\ B \subseteq B1
  BY FactsKeep
<1> QED BY <1>1 DEF ModelsWith

\* What AppendClause leaves, as the solver is after it and with what it leaves
\* to propagateUnits, are the models left that the constraint accepts.
LEMMA AppendKeeps ==
    ASSUME TypeOK, PositiveWeights, status # "Unsat", units = {},
           NEW card \in Nat, card > 0, AppendClause(Terms, card), UNCHANGED <<goal, bound>>
    PROVE  /\ status' = "Unsat" => units' = {} /\ Accepted(card) = {}
           /\ status' # "Unsat" =>
                 {a \in Left' : \A k \in units' : Holds(a, Hypothesis(k))} = Accepted(card)
           /\ status' \in {"Indet", "Sat", "Unsat"}
           /\ added' \subseteq [terms : SUBSET Terms, card : Nat]
           /\ units' \subseteq Terms
<1> DEFINE T == TrueTerms(Terms)
           F == FreeTerms(Terms)
           minW == Weight(T)
           maxW == minW + Weight(F)
<1>0. minW \in Nat /\ Weight(F) \in Nat /\ T \in SUBSET Terms /\ F \in SUBSET Terms
  BY TermsFinite DEF TrueTerms, FreeTerms
<1>1. \A a \in Left :
         /\ Weight(TrueHypotheses(a)) = minW + Weight(TrueHypotheses(a) \cap F)
         /\ Weight(TrueHypotheses(a) \cap F) \in Nat
         /\ Weight(TrueHypotheses(a) \cap F) <= Weight(F)
  BY HypothesesSplit
<1>t. TypeOK
  OBVIOUS
<1>2. CASE minW >= card
  <2>1. UNCHANGED <<status, added, units>>
    BY <1>2 DEF AppendClause
  <2>2. Left' = Left
    BY <2>1 DEF Left, ModelsWith, Weight, Hypothesis
  <2>3. Accepted(card) = Left
    <3>1. ASSUME NEW a \in Left PROVE Weight(TrueHypotheses(a)) >= card
      <4>1. Weight(TrueHypotheses(a)) = minW + Weight(TrueHypotheses(a) \cap F)
        BY <1>1
      <4>2. Weight(TrueHypotheses(a) \cap F) \in Nat
        BY <1>1
      <4> HIDE DEF minW, F
      <4> QED BY <1>0, <1>2, <4>1, <4>2
    <3> QED BY <3>1 DEF Accepted
  <2> QED BY <2>1, <2>2, <2>3, <1>t DEF TypeOK
<1>3. CASE minW < card /\ maxW < card
  <2>1. status' = "Unsat" /\ UNCHANGED <<added, units>>
    BY <1>0, <1>3 DEF AppendClause
  <2>2. Accepted(card) = {}
    <3>1. ASSUME NEW a \in Left PROVE Weight(TrueHypotheses(a)) < card
      <4>1. Weight(TrueHypotheses(a)) = minW + Weight(TrueHypotheses(a) \cap F)
        BY <1>1
      <4>2. /\ Weight(TrueHypotheses(a) \cap F) \in Nat
            /\ Weight(TrueHypotheses(a) \cap F) <= Weight(F)
        BY <1>1
      <4> HIDE DEF minW, F
      <4> QED BY <1>0, <1>3, <4>1, <4>2
    <3>2. ASSUME NEW a \in Left PROVE ~(Weight(TrueHypotheses(a)) >= card)
      <4>1. Weight(TrueHypotheses(a)) \in Nat
        BY TermsFinite DEF TrueHypotheses
      <4> QED BY <3>1, <4>1
    <3> QED BY <3>2 DEF Accepted
  <2> QED BY <2>1, <2>2, <1>t DEF TypeOK
<1>4. CASE minW < card /\ maxW = card
  <2>1. units' = F /\ UNCHANGED <<status, added>>
    BY <1>0, <1>4 DEF AppendClause
  <2>2. Left' = Left
    BY <2>1 DEF Left, ModelsWith, Weight, Hypothesis
  <2>3. ASSUME NEW a \in Left, Weight(TrueHypotheses(a)) >= card
        PROVE  \A k \in F : Holds(a, Hypothesis(k))
    <3>1. Weight(TrueHypotheses(a) \cap F) >= Weight(F)
      BY <1>0, <1>1, <1>4, <2>3
    <3>2. TrueHypotheses(a) \cap F = F
      <4>1. TrueHypotheses(a) \cap F \in SUBSET F
        OBVIOUS
      <4> HIDE DEF F
      <4> QED BY <1>0, <3>1, <4>1, WeightAll
    <3> QED BY <3>2 DEF TrueHypotheses
  <2>4. ASSUME NEW a \in Left, \A k \in F : Holds(a, Hypothesis(k))
        PROVE  Weight(TrueHypotheses(a)) >= card
    <3>1. TrueHypotheses(a) \cap F = F
      BY <1>0, <2>4 DEF TrueHypotheses
    <3> QED BY <1>0, <1>1, <1>4, <3>1
  <2>5. {a \in Left' : \A k \in units' : Holds(a, Hypothesis(k))} = Accepted(card)
    <3> HIDE DEF F
    <3> QED BY <2>1, <2>2, <2>3, <2>4 DEF Accepted
  <2> QED BY <1>0, <2>1, <2>5, <1>t DEF TypeOK
<1>5. CASE minW < card /\ maxW > card
  <2> DEFINE r == Reduced(card, minW)
             c == [terms |-> F, card |-> r]
  <2>1. /\ added' = added \union {c}
        /\ UNCHANGED <<status, units>>
    BY <1>0, <1>5 DEF AppendClause
  <2>2. r = card - minW
    <3> DEFINE S == {1, card - minW}
    <3>1. S \subseteq 0 .. card /\ S # {}
      BY <1>0, <1>5
    <3>2. Max(S) \in S /\ \A y \in S : y <= Max(S)
      <4> HIDE DEF S
      <4> QED BY <3>1, MaxOfNats
    <3> QED BY <1>0, <1>5, <3>2 DEF Reduced
  <2>3. Left' = {a \in Left : Weight({k \in F : Holds(a, Hypothesis(k))}) >= r}
    <3> DEFINE Meets(a, d) == Weight({k \in d.terms : Holds(a, Hypothesis(k))}) >= d.card
    <3>1. Left = {a \in Assignments : /\ SatAll(a, goal.formula)
                                      /\ \A d \in added : Meets(a, d)
                                      /\ \A l \in bound : Holds(a, l)}
      BY DEF Left, ModelsWith
    <3>2. Left' = {a \in Assignments : /\ SatAll(a, goal.formula)
                                       /\ \A d \in added' : Meets(a, d)
                                       /\ \A l \in bound : Holds(a, l)}
      BY <2>1 DEF Left, ModelsWith, Weight, Hypothesis
    <3>3. \A a : Meets(a, c) <=> Weight({k \in F : Holds(a, Hypothesis(k))}) >= r
      OBVIOUS
    <3> HIDE DEF Meets, c, F, r
    <3> QED BY <2>1, <3>1, <3>2, <3>3
  <2>4. \A a \in Left : {k \in F : Holds(a, Hypothesis(k))} = TrueHypotheses(a) \cap F
    BY <1>0 DEF TrueHypotheses
  <2>5. Left' = Accepted(card)
    <3> HIDE DEF r
    <3> QED BY <1>0, <1>1, <2>2, <2>3, <2>4 DEF Accepted
  <2>6. c \in [terms : SUBSET Terms, card : Nat]
    <3> HIDE DEF F, r
    <3> QED BY <1>0, <1>5, <2>2
  <2> QED BY <2>1, <2>5, <2>6, <1>t DEF TypeOK
<1> QED BY <1>0, <1>2, <1>3, <1>4, <1>5

\* The constraint that asks for less than the last model costs accepts the
\* models that are cheaper.
LEMMA CheaperAccepted ==
    ASSUME TypeOK, NEW m \in Assignments, res.model = m, res.weight = Cost(m),
           Cheaper \subseteq Left, res.weight > 0
    PROVE  /\ Accepted(NewCard(res.weight)) = Cheaper
           /\ NewCard(res.weight) \in Nat /\ NewCard(res.weight) > 0
<1>1. NewCard(res.weight) = MaxCost - Cost(m) + 1
  BY DEF NewCard
<1>2. /\ Weight(TrueHypotheses(m)) = MaxCost - Cost(m)
      /\ Weight(TrueHypotheses(m)) \in Nat /\ Cost(m) \in Nat /\ MaxCost \in Nat
  BY CostOfHypotheses, TermsFinite DEF TrueHypotheses
<1>3. ASSUME NEW a \in Left
      PROVE  Weight(TrueHypotheses(a)) >= NewCard(res.weight) <=> Cost(a) < Cost(m)
  <2>1. /\ Weight(TrueHypotheses(a)) = MaxCost - Cost(a) /\ Cost(a) \in Nat
    BY CostOfHypotheses DEF Left, ModelsWith
  <2> QED BY <1>1, <1>2, <2>1
<1>4. Cheaper = {a \in O!Models(goal) : Cost(a) < Cost(m)}
  BY BetterCosts DEF Cheaper
<1>5. Left \subseteq O!Models(goal)
  BY LeftModels
<1> QED BY <1>1, <1>2, <1>3, <1>4, <1>5 DEF Accepted

-----------------------------------------------------------------------------
(* The inductive invariant.                                                *)

LEMMA InitInv == Init => Inv
<1> SUFFICES ASSUME Init PROVE Inv
  OBVIOUS
<1>1. NoResult \in Results
  BY DEF NoResult, Results, AnyModel
<1>2. TypeOK
  BY <1>1 DEF Init, TypeOK, AnyModel
<1>3. /\ goal \in Goals /\ status = "Indet" /\ added = {} /\ units = {} /\ res = NoResult /\ sent = <<>> /\ pc = "solve"
      /\ \A a \in O!Models(goal), l \in bound : Holds(a, l)
  BY DEF Init
<1>4. res.model = NoModel /\ res.status = "none"
  BY <1>3 DEF NoResult
<1>5. Left = O!Models(goal)
  <2>1. O!Models(goal) = {a \in Assignments : SatAll(a, goal.formula)}
    BY SameModels
  <2> QED BY <1>3, <2>1 DEF Left, ModelsWith
<1>6. Cheaper = Left
  BY <1>2, <1>4, <1>5, BetterCosts DEF Cheaper
<1> QED BY <1>2, <1>3, <1>4, <1>6 DEF Inv, ResultHolds, KeepsCheaper, ChannelHolds

LEMMA SolveSatInv == ASSUME Inv, SolveSat PROVE Inv'
<1>1. /\ pc = "solve" /\ status # "Unsat" /\ status' = "Sat" /\ model' \in Left /\ pc' = "found"
      /\ bound' \in Facts(bound, Left) /\ UNCHANGED <<goal, added, units, res, sent>>
  BY DEF SolveSat
<1>2. Left' = Left
  <2>1. ModelsWith(bound') = ModelsWith(bound)
    BY <1>1, FactsModels DEF Left
  <2> QED BY <1>1, <2>1 DEF Left, ModelsWith, Weight, Hypothesis
<1>3. bound' \subseteq Lits
  BY <1>1, FactsKeep DEF Inv, TypeOK
<1>4. TypeOK'
  BY <1>1, <1>3 DEF Inv, TypeOK, Left, ModelsWith, AnyModel, Results, Terms
<1>5. Cheaper' = Cheaper /\ Left = Cheaper
  BY <1>1 DEF Cheaper, Inv, KeepsCheaper
<1>6. ResultHolds'
  BY <1>1 DEF Inv, ResultHolds, Cost, Weight, Terms
<1>7. KeepsCheaper'
  BY <1>1, <1>2, <1>5 DEF Inv, KeepsCheaper
<1>8. ChannelHolds'
  BY <1>1 DEF Inv, ChannelHolds
<1> QED BY <1>4, <1>6, <1>7, <1>8 DEF Inv

LEMMA SolveUnsatInv == ASSUME Inv, SolveUnsat PROVE Inv'
<1>1. /\ pc = "solve" /\ status' = "Unsat"
      /\ UNCHANGED <<goal, model, bound, added, units, sent>>
      /\ Cheaper = {}
  BY DEF SolveUnsat, Inv, KeepsCheaper
<1>2. CASE res # NoResult
  <2>1. pc' = "done" /\ UNCHANGED res
    BY <1>2 DEF SolveUnsat
  <2>2. Cheaper' = {}
    BY <1>1, <2>1 DEF Cheaper
  <2>3. res.status = "Sat" \/ res.status = "none"
    BY <1>1 DEF Inv, ResultHolds, TypeOK, Results
  <2> QED BY <1>1, <1>2, <2>1, <2>2, <2>3
          DEF Inv, TypeOK, Results, Terms, ResultHolds, KeepsCheaper, ChannelHolds, Cost, Weight
<1>3. CASE res = NoResult
  <2> DEFINE r == [NoResult EXCEPT !.status = "Unsat"]
  <2>1. res' = r /\ pc' = IF goal.results THEN "send" ELSE "done"
    BY <1>3 DEF SolveUnsat
  <2>2. r.status = "Unsat" /\ r.model = NoModel /\ r.weight = 0 /\ r \in Results /\ r # NoResult
    BY DEF NoResult, Results, AnyModel
  <2>3. Cheaper = O!Models(goal)
    BY <1>3, BetterCosts DEF Cheaper, NoResult, Inv
  <2>4. Cheaper' = {}
    BY <1>1, <1>3, <2>1, <2>2 DEF Cheaper, NoResult
  <2>5. sent = <<>>
    BY <1>3 DEF Inv, ResultHolds
  <2>6. goal.results \in BOOLEAN
    BY GoalsAssumption DEF Inv, TypeOK
  <2> HIDE DEF r
  <2>7. TypeOK'
    BY <1>1, <2>1, <2>2 DEF Inv, TypeOK, Terms
  <2>8. ResultHolds'
    BY <1>1, <2>1, <2>2, <2>3 DEF ResultHolds
  <2>9. KeepsCheaper'
    BY <1>1, <2>1, <2>2, <2>4 DEF Inv, KeepsCheaper
  <2>10. ChannelHolds'
    BY <1>1, <2>1, <2>5, <2>6 DEF ChannelHolds
  <2> QED BY <2>7, <2>8, <2>9, <2>10 DEF Inv
<1> QED BY <1>2, <1>3

LEMMA FoundInv == ASSUME Inv, Found PROVE Inv'
<1> DEFINE r == [status |-> "Sat", model |-> model, weight |-> Cost(model)]
<1>1. /\ pc = "found" /\ res' = r /\ pc' = AfterFound(r)
      /\ UNCHANGED <<goal, status, model, bound, added, units, sent>>
  BY DEF Found
<1>2. /\ status # "Unsat" /\ Left = Cheaper /\ model \in Left /\ model \in Assignments
      /\ model \in O!Models(goal)
  BY <1>1, LeftModels DEF Inv, KeepsCheaper, Left, ModelsWith
<1>3. Cost(model) \in Nat
  BY <1>2, CostOfHypotheses DEF Inv
<1>4. /\ r \in Results /\ r # NoResult /\ r.status = "Sat" /\ r.model = model
      /\ r.weight = Cost(model) /\ r.weight \in Nat
  BY <1>2, <1>3 DEF Results, AnyModel, NoResult
<1>5. Left' = Left
  BY <1>1 DEF Left, ModelsWith, Weight, Hypothesis
<1>6. Cheaper' = {a \in O!Models(goal) : Cost(a) < Cost(model)}
  <2>1. Cheaper' = O!Better(goal, model)
    BY <1>1, <1>4 DEF Cheaper
  <2> QED BY <1>2, <2>1, BetterCosts DEF Inv
<1>7. (Cheaper = O!Models(goal) /\ res = NoResult) \/
      (res.status = "Sat" /\ res.weight = Cost(res.model) /\ Cost(model) < res.weight
       /\ Cheaper = {a \in O!Models(goal) : Cost(a) < Cost(res.model)})
  <2>1. CASE res = NoResult
    BY <2>1, BetterCosts DEF Cheaper, Inv, NoResult
  <2>2. CASE res # NoResult
    <3>1. res.status = "Sat" /\ res.model \in Assignments /\ res.weight = Cost(res.model)
      BY <1>1, <2>2, BetterCosts DEF Inv, ResultHolds, TypeOK, Results
    <3>2. Cheaper = {a \in O!Models(goal) : Cost(a) < Cost(res.model)}
      BY <3>1, BetterCosts DEF Cheaper, Inv
    <3> QED BY <1>2, <3>1, <3>2
  <2> QED BY <2>1, <2>2
<1>8. Cheaper' \subseteq Cheaper
  <2>1. \A a \in O!Models(goal) : Cost(a) \in Nat
    BY BetterCosts, CostOfHypotheses DEF Inv
  <2>2. CASE Cheaper = O!Models(goal)
    BY <1>6, <2>2
  <2>3. CASE /\ res.weight = Cost(res.model) /\ Cost(model) < res.weight
             /\ Cheaper = {a \in O!Models(goal) : Cost(a) < Cost(res.model)}
    <3>1. res.weight \in Nat
      BY DEF Inv, TypeOK, Results
    <3>2. \A a \in O!Models(goal) : Cost(a) < Cost(model) => Cost(a) < Cost(res.model)
      BY <1>3, <2>1, <2>3, <3>1
    <3> QED BY <1>6, <2>3, <3>2
  <2> QED BY <1>7, <2>2, <2>3
<1>9. Final(r) => Cheaper' = {}
  <2>1. \A a \in O!Models(goal) : Cost(a) \in Nat
    BY BetterCosts, CostOfHypotheses DEF Inv
  <2> QED BY <1>4, <1>6, <2>1 DEF Final
<1>10. goal.results \in BOOLEAN
  BY GoalsAssumption DEF Inv, TypeOK
<1>11. pc' \in {"send", "done", "append"} /\ (pc' = "send" <=> goal.results)
       /\ (pc' = "append" => ~Final(r)) /\ (pc' = "done" => Final(r))
  BY <1>1, <1>10 DEF AfterFound
<1> HIDE DEF r
<1>12. TypeOK'
  BY <1>1, <1>4, <1>11 DEF Inv, TypeOK, Terms
<1>13. ResultHolds'
  BY <1>1, <1>2, <1>4 DEF ResultHolds, Cost, Weight, Terms
<1>14. KeepsCheaper'
  BY <1>1, <1>2, <1>5, <1>8, <1>9, <1>11 DEF Inv, KeepsCheaper, Final
<1>15. ChannelHolds'
  <2>1. (pc' = "send" /\ sent # <<>>) => r.weight < Last(sent).weight
    <3>1. ASSUME sent # <<>>, goal.results PROVE r.weight < Last(sent).weight
      <4>1. res # NoResult /\ Last(sent) = res
        BY <1>1, <3>1 DEF Inv, ResultHolds, ChannelHolds
      <4> QED BY <1>4, <1>7, <4>1
    <3> QED BY <1>11, <3>1
  <2> QED BY <1>1, <1>4, <1>11, <2>1 DEF Inv, ChannelHolds
<1> QED BY <1>12, <1>13, <1>14, <1>15 DEF Inv

LEMMA SendInv == ASSUME Inv, Send PROVE Inv'
<1>1. /\ pc = "send" /\ sent' = Append(sent, res)
      /\ pc' = IF Final(res) THEN "done" ELSE "append"
      /\ UNCHANGED <<goal, status, model, bound, added, units, res>>
  BY DEF Send
<1>2. /\ res # NoResult /\ res.status \in {"Sat", "Unsat"} /\ goal.results
      /\ res \in Results /\ sent \in Seq(Results) /\ goal \in Goals
  BY <1>1, GoalsAssumption DEF Inv, TypeOK, ResultHolds, ChannelHolds, Results
<1>3. Left' = Left /\ Cheaper' = Cheaper
  BY <1>1 DEF Left, ModelsWith, Weight, Hypothesis, Cheaper
<1>4. Final(res) => Cheaper = {}
  <2>1. CASE res.status = "Unsat"
    BY <2>1, BetterCosts DEF Inv, ResultHolds, Cheaper
  <2>2. CASE res.status = "Sat"
    <3>1. res.model \in Assignments /\ res.weight = Cost(res.model)
      BY <2>2, BetterCosts DEF Inv, ResultHolds
    <3>2. Cheaper = {a \in O!Models(goal) : Cost(a) < Cost(res.model)}
      BY <3>1, BetterCosts DEF Cheaper, Inv
    <3>3. \A a \in O!Models(goal) : Cost(a) \in Nat
      BY BetterCosts, CostOfHypotheses DEF Inv
    <3> QED BY <3>1, <3>2, <3>3 DEF Final
  <2> QED BY <1>2, <2>1, <2>2
<1>5. ~Final(res) => res.status = "Sat"
  BY <1>2 DEF Inv, ResultHolds, Final
<1>6. TypeOK'
  <2>1. sent' \in Seq(Results)
    BY <1>1, <1>2, AppendProperties
  <2> QED BY <1>1, <2>1 DEF Inv, TypeOK, Terms
<1>7. ResultHolds'
  BY <1>1, <1>2, <1>5 DEF Inv, ResultHolds, Cost, Weight, Terms, Final
<1>8. KeepsCheaper'
  BY <1>1, <1>3, <1>4, <1>5 DEF Inv, KeepsCheaper, Final
<1>9. /\ Len(sent') = Len(sent) + 1 /\ sent'[Len(sent) + 1] = res
      /\ \A k \in 1 .. Len(sent) : sent'[k] = sent[k]
      /\ sent' # <<>> /\ Last(sent') = res /\ Len(sent) \in Nat
  BY <1>1, <1>2, AppendProperties DEF Last
<1>10. \A k \in 2 .. Len(sent') : sent'[k].weight < sent'[k - 1].weight
  <2> SUFFICES ASSUME NEW k \in 2 .. Len(sent')
               PROVE  sent'[k].weight < sent'[k - 1].weight
    OBVIOUS
  <2>1. CASE k <= Len(sent)
    <3>1. k \in 2 .. Len(sent) /\ k \in 1 .. Len(sent) /\ k - 1 \in 1 .. Len(sent)
      BY <1>9, <2>1
    <3> QED BY <1>9, <3>1 DEF Inv, ChannelHolds
  <2>2. CASE k = Len(sent) + 1
    <3>1. Len(sent) \in 1 .. Len(sent) /\ k - 1 = Len(sent)
      BY <1>9, <2>2
    <3>2. sent # <<>> /\ Last(sent) = sent[Len(sent)]
      BY <1>2, <3>1 DEF Last
    <3> QED BY <1>1, <1>9, <2>2, <3>1, <3>2 DEF Inv, ChannelHolds
  <2> QED BY <1>9, <2>1, <2>2
<1>11. ChannelHolds'
  BY <1>1, <1>2, <1>9, <1>10 DEF ChannelHolds
<1> QED BY <1>6, <1>7, <1>8, <1>11 DEF Inv

LEMMA TightenInv == ASSUME PositiveWeights, Inv, Tighten PROVE Inv'
<1> DEFINE card == NewCard(res.weight)
<1>1. /\ pc = "append" /\ AppendClause(Terms, card)
      /\ pc' = IF units' = {} THEN "solve" ELSE "units"
      /\ UNCHANGED <<goal, model, bound, res, sent>>
  BY DEF Tighten
<1>2. res.status = "Sat" /\ res # NoResult
  BY <1>1 DEF Inv, ResultHolds, TypeOK, Results
<1>3. /\ status # "Unsat" /\ Cheaper \subseteq Left
      /\ res.model \in Assignments /\ res.weight = Cost(res.model) /\ res.weight > 0
  <2>1. res.weight \in Nat /\ res.weight # 0
    BY <1>1 DEF Inv, TypeOK, Results, KeepsCheaper, Final
  <2> QED BY <1>1, <1>2, <2>1, BetterCosts DEF Inv, ResultHolds, KeepsCheaper
<1>4. Accepted(card) = Cheaper /\ card \in Nat /\ card > 0
  BY <1>3, CheaperAccepted DEF Inv
<1> HIDE DEF card
<1>5. units = {}
  BY <1>1 DEF Inv, KeepsCheaper
<1>6. /\ status' = "Unsat" => units' = {} /\ Cheaper = {}
      /\ status' # "Unsat" =>
            {a \in Left' : \A k \in units' : Holds(a, Hypothesis(k))} = Cheaper
      /\ status' \in {"Indet", "Sat", "Unsat"}
      /\ added' \subseteq [terms : SUBSET Terms, card : Nat]
      /\ units' \subseteq Terms
  BY <1>1, <1>3, <1>4, <1>5, AppendKeeps DEF Inv
<1>7. Cheaper' = Cheaper
  BY <1>1 DEF Cheaper
<1>8. TypeOK'
  BY <1>1, <1>6 DEF Inv, TypeOK, Terms
<1>9. ResultHolds'
  BY <1>1, <1>2 DEF Inv, ResultHolds, Cost, Weight, Terms
<1>10. KeepsCheaper'
  <2>1. \A k : Hypothesis(k)' = Hypothesis(k)
    BY <1>1 DEF Hypothesis
  <2>2. CASE units' = {}
    BY <1>1, <1>6, <1>7, <2>2 DEF KeepsCheaper
  <2>3. CASE units' # {}
    BY <1>1, <1>6, <1>7, <2>1, <2>3 DEF KeepsCheaper
  <2> QED BY <2>2, <2>3
<1>11. ChannelHolds'
  BY <1>1 DEF Inv, ChannelHolds
<1> QED BY <1>8, <1>9, <1>10, <1>11 DEF Inv

\* Without opposite literals a unit is bound over nothing: what is left are the
\* models that have it, and none is when it meets a conflict.
LEMMA BindUnitInv == ASSUME NoOpposites, Inv, BindUnit PROVE Inv'
<1>1. PICK k \in units :
        LET l == Hypothesis(k)
            B == (bound \ Overwritten(l)) \union {l}
            M == ModelsWith(B)
        IN  \/ /\ bound' \in Facts(B, M) /\ ~Tautology(bound')
               /\ units' = units \ {k}
               /\ UNCHANGED status
            \/ /\ M = {} /\ status' = "Unsat"
               /\ units' = {}
               /\ UNCHANGED bound
  BY DEF BindUnit
<1> DEFINE l == Hypothesis(k)
           Wanted == {a \in Left : \A j \in units : Holds(a, Hypothesis(j))}
<1>2. /\ pc = "units" /\ pc' = IF units' = {} THEN "solve" ELSE "units"
      /\ UNCHANGED <<goal, model, added, res, sent>>
  BY DEF BindUnit
<1>3. status # "Unsat" /\ Wanted = Cheaper
  BY <1>2 DEF Inv, KeepsCheaper
<1>4. units \subseteq Terms /\ k \in Terms /\ bound \subseteq Lits
  BY DEF Inv, TypeOK
<1>5. l \in Lits
  BY <1>4, TermsFinite DEF Inv
<1>6. Overwritten(l) = {}
  <2> SUFFICES ASSUME NEW j \in Terms, Hypothesis(j) = Negation(l) PROVE FALSE
    BY DEF Overwritten
  <2>1. goal.lits[k] \in Lits /\ goal.lits[j] \in Lits
    BY <1>4, TermsFinite DEF Inv
  <2>2. Negation(goal.lits[j]) = goal.lits[k]
    BY <2>1, LitFacts DEF Hypothesis
  <2> QED BY <1>4, <2>2 DEF NoOpposites, Inv, TypeOK, Terms
<1>7. /\ \A j : Hypothesis(j)' = Hypothesis(j)
      /\ \A B : ModelsWith(B)' = ModelsWith(B)
      /\ Cheaper' = Cheaper
  BY <1>2 DEF Hypothesis, ModelsWith, Weight, Cheaper
<1>8. ModelsWith(bound \union {l}) = {a \in Left : Holds(a, l)}
  BY DEF ModelsWith, Left
<1>9. CASE /\ bound' \in Facts(bound \union {l}, ModelsWith(bound \union {l}))
           /\ units' = units \ {k} /\ UNCHANGED status
  <2>1. ModelsWith(bound') = {a \in Left : Holds(a, l)}
    BY <1>8, <1>9, FactsModels
  <2>2. Left' = {a \in Left : Holds(a, l)}
    BY <1>7, <2>1 DEF Left
  <2>3. {a \in Left' : \A j \in units' : Holds(a, Hypothesis(j))} = Cheaper
    BY <1>3, <1>9, <2>2
  <2>4. bound' \subseteq Lits
    BY <1>4, <1>5, <1>9, FactsKeep
  <2>5. TypeOK'
    BY <1>2, <1>4, <1>9, <2>4 DEF Inv, TypeOK, Terms
  <2>6. KeepsCheaper'
    <3>1. CASE units' = {}
      BY <1>2, <1>3, <1>7, <1>9, <2>3, <3>1 DEF KeepsCheaper
    <3>2. CASE units' # {}
      BY <1>2, <1>3, <1>7, <1>9, <2>3, <3>2 DEF KeepsCheaper
    <3> QED BY <3>1, <3>2
  <2> QED BY <1>2, <2>5, <2>6 DEF Inv, ResultHolds, ChannelHolds, Cost, Weight, Terms
<1>10. CASE /\ ModelsWith(bound \union {l}) = {} /\ status' = "Unsat"
            /\ units' = {} /\ UNCHANGED bound
  <2>1. Cheaper = {}
    BY <1>3, <1>8, <1>10
  <2>2. TypeOK'
    BY <1>2, <1>10 DEF Inv, TypeOK, Terms
  <2>3. KeepsCheaper'
    BY <1>2, <1>7, <1>10, <2>1 DEF KeepsCheaper
  <2> QED BY <1>2, <2>2, <2>3 DEF Inv, ResultHolds, ChannelHolds, Cost, Weight, Terms
<1>11. bound \ Overwritten(l) = bound
  BY <1>6
<1> QED BY <1>1, <1>9, <1>10, <1>11

LEMMA StepInv == ASSUME PositiveWeights, NoOpposites, Inv, [Next]_vars PROVE Inv'
<1>1. CASE UNCHANGED vars
  <2>1. Left' = Left /\ Cheaper' = Cheaper
    BY <1>1 DEF vars, Left, ModelsWith, Weight, Hypothesis, Cheaper
  <2>2. TypeOK' /\ ResultHolds' /\ ChannelHolds'
    BY <1>1 DEF vars, Inv, TypeOK, Terms, ResultHolds, ChannelHolds, Cost, Weight
  <2> QED BY <1>1, <2>1, <2>2 DEF vars, Inv, KeepsCheaper, Hypothesis
<1>2. CASE Next
  BY <1>1, <1>2, SolveSatInv, SolveUnsatInv, FoundInv, SendInv, TightenInv, BindUnitInv DEF Next, Done
<1> QED BY <1>1, <1>2

\* For costs of positive weights that do not have a literal and its negation:
\* whatever Solve answers and learns on the way, what is known of the models
\* left, of the result and of the channel holds at every step of the loop.
THEOREM Optimality == ASSUME PositiveWeights, NoOpposites PROVE Spec => []Inv
<1>1. Inv /\ [Next]_vars => Inv'
  BY StepInv
<1> QED BY <1>1, InitInv, PTL DEF Spec

-----------------------------------------------------------------------------
(* What the caller can count on.                                           *)

\* Between two calls of Solve the solver is left with the models that are
\* cheaper than the best one, all of them and no other: the constraint that
\* AppendClause simplifies, binds or refuses says what the cost says.
THEOREM NothingCheaperLost == ASSUME PositiveWeights, NoOpposites PROVE Spec => []OnlyCheaperLeft
<1>1. Inv => OnlyCheaperLeft
  BY DEF Inv, KeepsCheaper, OnlyCheaperLeft, Cheaper
<1> QED BY <1>1, Optimality, PTL

\* A caller who gives a channel gets results that get cheaper, and the last one
\* is what the call returns.
THEOREM ChannelDelivers == ASSUME PositiveWeights, NoOpposites PROVE Spec => []ResultsDelivered
<1>1. Inv => ResultsDelivered
  <2> SUFFICES ASSUME Inv PROVE ResultsDelivered
    OBVIOUS
  <2>1. (pc = "done" /\ goal.results) => (sent # <<>> /\ Last(sent) = res)
    BY DEF Inv, ChannelHolds, ResultHolds
  <2> QED BY <2>1 DEF Inv, ChannelHolds, ResultsDelivered
<1> QED BY <1>1, Optimality, PTL

\* When the call returns no model is cheaper than the one it returns, and there
\* is none at all when it returns none.
THEOREM NoneCheaper == ASSUME PositiveWeights, NoOpposites PROVE Spec => []OptimumFound
<1>1. Inv => OptimumFound
  BY DEF Inv, KeepsCheaper, OptimumFound, Cheaper
<1> QED BY <1>1, Optimality, PTL

\* A step of the loop improves the best model, finishes, or is not seen.
LEMMA StepOptimizes ==
    ASSUME Inv, Inv', [Next]_vars
    PROVE  [O!Next]_(O!vars)
<1>1. CASE SolveSat \/ Tighten \/ BindUnit \/ UNCHANGED vars
  <2>1. UNCHANGED <<goal, res>> /\ (pc = "done" <=> pc' = "done")
    BY <1>1 DEF SolveSat, Tighten, BindUnit, vars
  <2> QED BY <2>1 DEF O!vars
<1>2. CASE SolveUnsat
  <2>1. /\ pc = "solve" /\ status' = "Unsat" /\ UNCHANGED goal /\ res'.model = res.model
        /\ pc' \in {"send", "done"}
    <3>1. res = NoResult => [NoResult EXCEPT !.status = "Unsat"].model = res.model
      BY DEF NoResult
    <3> QED BY <1>2, <3>1 DEF SolveUnsat
  <2>2. O!Better(goal, res.model) = {}
    BY <1>2, <2>1 DEF SolveUnsat, Inv, KeepsCheaper, Cheaper
  <2> QED BY <2>1, <2>2 DEF O!Next, O!Finish, O!vars
<1>3. CASE Found
  <2>1. /\ pc = "found" /\ res'.model = model /\ UNCHANGED goal
    BY <1>3 DEF Found
  <2>2. model \in O!Better(goal, res.model)
    BY <2>1 DEF Inv, KeepsCheaper, Cheaper
  <2>3. pc' = "done" => O!Better(goal, res'.model) = {}
    BY <2>1 DEF Inv, KeepsCheaper, Cheaper
  <2> QED BY <2>1, <2>2, <2>3 DEF O!Next, O!Improve
<1>4. CASE Send
  <2>1. /\ pc = "send" /\ UNCHANGED <<goal, res>>
    BY <1>4 DEF Send
  <2>2. pc' = "done" => O!Better(goal, res.model) = {}
    BY <2>1 DEF Inv, KeepsCheaper, Cheaper
  <2> QED BY <2>1, <2>2 DEF O!Next, O!Finish, O!vars
<1>5. CASE Done
  BY <1>5 DEF Done, vars, O!vars
<1> QED BY <1>1, <1>2, <1>3, <1>4, <1>5 DEF Next

\* Optimal and Minimize implement what optimizing promises: models are found,
\* each cheaper than the one before, until none is cheaper than the last.
THEOREM Refinement == ASSUME PositiveWeights, NoOpposites PROVE Spec => RefinesOptimum
<1>1. Init => O!Init
  BY DEF Init, O!Init, NoResult, NoModel
<1>2. Inv /\ Inv' /\ [Next]_vars => [O!Next]_(O!vars)
  BY StepOptimizes
<1>3. Init /\ [][Next]_vars /\ []Inv => O!Init /\ [][O!Next]_(O!vars)
  BY <1>1, <1>2, PTL
<1>4. Spec => Init /\ [][Next]_vars /\ []Inv
  BY Optimality, PTL DEF Spec
<1> QED BY <1>3, <1>4 DEF RefinesOptimum, O!Spec
=============================================================================
