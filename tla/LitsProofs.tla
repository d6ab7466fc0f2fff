----------------------------- MODULE LitsProofs -----------------------------
(***************************************************************************)
(* Facts about literals, entailment and minima that the proofs about the   *)
(* solver rest on.                                                         *)
(***************************************************************************)
EXTENDS Lits, FiniteSetsExt, FiniteSetTheorems, WellFoundedInduction, TLAPS

\* A nonempty set of naturals has a least element.
LEMMA NatMin ==
    ASSUME NEW T, T \subseteq Nat, T # {}
    PROVE  \E x \in T : \A y \in T : x <= y
<1> DEFINE R == OpToRel(<, Nat)
<1>1. IsWellFoundedOn(R, Nat)
  BY NatLessThanWellFounded
<1>2. \E x \in T : \A y \in T : ~ (<<y, x>> \in R)
  <2> HIDE DEF R
  <2> QED BY <1>1, WFMin
<1>3. ASSUME NEW x \in T, NEW y \in T, ~ (<<y, x>> \in R)
      PROVE  x <= y
  BY <1>3 DEF OpToRel
<1> QED BY <1>2, <1>3

\* Min is that element.
LEMMA MinOfNats ==
    ASSUME NEW T, T \subseteq Nat, T # {}
    PROVE  Min(T) \in T /\ \A y \in T : Min(T) <= y
BY NatMin DEF Min

\* A nonempty set of naturals with an upper bound has a greatest element.
LEMMA MaxOfNats ==
    ASSUME NEW n \in Nat, NEW T, T \subseteq 0 .. n, T # {}
    PROVE  Max(T) \in T /\ \A y \in T : y <= Max(T)
<1> DEFINE U == {n - x : x \in T}
<1>0. \A x \in T : x \in Nat /\ x <= n
  OBVIOUS
<1>1. U \subseteq Nat /\ U # {}
  <2>1. \A x \in T : n - x \in Nat
    BY <1>0
  <2> QED BY <2>1
<1>2. PICK u \in U : \A y \in U : u <= y
  <2> HIDE DEF U
  <2> QED BY <1>1, NatMin
<1>3. PICK x \in T : u = n - x
  OBVIOUS
<1>4. ASSUME NEW y \in T PROVE y <= x
  <2>1. n - y \in U
    OBVIOUS
  <2>2. n - x <= n - y
    BY <2>1, <1>2, <1>3
  <2> QED BY <2>2, <1>0
<1> QED BY <1>4 DEF Max

-----------------------------------------------------------------------------
(* Literals.                                                               *)

\* Negation stays on the variable, changes the sign and is an involution.
LEMMA LitFacts ==
    ASSUME NEW l \in Lits
    PROVE  /\ VarOf(l) \in Vars
           /\ Negation(l) \in Lits
           /\ Negation(l) # l
           /\ VarOf(Negation(l)) = VarOf(l)
           /\ Negation(Negation(l)) = l
           /\ IsPositive(l) \in BOOLEAN
           /\ IsPositive(Negation(l)) = ~ IsPositive(l)
BY NbVarsAssumption DEF Lits, Vars, VarOf, Negation, IsPositive

\* Two literals of a variable are equal or opposite.
LEMMA SameVar ==
    ASSUME NEW k \in Lits, NEW l \in Lits, VarOf(k) = VarOf(l)
    PROVE  /\ k = l \/ k = Negation(l)
           /\ k = l <=> IsPositive(k) = IsPositive(l)
BY NbVarsAssumption DEF Lits, Vars, VarOf, Negation, IsPositive

\* SignedLit builds the literal of a variable with the given sign.
LEMMA SignedLitFacts ==
    ASSUME NEW v \in Vars, NEW b \in BOOLEAN
    PROVE  /\ SignedLit(v, b) \in Lits
           /\ VarOf(SignedLit(v, b)) = v
           /\ IsPositive(SignedLit(v, b)) = ~ b
BY NbVarsAssumption DEF Lits, Vars, VarOf, SignedLit, IsPositive

-----------------------------------------------------------------------------
(* Entailment.                                                             *)

\* An assignment makes a literal or its negation true, not both.
LEMMA HoldsNegation ==
    ASSUME NEW a \in Assignments, NEW l \in Lits
    PROVE  Holds(a, Negation(l)) <=> ~ Holds(a, l)
<1>1. a[VarOf(l)] \in BOOLEAN
  BY LitFacts DEF Assignments
<1> QED BY <1>1, LitFacts DEF Holds

\* More premises entail at least as much, and weaker clauses are entailed too.
LEMMA EntailsWeaken ==
    ASSUME NEW F, NEW G, F \subseteq G, NEW C, NEW D, C \subseteq D, Entails(F, C)
    PROVE  Entails(G, D)
BY DEF Entails, SatAll, SatClause

\* A premise is entailed.
LEMMA EntailsMember ==
    ASSUME NEW F, NEW C \in F
    PROVE  Entails(F, C)
BY DEF Entails, SatAll

\* Resolution on l.
LEMMA EntailsResolve ==
    ASSUME NEW F, NEW C \in Clauses, NEW D \in Clauses, NEW l \in Lits, NEW E,
           Entails(F, C), Entails(F, D),
           C \ {Negation(l)} \subseteq E, D \ {l} \subseteq E
    PROVE  Entails(F, E)
<1> SUFFICES ASSUME NEW a \in Assignments, SatAll(a, F)
             PROVE  SatClause(a, E)
  BY DEF Entails
<1>1. SatClause(a, C) /\ SatClause(a, D)
  BY DEF Entails
<1>2. CASE Holds(a, l)
  BY <1>1, <1>2, HoldsNegation DEF SatClause
<1>3. CASE ~ Holds(a, l)
  BY <1>1, <1>3 DEF SatClause
<1> QED BY <1>2, <1>3

\* A clause whose literals are all refuted leaves no model.
LEMMA EntailsFalse ==
    ASSUME NEW F, NEW C \in Clauses, Entails(F, C),
           \A l \in C : Entails(F, {Negation(l)})
    PROVE  ~ Satisfiable(F)
<1> SUFFICES ASSUME NEW a \in Assignments, SatAll(a, F) PROVE FALSE
  BY DEF Satisfiable
<1>1. PICK l \in C : Holds(a, l)
  BY DEF Entails, SatClause
<1>2. Holds(a, Negation(l))
  BY DEF Entails, SatClause
<1> QED BY <1>1, <1>2, HoldsNegation DEF Clauses

\* Unit propagation: when all other literals are refuted the last one holds.
LEMMA EntailsUnit ==
    ASSUME NEW F, NEW C \in Clauses, Entails(F, C), NEW l \in C,
           \A k \in C \ {l} : Entails(F, {Negation(k)})
    PROVE  Entails(F, {l})
<1> SUFFICES ASSUME NEW a \in Assignments, SatAll(a, F)
             PROVE  Holds(a, l)
  BY DEF Entails, SatClause
<1>1. PICK k \in C : Holds(a, k)
  BY DEF Entails, SatClause
<1>2. CASE k # l
  <2>1. Holds(a, Negation(k))
    BY <1>2 DEF Entails, SatClause
  <2> QED BY <1>1, <2>1, HoldsNegation DEF Clauses
<1> QED BY <1>1, <1>2

\* Refuted literals can be dropped from a clause.
LEMMA EntailsSimplified ==
    ASSUME NEW F, NEW C \in Clauses, NEW D, D \subseteq C, Entails(F, C),
           \A k \in C \ D : Entails(F, {Negation(k)})
    PROVE  Entails(F, D)
<1> SUFFICES ASSUME NEW a \in Assignments, SatAll(a, F)
             PROVE  SatClause(a, D)
  BY DEF Entails
<1>1. PICK k \in C : Holds(a, k)
  BY DEF Entails, SatClause
<1>2. CASE k \notin D
  <2>1. Holds(a, Negation(k))
    BY <1>2 DEF Entails, SatClause
  <2> QED BY <1>1, <2>1, HoldsNegation DEF Clauses
<1> QED BY <1>1, <1>2 DEF SatClause

-----------------------------------------------------------------------------
(* Sums.                                                                   *)

\* A sum counts a finite set of pairs.
LEMMA SumFinite ==
    ASSUME NEW I, IsFiniteSet(I), NEW f, \A i \in I : f[i] \in Nat
    PROVE  /\ IsFiniteSet(UNION {{i} \X (1 .. f[i]) : i \in I})
           /\ SumOf(f, I) \in Nat
<1> DEFINE T == {{i} \X (1 .. f[i]) : i \in I}
           g == [i \in I |-> {i} \X (1 .. f[i])]
<1>1. IsFiniteSet(T)
  <2>1. g \in Surjection(I, T)
    BY DEF Surjection
  <2> QED BY <2>1, FS_Surjection
<1>2. ASSUME NEW i \in I PROVE IsFiniteSet({i} \X (1 .. f[i]))
  <2>1. IsFiniteSet(1 .. f[i])
    BY FS_Interval
  <2> DEFINE h == [k \in 1 .. f[i] |-> <<i, k>>]
  <2>2. h \in Surjection(1 .. f[i], {i} \X (1 .. f[i]))
    BY DEF Surjection
  <2> QED BY <2>1, <2>2, FS_Surjection
<1>3. \A t \in T : IsFiniteSet(t)
  BY <1>2
<1>4. IsFiniteSet(UNION T)
  <2> HIDE DEF T
  <2> QED BY <1>1, <1>3, FS_UNION
<1> QED BY <1>4, FS_CardinalityType DEF SumOf

\* The sum over no index is 0.
LEMMA SumEmpty == ASSUME NEW f PROVE SumOf(f, {}) = 0
<1>1. UNION {{i} \X (1 .. f[i]) : i \in {}} = {}
  OBVIOUS
<1> QED BY <1>1, FS_EmptySet DEF SumOf

\* Sums over disjoint sets of indices add up.
LEMMA SumUnion ==
    ASSUME NEW I, IsFiniteSet(I), NEW J, IsFiniteSet(J), I \cap J = {},
           NEW f, \A i \in I \cup J : f[i] \in Nat
    PROVE  SumOf(f, I \cup J) = SumOf(f, I) + SumOf(f, J)
<1> DEFINE P(K) == UNION {{i} \X (1 .. f[i]) : i \in K}
<1>1. P(I \cup J) = P(I) \cup P(J)
  OBVIOUS
<1>2. P(I) \cap P(J) = {}
  OBVIOUS
<1>3. IsFiniteSet(P(I)) /\ IsFiniteSet(P(J))
  BY SumFinite
<1>4. /\ SumOf(f, I) = Cardinality(P(I)) /\ SumOf(f, J) = Cardinality(P(J))
      /\ SumOf(f, I \cup J) = Cardinality(P(I \cup J))
  BY DEF SumOf
<1>5. SumOf(f, I) \in Nat /\ SumOf(f, J) \in Nat
  BY SumFinite
<1>6. Cardinality(P(I) \cap P(J)) = 0
  BY <1>2, FS_EmptySet
<1>7. Cardinality(P(I) \cup P(J)) = Cardinality(P(I)) + Cardinality(P(J)) - Cardinality(P(I) \cap P(J))
  BY <1>3, FS_Union
<1>8. SumOf(f, I \cup J) = Cardinality(P(I) \cup P(J))
  BY <1>1, <1>4
<1>9. SumOf(f, I \cup J) = SumOf(f, I) + SumOf(f, J) - 0
  BY <1>4, <1>6, <1>7, <1>8
<1> QED BY <1>5, <1>9

\* A sum over more indices is at least as large.
LEMMA SumSubset ==
    ASSUME NEW J, IsFiniteSet(J), NEW I, I \subseteq J,
           NEW f, \A i \in J : f[i] \in Nat
    PROVE  /\ SumOf(f, I) \in Nat /\ SumOf(f, J) \in Nat /\ SumOf(f, J \ I) \in Nat
           /\ SumOf(f, J) = SumOf(f, I) + SumOf(f, J \ I)
<1>1. IsFiniteSet(I) /\ IsFiniteSet(J \ I)
  BY FS_Subset
<1>2. I \cup (J \ I) = J /\ I \cap (J \ I) = {}
  OBVIOUS
<1>3. \A i \in I \cup (J \ I) : f[i] \in Nat
  OBVIOUS
<1>4. SumOf(f, I \cup (J \ I)) = SumOf(f, I) + SumOf(f, J \ I)
  BY <1>1, <1>2, <1>3, SumUnion
<1>5. SumOf(f, I) \in Nat /\ SumOf(f, J) \in Nat /\ SumOf(f, J \ I) \in Nat
  BY <1>1, SumFinite
<1> QED BY <1>2, <1>4, <1>5

\* The sum over one index.
LEMMA SumOne ==
    ASSUME NEW f, NEW i, f[i] \in Nat
    PROVE  SumOf(f, {i}) = f[i]
<1> DEFINE h == [k \in 1 .. f[i] |-> <<i, k>>]
           P == UNION {{j} \X (1 .. f[j]) : j \in {i}}
<1>1. P = {i} \X (1 .. f[i])
  OBVIOUS
<1>2. h \in Bijection(1 .. f[i], {i} \X (1 .. f[i]))
  <2>1. h \in [1 .. f[i] -> {i} \X (1 .. f[i])]
    OBVIOUS
  <2>2. \A k, m \in 1 .. f[i] : h[k] = h[m] => k = m
    OBVIOUS
  <2>3. \A t \in {i} \X (1 .. f[i]) : t[2] \in 1 .. f[i] /\ h[t[2]] = t
    OBVIOUS
  <2> HIDE DEF h
  <2>4. \A t \in {i} \X (1 .. f[i]) : \E k \in 1 .. f[i] : h[k] = t
    BY <2>3
  <2>5. IsInjective(h)
    BY <2>1, <2>2 DEF IsInjective
  <2> QED BY <2>1, <2>2, <2>4, <2>5 DEF Bijection, Injection, Surjection
<1>3. IsFiniteSet(1 .. f[i]) /\ Cardinality(1 .. f[i]) = f[i]
  BY FS_Interval, SMTT(30)
<1>4. Cardinality(P) = f[i]
  <2>1. ExistsBijection(1 .. f[i], {i} \X (1 .. f[i]))
    BY <1>2 DEF ExistsBijection
  <2>2. Cardinality({i} \X (1 .. f[i])) = Cardinality(1 .. f[i])
    BY <1>3, <2>1, FS_Bijection
  <2>3. Cardinality(1 .. f[i]) = f[i]
    BY <1>3
  <2> QED BY <1>1, <2>2, <2>3
<1> QED BY <1>4 DEF SumOf

\* A sum is 0 when all terms are, and at least each of its terms.
LEMMA SumTerm ==
    ASSUME NEW I, IsFiniteSet(I), NEW f, \A i \in I : f[i] \in Nat, NEW i \in I
    PROVE  SumOf(f, I) = f[i] + SumOf(f, I \ {i}) /\ SumOf(f, I \ {i}) \in Nat
<1>1. SumOf(f, {i}) = f[i]
  BY SumOne
<1> QED BY <1>1, SumSubset, {i} \subseteq I

\* A sum only reads the terms.
LEMMA SumEqual ==
    ASSUME NEW I, NEW f, NEW g, \A i \in I : f[i] = g[i]
    PROVE  SumOf(f, I) = SumOf(g, I)
<1>1. UNION {{i} \X (1 .. f[i]) : i \in I} = UNION {{i} \X (1 .. g[i]) : i \in I}
  OBVIOUS
<1> QED BY <1>1 DEF SumOf

\* Larger terms have a larger sum.
LEMMA SumMonotone ==
    ASSUME NEW I, IsFiniteSet(I), NEW f, NEW g,
           \A i \in I : f[i] \in Nat /\ g[i] \in Nat /\ f[i] <= g[i]
    PROVE  SumOf(f, I) <= SumOf(g, I)
<1> DEFINE P(h) == UNION {{i} \X (1 .. h[i]) : i \in I}
<1>1. P(f) \subseteq P(g)
  <2> SUFFICES ASSUME NEW i \in I, NEW t \in {i} \X (1 .. f[i])
               PROVE  t \in {i} \X (1 .. g[i])
    OBVIOUS
  <2>1. 1 .. f[i] \subseteq 1 .. g[i]
    OBVIOUS
  <2> QED BY <2>1
<1>2. IsFiniteSet(P(g))
  BY SumFinite
<1>3. Cardinality(P(f)) <= Cardinality(P(g))
  <2> HIDE DEF P
  <2> QED BY <1>1, <1>2, FS_Subset
<1> QED BY <1>3 DEF SumOf

\* The sum of zeroes.
LEMMA SumZero ==
    ASSUME NEW I, NEW f, \A i \in I : f[i] = 0
    PROVE  SumOf(f, I) = 0
<1>1. UNION {{i} \X (1 .. f[i]) : i \in I} = {}
  <2>1. \A i \in I : 1 .. f[i] = {}
    OBVIOUS
  <2> QED BY <2>1
<1> QED BY <1>1, FS_EmptySet DEF SumOf

\* Indices may be renamed.
LEMMA SumImage ==
    ASSUME NEW I, IsFiniteSet(I), NEW J, NEW b \in Bijection(I, J),
           NEW f, NEW g, \A i \in I : f[i] \in Nat /\ g[b[i]] = f[i]
    PROVE  SumOf(g, J) = SumOf(f, I)
<1> DEFINE P == UNION {{i} \X (1 .. f[i]) : i \in I}
           Q == UNION {{j} \X (1 .. g[j]) : j \in J}
           h == [t \in P |-> <<b[t[1]], t[2]>>]
<1>0. /\ b \in [I -> J]
      /\ \A i, j \in I : b[i] = b[j] => i = j
      /\ \A j \in J : \E i \in I : b[i] = j
  BY DEF Bijection, Injection, Surjection, IsInjective
<1>1. \A t \in P : t[1] \in I /\ t[2] \in 1 .. f[t[1]] /\ t = <<t[1], t[2]>>
  OBVIOUS
<1>2. h \in [P -> Q]
  <2> SUFFICES ASSUME NEW t \in P PROVE <<b[t[1]], t[2]>> \in Q
    OBVIOUS
  <2>1. t[1] \in I /\ t[2] \in 1 .. f[t[1]]
    BY <1>1
  <2> HIDE DEF P
  <2>2. b[t[1]] \in J /\ t[2] \in 1 .. g[b[t[1]]]
    BY <1>0, <2>1
  <2> QED BY <2>2
<1>3. ASSUME NEW s \in P, NEW t \in P, h[s] = h[t] PROVE s = t
  <2> HIDE DEF P
  <2>1. b[s[1]] = b[t[1]] /\ s[2] = t[2]
    BY <1>3
  <2>2. s[1] = t[1]
    BY <1>0, <1>1, <2>1
  <2> QED BY <1>1, <2>1, <2>2
<1>4. ASSUME NEW q \in Q PROVE \E t \in P : h[t] = q
  <2>1. PICK j \in J : q \in {j} \X (1 .. g[j])
    OBVIOUS
  <2>2. PICK i \in I : b[i] = j
    BY <1>0
  <2>3. q[2] \in 1 .. f[i] /\ q = <<j, q[2]>>
    BY <2>1, <2>2
  <2>4. <<i, q[2]>> \in P
    BY <2>3
  <2>5. h[<<i, q[2]>>] = q
    BY <2>2, <2>3, <2>4
  <2> QED BY <2>4, <2>5
<1>5. h \in Bijection(P, Q)
  <2> HIDE DEF h, P, Q
  <2> QED BY <1>2, <1>3, <1>4 DEF Bijection, Injection, Surjection, IsInjective
<1>6. IsFiniteSet(P)
  BY SumFinite
<1>7. Cardinality(P) = Cardinality(Q)
  <2> HIDE DEF h, P, Q
  <2> QED BY <1>5, <1>6, FS_Bijection DEF ExistsBijection
<1> QED BY <1>7 DEF SumOf

\* The sum of the sums, term by term.
LEMMA SumAdd ==
    ASSUME NEW I, IsFiniteSet(I), NEW f, NEW g, NEW h,
           \A i \in I : f[i] \in Nat /\ g[i] \in Nat /\ h[i] = f[i] + g[i]
    PROVE  SumOf(h, I) = SumOf(f, I) + SumOf(g, I)
<1> DEFINE F == UNION {{i} \X (1 .. f[i]) : i \in I}
           G == UNION {{i} \X (1 .. g[i]) : i \in I}
           H == UNION {{i} \X (1 .. h[i]) : i \in I}
           S == {t \in H : t[2] > f[t[1]]}
           k == [t \in G |-> <<t[1], f[t[1]] + t[2]>>]
<1>1. \A i : \A m : <<i, m>> \in G <=> i \in I /\ m \in 1 .. g[i]
  OBVIOUS
<1>2. \A i : \A m : <<i, m>> \in H <=> i \in I /\ m \in 1 .. h[i]
  OBVIOUS
<1>3. \A i : \A m : <<i, m>> \in F <=> i \in I /\ m \in 1 .. f[i]
  OBVIOUS
<1>4. /\ \A t \in F : t = <<t[1], t[2]>>
      /\ \A t \in G : t = <<t[1], t[2]>>
      /\ \A t \in H : t = <<t[1], t[2]>>
  OBVIOUS
<1> HIDE DEF F, G, H
<1>5. H = F \cup S /\ F \cap S = {}
  <2>1. ASSUME NEW t \in F PROVE t \in H /\ t \notin S
    <3>1. t[1] \in I /\ t[2] \in 1 .. f[t[1]]
      BY <1>3, <1>4
    <3>2. t[2] \in 1 .. h[t[1]]
      BY <3>1
    <3> QED BY <3>1, <3>2, <1>2, <1>4
  <2>2. ASSUME NEW t \in H, t \notin S PROVE t \in F
    <3>1. t[1] \in I /\ t[2] \in 1 .. h[t[1]] /\ ~ (t[2] > f[t[1]])
      BY <1>2, <1>4, <2>2
    <3>2. t[2] \in 1 .. f[t[1]]
      BY <3>1
    <3> QED BY <3>1, <3>2, <1>3, <1>4
  <2> QED BY <2>1, <2>2
<1>6. k \in Bijection(G, S)
  <2>1. ASSUME NEW t \in G PROVE k[t] \in S
    <3>1. t[1] \in I /\ t[2] \in 1 .. g[t[1]]
      BY <1>1, <1>4
    <3>2. f[t[1]] + t[2] \in 1 .. h[t[1]] /\ f[t[1]] + t[2] > f[t[1]]
      BY <3>1
    <3> QED BY <3>1, <3>2, <1>2
  <2>2. ASSUME NEW s \in G, NEW t \in G, k[s] = k[t] PROVE s = t
    <3>1. /\ s[1] \in I /\ s[2] \in 1 .. g[s[1]]
          /\ t[1] \in I /\ t[2] \in 1 .. g[t[1]]
      BY <1>1, <1>4
    <3>2. s[1] = t[1] /\ f[s[1]] + s[2] = f[t[1]] + t[2]
      BY <2>2
    <3>3. s[2] = t[2]
      BY <3>1, <3>2
    <3> QED BY <3>2, <3>3, <1>4
  <2>3. ASSUME NEW s \in S PROVE \E t \in G : k[t] = s
    <3>1. s[1] \in I /\ s[2] \in 1 .. h[s[1]] /\ s[2] > f[s[1]] /\ s = <<s[1], s[2]>>
      BY <1>2, <1>4
    <3>2. s[2] - f[s[1]] \in 1 .. g[s[1]] /\ f[s[1]] + (s[2] - f[s[1]]) = s[2]
      BY <3>1
    <3>3. <<s[1], s[2] - f[s[1]]>> \in G
      BY <3>1, <3>2, <1>1
    <3>4. k[<<s[1], s[2] - f[s[1]]>>] = s
      BY <3>1, <3>2, <3>3
    <3> QED BY <3>3, <3>4
  <2>4. k \in [G -> S]
    BY <2>1
  <2> HIDE DEF k, S
  <2> QED BY <2>2, <2>3, <2>4 DEF Bijection, Injection, Surjection, IsInjective
<1>7. IsFiniteSet(F) /\ IsFiniteSet(G)
  BY SumFinite DEF F, G
<1>8. IsFiniteSet(S) /\ Cardinality(S) = Cardinality(G)
  <2> HIDE DEF k, S
  <2> QED BY <1>6, <1>7, FS_Bijection DEF ExistsBijection
<1>9. Cardinality(H) = Cardinality(F) + Cardinality(S) - Cardinality(F \cap S)
  <2> HIDE DEF S
  <2> QED BY <1>5, <1>7, <1>8, FS_Union
<1>10. Cardinality(F \cap S) = 0
  BY <1>5, FS_EmptySet
<1>11. Cardinality(F) \in Nat /\ Cardinality(G) \in Nat
  BY <1>7, FS_CardinalityType
<1> HIDE DEF S
<1>12. Cardinality(H) = Cardinality(F) + Cardinality(G)
  BY <1>8, <1>9, <1>10, <1>11
<1> QED BY <1>12 DEF SumOf, F, G, H

\* A common factor.
LEMMA SumScale ==
    ASSUME NEW I, IsFiniteSet(I), NEW f, \A i \in I : f[i] \in Nat, NEW d \in Nat
    PROVE  SumOf([i \in I |-> d * f[i]], I) = d * SumOf(f, I)
<1> DEFINE m(n) == [i \in I |-> n * f[i]]
           Bad == {n \in Nat : SumOf(m(n), I) # n * SumOf(f, I)}
<1>1. SumOf(f, I) \in Nat
  BY SumFinite
<1>2. SUFFICES ASSUME Bad # {} PROVE FALSE
  OBVIOUS
<1>3. PICK n \in Bad : \A k \in Bad : n <= k
  <2> HIDE DEF Bad
  <2>1. Bad \subseteq Nat
    BY DEF Bad
  <2> QED BY <1>2, <2>1, NatMin
<1>4. n # 0
  <2>1. \A i \in I : m(0)[i] = 0
    OBVIOUS
  <2>2. SumOf(m(0), I) = 0
    <3> HIDE DEF m
    <3> QED BY <2>1, SumZero
  <2>3. 0 * SumOf(f, I) = 0
    BY <1>1
  <2>4. 0 \notin Bad
    BY <2>2, <2>3
  <2> HIDE DEF Bad
  <2> QED BY <2>4
<1>5. n - 1 \in Nat /\ n \in Nat /\ n - 1 \notin Bad
  BY <1>3, <1>4
<1>6. SumOf(m(n - 1), I) = (n - 1) * SumOf(f, I)
  BY <1>5
<1>7. \A i \in I : m(n - 1)[i] \in Nat /\ m(n)[i] = m(n - 1)[i] + f[i]
  <2> SUFFICES ASSUME NEW i \in I
               PROVE  (n - 1) * f[i] \in Nat /\ n * f[i] = (n - 1) * f[i] + f[i]
    OBVIOUS
  <2>1. f[i] \in Nat /\ n - 1 \in Nat
    BY <1>5
  <2> QED BY <2>1, <1>5
<1>8. SumOf(m(n), I) = SumOf(m(n - 1), I) + SumOf(f, I)
  <2> HIDE DEF m
  <2> QED BY <1>7, SumAdd
<1>9. n * SumOf(f, I) = (n - 1) * SumOf(f, I) + SumOf(f, I)
  BY <1>1, <1>5
<1> QED BY <1>3, <1>6, <1>8, <1>9

\* A sum of ones counts the indices.
LEMMA SumOnes ==
    ASSUME NEW I, IsFiniteSet(I), NEW f, \A i \in I : f[i] = 1
    PROVE  SumOf(f, I) = Cardinality(I)
<1> DEFINE P == UNION {{i} \X (1 .. f[i]) : i \in I}
           h == [i \in I |-> <<i, 1>>]
<1>1. P = {<<i, 1>> : i \in I}
  <2>1. \A i \in I : 1 .. f[i] = {1}
    OBVIOUS
  <2> QED BY <2>1
<1>2. h \in Bijection(I, P)
  <2> HIDE DEF P
  <2> QED BY <1>1 DEF Bijection, Injection, Surjection, IsInjective
<1>3. Cardinality(P) = Cardinality(I)
  <2> HIDE DEF P, h
  <2> QED BY <1>2, FS_Bijection DEF ExistsBijection
<1> QED BY <1>3 DEF SumOf

-----------------------------------------------------------------------------
(* Sorting.                                                                *)

\* R puts the elements of V one after the other.
StrictOrder(V, R) ==
    /\ \A u, v \in V : u # v => (<<u, v>> \in R <=> <<v, u>> \notin R)
    /\ \A u, v, w \in V : <<u, v>> \in R /\ <<v, w>> \in R => <<u, w>> \in R

Below(V, R, v) == {u \in V \ {v} : <<u, v>> \in R}

\* Every place from 0 is taken by one element.
Ranked(V, R) ==
    /\ Cardinality(V) \in Nat
    /\ \A v \in V : Cardinality(Below(V, R, v)) \in 0 .. Cardinality(V) - 1
    /\ \A u, v \in V : Cardinality(Below(V, R, u)) = Cardinality(Below(V, R, v)) => u = v
    /\ \A k \in 0 .. Cardinality(V) - 1 : \E v \in V : Cardinality(Below(V, R, v)) = k

\* f lists V in that order.
Sorts(f, V, R) ==
    /\ Cardinality(V) \in Nat /\ DOMAIN f = 1 .. Cardinality(V)
    /\ f \in Bijection(1 .. Cardinality(V), V)
    /\ \A k \in DOMAIN f : f[k] \in V
    /\ \A j, k \in DOMAIN f : f[j] = f[k] => j = k
    /\ \A v \in V : \E k \in DOMAIN f : f[k] = v
    /\ \A j, k \in DOMAIN f : j < k => <<f[j], f[k]>> \in R

LEMMA Ranks ==
    ASSUME NEW V, IsFiniteSet(V), NEW R, StrictOrder(V, R)
    PROVE  Ranked(V, R)
<1> DEFINE n == Cardinality(V)
           r == [v \in V |-> Cardinality(Below(V, R, v))]
<1>0. n \in Nat
  BY FS_CardinalityType
<1>1. ASSUME NEW v \in V
      PROVE  /\ IsFiniteSet(Below(V, R, v)) /\ v \notin Below(V, R, v)
             /\ r[v] \in 0 .. n - 1
  <2>1. Below(V, R, v) \subseteq V \ {v} /\ v \notin Below(V, R, v)
    BY DEF Below
  <2>2. IsFiniteSet(V \ {v}) /\ Cardinality(V \ {v}) = n - 1
    BY FS_RemoveElement
  <2>3. /\ IsFiniteSet(Below(V, R, v))
        /\ Cardinality(Below(V, R, v)) <= n - 1
    BY <2>1, <2>2, FS_Subset
  <2>4. Cardinality(Below(V, R, v)) \in Nat
    BY <2>3, FS_CardinalityType
  <2> QED BY <1>0, <2>1, <2>3, <2>4
<1>2. ASSUME NEW u \in V, NEW v \in V, u # v, <<u, v>> \in R
      PROVE  r[u] < r[v]
  <2> DEFINE B == Below(V, R, u) \union {u}
  <2>1. B \subseteq Below(V, R, v)
    <3> SUFFICES ASSUME NEW w \in Below(V, R, u) PROVE w \in Below(V, R, v)
      BY <1>2 DEF Below
    <3>1. w \in V /\ w # u /\ <<w, u>> \in R
      BY DEF Below
    <3>2. <<w, v>> \in R
      BY <1>2, <3>1 DEF StrictOrder
    <3>3. w # v
      BY <1>2, <3>1 DEF StrictOrder
    <3> QED BY <3>1, <3>2, <3>3 DEF Below
  <2>2. Cardinality(B) = Cardinality(Below(V, R, u)) + 1
    BY <1>1, FS_AddElement
  <2>3. Cardinality(B) <= Cardinality(Below(V, R, v))
    <3> HIDE DEF B
    <3> QED BY <1>1, <2>1, FS_Subset
  <2> QED BY <1>1, <2>2, <2>3
<1>3. ASSUME NEW u \in V, NEW v \in V, r[u] = r[v] PROVE u = v
  <2> SUFFICES ASSUME u # v PROVE FALSE
    OBVIOUS
  <2>1. <<u, v>> \in R \/ <<v, u>> \in R
    BY DEF StrictOrder
  <2>2. r[u] < r[v] \/ r[v] < r[u]
    <3> HIDE DEF r
    <3> QED BY <1>2, <2>1
  <2>3. r[u] \in 0 .. n - 1 /\ r[v] \in 0 .. n - 1
    BY <1>1
  <2> HIDE DEF r
  <2> QED BY <1>0, <1>3, <2>2, <2>3
<1>4. r \in Injection(V, 0 .. n - 1)
  <2>1. r \in [V -> 0 .. n - 1]
    BY <1>1
  <2> HIDE DEF r, n
  <2> QED BY <1>3, <2>1 DEF Injection, IsInjective
<1>5. IsFiniteSet(0 .. n - 1) /\ Cardinality(0 .. n - 1) = n
  <2>1. 0 \in Int /\ n - 1 \in Int
    BY <1>0
  <2>2. IsFiniteSet(0 .. n - 1) /\ Cardinality(0 .. n - 1) = IF 0 > n - 1 THEN 0 ELSE (n - 1) - 0 + 1
    BY ONLY <2>1, FS_Interval
  <2> QED BY <1>0, <2>2
<1>6. r \in Surjection(V, 0 .. n - 1)
  <2> HIDE DEF r
  <2> QED BY <1>4, <1>5, FS_Injection
<1>7. \A k \in 0 .. n - 1 : \E v \in V : r[v] = k
  <2> HIDE DEF r, n
  <2> QED BY <1>6 DEF Surjection
<1> QED BY <1>0, <1>1, <1>3, <1>7 DEF Ranked

\* The elements in that order.
LEMMA SortedFacts ==
    ASSUME NEW V, IsFiniteSet(V), NEW R, StrictOrder(V, R), NEW f,
           f = [k \in 1 .. Cardinality(V) |-> f[k]],
           \A k \in 1 .. Cardinality(V) :
                f[k] \in V /\ Cardinality(Below(V, R, f[k])) = k - 1
    PROVE  Sorts(f, V, R)
<1> DEFINE n == Cardinality(V)
           r(v) == Cardinality(Below(V, R, v))
<1>1. /\ n \in Nat
      /\ \A v \in V : r(v) \in 0 .. n - 1
      /\ \A u, v \in V : r(u) = r(v) => u = v
      /\ \A k \in 0 .. n - 1 : \E v \in V : r(v) = k
  BY Ranks DEF Ranked
<1>2. ASSUME NEW k \in 1 .. n PROVE f[k] \in V /\ r(f[k]) = k - 1
  OBVIOUS
<1>3. ASSUME NEW j \in 1 .. n, NEW k \in 1 .. n, f[j] = f[k] PROVE j = k
  <2> HIDE DEF r, n
  <2>1. r(f[j]) = j - 1 /\ r(f[k]) = k - 1
    BY <1>2
  <2>2. j \in Int /\ k \in Int
    BY <1>1
  <2> QED BY <1>3, <2>1, <2>2
<1>4. ASSUME NEW v \in V PROVE \E k \in 1 .. n : f[k] = v
  <2>1. r(v) \in 0 .. n - 1
    BY <1>1
  <2>2. r(v) + 1 \in 1 .. n /\ (r(v) + 1) - 1 = r(v)
    BY <1>1, <2>1
  <2> HIDE DEF r, n
  <2>3. f[r(v) + 1] \in V /\ r(f[r(v) + 1]) = r(v)
    BY <1>2, <2>2
  <2>4. f[r(v) + 1] = v
    BY <1>1, <2>3
  <2> QED BY <2>2, <2>4
<1>5. ASSUME NEW j \in 1 .. n, NEW k \in 1 .. n, j < k PROVE <<f[j], f[k]>> \in R
  <2>0. f[j] \in V /\ f[k] \in V /\ r(f[j]) = j - 1 /\ r(f[k]) = k - 1
    BY <1>2
  <2>1. f[j] # f[k]
    BY <1>3, <1>5, <1>1
  <2> SUFFICES ASSUME <<f[k], f[j]>> \in R PROVE FALSE
    BY <2>0, <2>1 DEF StrictOrder
  <2>2. Below(V, R, f[k]) \subseteq Below(V, R, f[j])
    <3> SUFFICES ASSUME NEW w \in Below(V, R, f[k]) PROVE w \in Below(V, R, f[j])
      OBVIOUS
    <3>1. w \in V /\ w # f[k] /\ <<w, f[k]>> \in R
      BY DEF Below
    <3>2. <<w, f[j]>> \in R
      BY <2>0, <3>1 DEF StrictOrder
    <3>3. w # f[j]
      BY <2>0, <2>1, <3>1 DEF StrictOrder
    <3> QED BY <3>1, <3>2, <3>3 DEF Below
  <2>3. IsFiniteSet(Below(V, R, f[j]))
    <3>1. Below(V, R, f[j]) \subseteq V
      BY DEF Below
    <3> QED BY <3>1, FS_Subset
  <2>4. r(f[k]) <= r(f[j])
    BY <2>2, <2>3, FS_Subset
  <2> HIDE DEF r, n
  <2> QED BY <1>1, <1>5, <2>0, <2>4
<1>6. DOMAIN f = 1 .. n
  OBVIOUS
<1>7. f \in Bijection(1 .. n, V)
  <2>1. f \in [1 .. n -> V]
    <3> HIDE DEF n
    <3>1. f = [k \in 1 .. n |-> f[k]]
      BY DEF n
    <3> QED BY <1>2, <3>1
  <2>2. \A j, k \in 1 .. n : f[j] = f[k] => j = k
    BY ONLY <1>3
  <2>3. \A v \in V : \E k \in 1 .. n : f[k] = v
    BY ONLY <1>4
  <2> HIDE DEF n
  <2> QED BY ONLY <1>6, <2>1, <2>2, <2>3 DEF Bijection, Injection, Surjection, IsInjective
<1> QED BY <1>1, <1>2, <1>3, <1>4, <1>5, <1>6, <1>7 DEF Sorts
=============================================================================
