------------------------------ MODULE PBLemmas ------------------------------
(***************************************************************************)
(* What the proofs about pseudo-boolean problems (module PBProofs) rest    *)
(* on: the algebra of cutting planes, what is enough for a constraint and  *)
(* what it implies, how the bindings change when literals are bound and    *)
(* when levels are undone, every step of propagate, decisions and going    *)
(* back to level 1.                                                        *)
(***************************************************************************)
EXTENDS PBSafety, SolverLemmas

-----------------------------------------------------------------------------
(* The weights of a pbSet.                                                 *)

\* The pbSets that cuttingPlanes computes.
Cuts == [weights : [Vars -> Int], card : Int]

\* What each variable brings to p when the literals S are true.
Share(p, S) ==
    [u \in Vars |-> IF Negation(LitOf(p, u)) \in S THEN 0 ELSE Abs(p.weights[u])]

\* What is left of p without v.
Remaining(p, v, S) == SumOf(Share(p, S), Vars \ {v})

LEMMA FunctionIsSeq ==
    ASSUME NEW T, NEW n \in Nat, NEW s \in [1 .. n -> T]
    PROVE  s \in Seq(T) /\ Len(s) = n /\ DOMAIN s = 1 .. n
<1>1. s \in Seq(T)
  BY SeqDef
<1>2. DOMAIN s = 1 .. n /\ DOMAIN s = 1 .. Len(s) /\ Len(s) \in Nat
  BY <1>1, LenProperties
<1> QED BY <1>1, <1>2

\* A sum over some of the indices, as a sum over all of them.
LEMMA SumRestrict ==
    ASSUME NEW I, IsFiniteSet(I), NEW J, J \subseteq I, NEW f, \A i \in I : f[i] \in Nat
    PROVE  SumOf(f, J) = SumOf([i \in I |-> IF i \in J THEN f[i] ELSE 0], I)
<1> DEFINE g == [i \in I |-> IF i \in J THEN f[i] ELSE 0]
<1>1. \A i \in I : g[i] \in Nat
  OBVIOUS
<1>2. SumOf(g, J) = SumOf(f, J)
  BY SumEqual, \A i \in J : g[i] = f[i]
<1>3. SumOf(g, I \ J) = 0
  BY SumZero, \A i \in I \ J : g[i] = 0
<1>4. SumOf(g, I) = SumOf(g, J) + SumOf(g, I \ J) /\ SumOf(g, J) \in Nat
  <2> HIDE DEF g
  <2> QED BY <1>1, SumSubset
<1> QED BY <1>2, <1>3, <1>4

LEMMA ShareFacts ==
    ASSUME NEW p \in Cuts, NEW S, NEW u \in Vars
    PROVE  /\ Share(p, S)[u] \in Nat /\ Abs(p.weights[u]) \in Nat
           /\ Share(p, S)[u] = IF Negation(LitOf(p, u)) \in S THEN 0 ELSE Abs(p.weights[u])
           /\ p.weights[u] \in Int
           /\ LitOf(p, u) \in Lits /\ VarOf(LitOf(p, u)) = u
           /\ IsPositive(LitOf(p, u)) <=> ~ (p.weights[u] < 0)
<1>1. p.weights[u] \in Int
  BY DEF Cuts
<1>2. Abs(p.weights[u]) \in Nat
  BY <1>1 DEF Abs
<1>3. (p.weights[u] < 0) \in BOOLEAN
  BY <1>1
<1> QED BY <1>1, <1>2, <1>3, SignedLitFacts DEF Share, LitOf

\* The literals that are not contradicted weigh what the variables bring.
LEMMA NotContradictedShares ==
    ASSUME NEW p \in Cuts, NEW S
    PROVE  /\ NotContradicted(p, S) = SumOf(Share(p, S), Vars)
           /\ NotContradicted(p, S) \in Nat
<1> DEFINE f == [u \in Vars |-> Abs(p.weights[u])]
           J == {u \in Vars : Negation(LitOf(p, u)) \notin S}
<1>1. IsFiniteSet(Vars)
  BY VarsFinite
<1>2. \A u \in Vars : f[u] \in Nat
  BY ShareFacts
<1>3. SumOf(f, J) = SumOf([u \in Vars |-> IF u \in J THEN f[u] ELSE 0], Vars)
  <2> HIDE DEF f
  <2> QED BY <1>1, <1>2, SumRestrict
<1>4. SumOf([u \in Vars |-> IF u \in J THEN f[u] ELSE 0], Vars) = SumOf(Share(p, S), Vars)
  BY SumEqual DEF Share
<1>5. SumOf(Share(p, S), Vars) \in Nat
  BY <1>1, ShareFacts, SumFinite
<1> QED BY <1>3, <1>4, <1>5 DEF NotContradicted

LEMMA RemainingFacts ==
    ASSUME NEW p \in Cuts, NEW S, NEW v \in Vars
    PROVE  /\ Remaining(p, v, S) \in Nat
           /\ NotContradicted(p, S) = Remaining(p, v, S) + Share(p, S)[v]
<1>1. IsFiniteSet(Vars) /\ \A u \in Vars : Share(p, S)[u] \in Nat
  BY VarsFinite, ShareFacts
<1>2. /\ SumOf(Share(p, S), Vars) = Share(p, S)[v] + SumOf(Share(p, S), Vars \ {v})
      /\ SumOf(Share(p, S), Vars \ {v}) \in Nat
  BY <1>1, SumTerm
<1> QED BY <1>1, <1>2, NotContradictedShares DEF Remaining

\* The literals S are those the bindings m make true.
MadeTrue(m, S) ==
    \A l \in Lits : l \in S <=> m[VarOf(l)] # 0 /\ (m[VarOf(l)] > 0 <=> IsPositive(l))

-----------------------------------------------------------------------------
(* Division.                                                               *)

LEMMA NegatedMultiple ==
    ASSUME NEW n \in Int, NEW d \in Nat \ {0}, n % d = 0
    PROVE  (-n) % d = 0
<1>1. n = d * (n \div d) /\ n \div d \in Int
  OBVIOUS
<1>2. -n = d * (-(n \div d))
  BY <1>1
<1>3. -n = d * ((-n) \div d) + ((-n) % d) /\ (-n) \div d \in Int /\ (-n) % d \in 0 .. d - 1
  OBVIOUS
<1> DEFINE x == (-n) \div d
           y == -(n \div d)
           r == (-n) % d
<1>4. d * (y - x) = r /\ y \in Int /\ x \in Int /\ r \in 0 .. d - 1
  BY <1>1, <1>2, <1>3
<1> HIDE DEF x, y, r
<1>5. y - x <= 0 \/ d * (y - x) >= d
  BY <1>4
<1>6. d * (y - x) <= 0 \/ d * (y - x) >= d
  BY <1>4, <1>5
<1> QED BY <1>4, <1>6 DEF r

LEMMA RoundedUpFacts ==
    ASSUME NEW n \in Nat, NEW d \in Nat \ {0}
    PROVE  /\ RoundedUp(n, d) \in Nat
           /\ n <= d * RoundedUp(n, d)
           /\ n = 0 <=> RoundedUp(n, d) = 0
           /\ n % d = 0 => n = d * RoundedUp(n, d)
           /\ \A k \in Int : n <= d * k => RoundedUp(n, d) <= k
           /\ \A k \in Int : d * k < n => k < RoundedUp(n, d)
<1>1. n \div d \in Nat /\ n % d \in Nat /\ n % d < d /\ n = d * (n \div d) + (n % d)
  OBVIOUS
<1>2. RoundedUp(n, d) = IF n % d = 0 THEN n \div d ELSE (n \div d) + 1
  BY DEF RoundedUp, Quotient
<1> DEFINE q == n \div d
           r == n % d
<1>3. q \in Nat /\ r \in Nat /\ r < d /\ n = d * q + r
  BY <1>1
<1>4. RoundedUp(n, d) = IF r = 0 THEN q ELSE q + 1
  BY <1>2
<1> HIDE DEF q, r
<1>5. d * (q + 1) = d * q + d
  BY <1>3
<1>6. RoundedUp(n, d) \in Nat /\ n <= d * RoundedUp(n, d)
  BY <1>3, <1>4, <1>5
<1>7. n = 0 <=> RoundedUp(n, d) = 0
  BY <1>3, <1>4
<1>8. n % d = 0 => n = d * RoundedUp(n, d)
  BY <1>3, <1>4 DEF r
<1>9. ASSUME NEW k \in Int, n <= d * k PROVE RoundedUp(n, d) <= k
  <2>1. CASE r = 0
    <3>1. d * q <= d * k
      BY <1>3, <1>9, <2>1
    <3>2. ~ (k < q)
      <4>1. k < q => d * (k + 1) <= d * q
        BY <1>3
      <4> QED BY <4>1, <3>1, <1>3
    <3> QED BY <3>2, <1>3, <1>4, <2>1
  <2>2. CASE r # 0
    <3>1. d * q < d * k
      BY <1>3, <1>9, <2>2
    <3>2. ~ (k <= q)
      <4>1. k <= q => d * k <= d * q
        BY <1>3
      <4> QED BY <4>1, <3>1, <1>3
    <3> QED BY <3>2, <1>3, <1>4, <2>2
  <2> QED BY <2>1, <2>2
<1>10. ASSUME NEW k \in Int, d * k < n PROVE k < RoundedUp(n, d)
  <2>1. d * k < d * RoundedUp(n, d)
    BY <1>6, <1>10
  <2>2. RoundedUp(n, d) <= k => d * RoundedUp(n, d) <= d * k
    BY <1>6
  <2> QED BY <2>1, <2>2, <1>6
<1> QED BY <1>6, <1>7, <1>8, <1>9, <1>10

-----------------------------------------------------------------------------
(* roundToOne.                                                             *)

\* The weights once what is not false and not a multiple was dropped.
Dropping(p, W) ==
    [weights |-> [u \in Vars |-> IF u \in W THEN 0 ELSE p.weights[u]],
     card |-> p.card - SumOf([u \in Vars |-> Abs(p.weights[u])], W)]

LEMMA DroppingFacts ==
    ASSUME NEW p \in Cuts, NEW W, W \subseteq Vars
    PROVE  /\ Dropping(p, W) \in Cuts
           /\ SumOf([u \in Vars |-> Abs(p.weights[u])], W) \in Nat
           /\ Dropping(p, W).card = p.card - SumOf([u \in Vars |-> Abs(p.weights[u])], W)
           /\ \A u \in Vars : Dropping(p, W).weights[u] = IF u \in W THEN 0 ELSE p.weights[u]
<1> DEFINE f == [u \in Vars |-> Abs(p.weights[u])]
<1>1. \A u \in W : f[u] \in Nat
  BY ShareFacts
<1>2. SumOf(f, W) \in Nat
  <2> HIDE DEF f
  <2> QED BY <1>1, VarsFinite, SumFinite
<1> QED BY <1>2 DEF Dropping, Cuts

LEMMA DivideByFacts ==
    ASSUME NEW p \in Cuts, p.card \in Nat, NEW d \in Nat \ {0}
    PROVE  /\ DivideBy(p, d) \in Cuts
           /\ DivideBy(p, d).card = RoundedUp(p.card, d)
           /\ \A u \in Vars :
                /\ Abs(DivideBy(p, d).weights[u]) = RoundedUp(Abs(p.weights[u]), d)
                /\ DivideBy(p, d).weights[u] = 0 <=> p.weights[u] = 0
                /\ DivideBy(p, d).weights[u] < 0 <=> p.weights[u] < 0
<1> DEFINE q == DivideBy(p, d)
<1>1. q.card = RoundedUp(p.card, d) /\ q.card \in Nat
  BY RoundedUpFacts DEF DivideBy
<1>2. ASSUME NEW u \in Vars
      PROVE  /\ q.weights[u] \in Int
             /\ Abs(q.weights[u]) = RoundedUp(Abs(p.weights[u]), d)
             /\ q.weights[u] = 0 <=> p.weights[u] = 0
             /\ q.weights[u] < 0 <=> p.weights[u] < 0
  <2>1. p.weights[u] \in Int
    BY DEF Cuts
  <2>2. q.weights[u] = IF p.weights[u] >= 0 THEN RoundedUp(p.weights[u], d)
                       ELSE -RoundedUp(-p.weights[u], d)
    BY DEF DivideBy
  <2>3. CASE p.weights[u] >= 0
    <3>1. p.weights[u] \in Nat
      BY <2>1, <2>3
    <3>2. RoundedUp(p.weights[u], d) \in Nat /\ (p.weights[u] = 0 <=> RoundedUp(p.weights[u], d) = 0)
      BY <3>1, RoundedUpFacts
    <3> QED BY <2>1, <2>2, <2>3, <3>2 DEF Abs
  <2>4. CASE p.weights[u] < 0
    <3>1. -p.weights[u] \in Nat
      BY <2>1, <2>4
    <3>2. RoundedUp(-p.weights[u], d) \in Nat /\ (-p.weights[u] = 0 <=> RoundedUp(-p.weights[u], d) = 0)
      BY <3>1, RoundedUpFacts
    <3> QED BY <2>1, <2>2, <2>4, <3>1, <3>2 DEF Abs
  <2> QED BY <2>1, <2>3, <2>4
<1>3. q = [weights |-> q.weights, card |-> q.card] /\ q.weights = [u \in Vars |-> q.weights[u]]
  BY DEF DivideBy
<1>4. q \in Cuts
  <2> HIDE DEF q
  <2>1. q.weights \in [Vars -> Int]
    BY <1>2, <1>3
  <2> QED BY <1>1, <1>3, <2>1 DEF Cuts
<1> QED BY <1>1, <1>2, <1>4

\* When p is false but for v, dividing it by the weight of v keeps it so, and
\* keeps its solutions: only literals that are not false are weakened.
LEMMA RoundToOneFacts ==
    ASSUME NEW p \in Cuts, NEW v \in Vars, p.weights[v] # 0,
           NEW m \in [Vars -> Int], NEW S, MadeTrue(m, S),
           Remaining(p, v, S) < p.card
    PROVE  /\ RoundToOne(p, v, m) \in Cuts
           /\ Abs(RoundToOne(p, v, m).weights[v]) = 1
           /\ Remaining(RoundToOne(p, v, m), v, S) < RoundToOne(p, v, m).card
           /\ \A u \in Vars : RoundToOne(p, v, m).weights[u] # 0 =>
                /\ p.weights[u] # 0
                /\ RoundToOne(p, v, m).weights[u] < 0 <=> p.weights[u] < 0
           /\ \A a \in Assignments : MeetsCut(a, p) => MeetsCut(a, RoundToOne(p, v, m))
<1> DEFINE d == Abs(p.weights[v])
           W == Weakened(p, d, m)
           f == [u \in Vars |-> Abs(p.weights[u])]
           w == Dropping(p, W)
           q == DivideBy(w, d)
<1>1. d \in Nat \ {0} /\ p.card \in Int
  BY DEF Abs, Cuts
<1>2. CASE d = 1
  <2>1. RoundToOne(p, v, m) = p
    BY <1>2 DEF RoundToOne
  <2> QED BY <2>1, <1>2
<1>3. CASE d # 1
  <2>1. RoundToOne(p, v, m) = q
    BY <1>3 DEF RoundToOne, Dropping
  <2>2. W \subseteq Vars /\ v \notin W
    <3>1. p.weights[v] % d = 0
      BY <1>1 DEF Abs, Cuts
    <3> QED BY <3>1 DEF Weakened
  <2>3. \A u \in Vars : u \in W <=> p.weights[u] % d # 0 /\ (m[u] = 0 \/ (m[u] > 0) = (p.weights[u] > 0))
    BY DEF Weakened
  <2>4. /\ w \in Cuts /\ SumOf(f, W) \in Nat /\ w.card = p.card - SumOf(f, W)
        /\ \A u \in Vars : w.weights[u] = IF u \in W THEN 0 ELSE p.weights[u]
    BY <2>2, DroppingFacts
  <2> DEFINE g == [u \in Vars |-> IF u \in W THEN f[u] ELSE 0]
             h == [u \in Vars \ {v} |-> IF u \in W THEN f[u] ELSE 0]
  <2>5. \A u \in Vars : f[u] \in Nat /\ f[u] = Abs(p.weights[u])
    BY ShareFacts
  <2>6. SumOf(f, W) = SumOf(g, Vars) /\ SumOf(f, W) = SumOf(h, Vars \ {v})
    <3> HIDE DEF f, W
    <3>1. IsFiniteSet(Vars) /\ IsFiniteSet(Vars \ {v})
      BY VarsFinite
    <3>2. SumOf(f, W) = SumOf(g, Vars)
      BY <3>1, <2>2, <2>5, SumRestrict
    <3>3. W \subseteq Vars \ {v}
      BY <2>2
    <3>4. SumOf(f, W) = SumOf(h, Vars \ {v})
      BY <3>1, <3>3, <2>5, SumRestrict
    <3> QED BY <3>2, <3>4
  <2> HIDE DEF q, w, W
  <2>7. \A u \in Vars \ {v} : h[u] \in Nat /\ Share(p, S)[u] \in Nat /\ h[u] <= Share(p, S)[u]
    <3> SUFFICES ASSUME NEW u \in Vars \ {v}, u \in W PROVE f[u] <= Share(p, S)[u]
      BY <2>5, ShareFacts
    <3>1. p.weights[u] \in Int /\ m[u] \in Int
      BY DEF Cuts
    <3>2. p.weights[u] # 0 /\ (m[u] = 0 \/ (m[u] > 0) = (p.weights[u] > 0))
      BY <1>1, <2>3, <3>1
    <3>3. Negation(LitOf(p, u)) \notin S
      <4> DEFINE l == LitOf(p, u)
      <4>1. /\ l \in Lits /\ VarOf(l) = u /\ (IsPositive(l) <=> ~ (p.weights[u] < 0))
            /\ Negation(l) \in Lits /\ VarOf(Negation(l)) = u
            /\ IsPositive(Negation(l)) <=> p.weights[u] < 0
        BY ShareFacts, LitFacts
      <4> HIDE DEF l
      <4>2. Negation(l) \in S => m[u] # 0 /\ (m[u] > 0 <=> p.weights[u] < 0)
        BY <4>1 DEF MadeTrue
      <4> QED BY <3>1, <3>2, <4>2 DEF l
    <3> QED BY <2>5, <3>3, ShareFacts
  <2>8. SumOf(h, Vars \ {v}) <= Remaining(p, v, S)
    <3> HIDE DEF h
    <3> QED BY <2>7, VarsFinite, SumMonotone DEF Remaining
  <2>9. w.card \in Nat
    BY <1>1, <2>4, <2>6, <2>8, RemainingFacts
  <2>10. /\ q \in Cuts /\ q.card = RoundedUp(w.card, d)
         /\ \A u \in Vars :
              /\ Abs(q.weights[u]) = RoundedUp(Abs(w.weights[u]), d)
              /\ q.weights[u] = 0 <=> w.weights[u] = 0
              /\ q.weights[u] < 0 <=> w.weights[u] < 0
    BY <1>1, <2>4, <2>9, DivideByFacts DEF q
  <2>11. \A u \in Vars : q.weights[u] # 0 =>
            u \notin W /\ p.weights[u] # 0 /\ (q.weights[u] < 0 <=> p.weights[u] < 0)
    BY <2>4, <2>10
  <2>12. Abs(q.weights[v]) = 1
    <3>1. Abs(w.weights[v]) = d
      BY <2>2, <2>4
    <3>2. RoundedUp(d, d) = 1
      <4>1. d % d = 0 /\ d \in Nat \ {0}
        BY <1>1
      <4>2. d \div d = 1
        BY <4>1
      <4> QED BY <4>1, <4>2 DEF RoundedUp
    <3> QED BY <2>10, <3>1, <3>2
  <2>13. ASSUME NEW T, NEW u \in Vars, u \notin W
         PROVE  /\ Share(p, T)[u] <= d * Share(q, T)[u]
                /\ p.weights[u] % d = 0 => Share(p, T)[u] = d * Share(q, T)[u]
                /\ Share(p, T)[u] = 0 => Share(q, T)[u] = 0
    <3>1. p.weights[u] \in Int /\ w.weights[u] = p.weights[u]
      BY <2>4, <2>13 DEF Cuts
    <3>2. LitOf(q, u) = LitOf(p, u)
      BY <2>10, <3>1 DEF LitOf
    <3>3. Abs(q.weights[u]) = RoundedUp(Abs(p.weights[u]), d) /\ Abs(p.weights[u]) \in Nat
      BY <2>10, <3>1 DEF Abs
    <3>4. /\ Abs(p.weights[u]) <= d * Abs(q.weights[u])
          /\ Abs(p.weights[u]) % d = 0 => Abs(p.weights[u]) = d * Abs(q.weights[u])
          /\ Abs(p.weights[u]) = 0 => Abs(q.weights[u]) = 0
      BY <1>1, <3>3, RoundedUpFacts
    <3>5. p.weights[u] % d = 0 => Abs(p.weights[u]) % d = 0
      <4>1. -p.weights[u] >= 0 => (p.weights[u] % d = 0 => (-p.weights[u]) % d = 0)
        <5> HIDE DEF d
        <5> QED BY <1>1, <3>1, NegatedMultiple
      <4> QED BY <3>1, <4>1 DEF Abs
    <3>6. /\ Share(p, T)[u] = IF Negation(LitOf(p, u)) \in T THEN 0 ELSE Abs(p.weights[u])
          /\ Share(q, T)[u] = IF Negation(LitOf(p, u)) \in T THEN 0 ELSE Abs(q.weights[u])
      BY <2>10, <3>2, ShareFacts
    <3> HIDE DEF d
    <3> QED BY <1>1, <3>4, <3>5, <3>6
  <2> DEFINE dq(T) == [u \in Vars |-> d * Share(q, T)[u]]
  <2>14. ASSUME NEW T
         PROVE  /\ \A u \in Vars : dq(T)[u] \in Nat /\ Share(q, T)[u] \in Nat
                /\ SumOf(dq(T), Vars) = d * NotContradicted(q, T)
                /\ SumOf(dq(T), Vars \ {v}) = d * Remaining(q, v, T)
                /\ NotContradicted(q, T) \in Nat /\ Remaining(q, v, T) \in Nat
    <3>1. \A u \in Vars : Share(q, T)[u] \in Nat
      BY <2>10, ShareFacts
    <3>2. \A u \in Vars : dq(T)[u] \in Nat
      BY <1>1, <3>1
    <3>3. SumOf(dq(T), Vars) = d * SumOf(Share(q, T), Vars)
      <4> HIDE DEF d
      <4> QED BY <1>1, <3>1, VarsFinite, SumScale
    <3>4. SumOf(dq(T), Vars \ {v}) = d * SumOf(Share(q, T), Vars \ {v})
      <4> DEFINE e == [u \in Vars \ {v} |-> d * Share(q, T)[u]]
      <4>1. SumOf(e, Vars \ {v}) = d * SumOf(Share(q, T), Vars \ {v})
        <5> HIDE DEF d
        <5> QED BY <1>1, <3>1, VarsFinite, SumScale
      <4>2. SumOf(dq(T), Vars \ {v}) = SumOf(e, Vars \ {v})
        BY SumEqual, \A u \in Vars \ {v} : dq(T)[u] = e[u]
      <4> QED BY <4>1, <4>2
    <3> QED BY <2>10, <3>1, <3>2, <3>3, <3>4, NotContradictedShares, RemainingFacts DEF Remaining
  <2>15. Remaining(q, v, S) < q.card
    <3> DEFINE e == [u \in Vars |-> d * Share(q, S)[u]]
    <3>1. ASSUME NEW u \in Vars \ {v}
          PROVE  e[u] \in Nat /\ h[u] \in Nat /\ Share(p, S)[u] = e[u] + h[u]
      <4>1. p.weights[u] \in Int /\ m[u] \in Int
        BY DEF Cuts
      <4>2. CASE u \in W
        <5>1. q.weights[u] = 0
          BY <2>4, <2>10, <4>2
        <5>2. Share(q, S)[u] = 0
          BY <2>10, <5>1, ShareFacts DEF Abs
        <5>3. Share(p, S)[u] <= h[u]
          BY <2>5, <4>2, ShareFacts
        <5> QED BY <1>1, <2>7, <2>14, <5>2, <5>3
      <4>3. CASE u \notin W /\ p.weights[u] % d = 0
        <5>1. Share(p, S)[u] = d * Share(q, S)[u] /\ h[u] = 0
          BY <2>13, <4>3
        <5>2. e[u] = d * Share(q, S)[u] /\ e[u] \in Nat
          BY <2>14
        <5> HIDE DEF e, h, d
        <5> QED BY <5>1, <5>2
      <4>4. CASE u \notin W /\ p.weights[u] % d # 0
        <5>1. m[u] # 0 /\ (m[u] > 0) # (p.weights[u] > 0) /\ p.weights[u] # 0
          BY <1>1, <2>3, <4>1, <4>4
        <5> DEFINE l == LitOf(p, u)
        <5>2. /\ l \in Lits /\ VarOf(l) = u /\ (IsPositive(l) <=> ~ (p.weights[u] < 0))
              /\ Negation(l) \in Lits /\ VarOf(Negation(l)) = u
              /\ IsPositive(Negation(l)) <=> p.weights[u] < 0
          BY ShareFacts, LitFacts
        <5> HIDE DEF l
        <5>3. Negation(l) \in S <=> m[u] # 0 /\ (m[u] > 0 <=> p.weights[u] < 0)
          BY <5>2 DEF MadeTrue
        <5>4. Negation(l) \in S
          BY <4>1, <5>1, <5>3
        <5>5. Share(p, S)[u] = 0
          BY <5>4, ShareFacts DEF l
        <5>6. Share(q, S)[u] = 0
          BY <2>13, <4>4, <5>5
        <5> QED BY <1>1, <4>4, <5>5, <5>6
      <4> QED BY <4>2, <4>3, <4>4
    <3>2. SumOf(Share(p, S), Vars \ {v}) = SumOf(e, Vars \ {v}) + SumOf(h, Vars \ {v})
      <4> HIDE DEF e, h
      <4> QED BY <3>1, VarsFinite, SumAdd
    <3>3. SumOf(e, Vars \ {v}) = d * Remaining(q, v, S) /\ Remaining(q, v, S) \in Nat
      BY <2>14
    <3>4. d * Remaining(q, v, S) < w.card
      BY <1>1, <2>4, <2>6, <3>2, <3>3 DEF Remaining
    <3> HIDE DEF d
    <3>5. \A k \in Int : d * k < w.card => k < RoundedUp(w.card, d)
      BY <1>1, <2>9, RoundedUpFacts
    <3> QED BY <2>10, <3>3, <3>4, <3>5
  <2>16. ASSUME NEW a \in Assignments, MeetsCut(a, p) PROVE MeetsCut(a, q)
    <3> DEFINE T == {l \in Lits : Holds(a, l)}
               e == dq(T)
               s == [u \in Vars |-> e[u] + g[u]]
    <3>1. ASSUME NEW u \in Vars
          PROVE  /\ e[u] \in Nat /\ g[u] \in Nat /\ Share(p, T)[u] \in Nat
                 /\ Share(p, T)[u] <= e[u] + g[u]
      <4>1. e[u] \in Nat /\ g[u] \in Nat /\ Share(p, T)[u] \in Nat
        BY <2>5, <2>14, ShareFacts
      <4>2. CASE u \in W
        BY <4>1, <4>2, <2>5, ShareFacts
      <4>3. CASE u \notin W
        <5>1. Share(p, T)[u] <= d * Share(q, T)[u]
          BY <2>13, <4>3
        <5> HIDE DEF T
        <5>2. e[u] = d * Share(q, T)[u]
          OBVIOUS
        <5> HIDE DEF e
        <5> QED BY <4>1, <5>1, <5>2
      <4> QED BY <4>2, <4>3
    <3> HIDE DEF T, e, g
    <3>2. SumOf(Share(p, T), Vars) <= SumOf(s, Vars)
      <4>1. \A u \in Vars : s[u] \in Nat /\ Share(p, T)[u] \in Nat /\ Share(p, T)[u] <= s[u]
        BY <3>1
      <4> HIDE DEF s
      <4> QED BY <4>1, VarsFinite, SumMonotone
    <3>3. SumOf(s, Vars) = SumOf(e, Vars) + SumOf(g, Vars)
      <4>1. \A u \in Vars : e[u] \in Nat /\ g[u] \in Nat /\ s[u] = e[u] + g[u]
        BY <3>1
      <4> HIDE DEF s
      <4> QED BY <4>1, VarsFinite, SumAdd
    <3>4. SumOf(e, Vars) = d * NotContradicted(q, T) /\ NotContradicted(q, T) \in Nat
      BY <2>14 DEF e
    <3>5. NotContradicted(p, T) >= p.card
      BY <2>16 DEF MeetsCut, T
    <3>6. NotContradicted(p, T) = SumOf(Share(p, T), Vars) /\ NotContradicted(p, T) \in Nat
      BY NotContradictedShares
    <3>7. w.card <= d * NotContradicted(q, T)
      <4> HIDE DEF d, s
      <4> QED BY <1>1, <2>4, <2>6, <3>2, <3>3, <3>4, <3>5, <3>6
    <3>8. q.card <= NotContradicted(q, T)
      <4> HIDE DEF d
      <4>1. \A k \in Int : w.card <= d * k => RoundedUp(w.card, d) <= k
        BY <1>1, <2>9, RoundedUpFacts
      <4> QED BY <2>10, <3>4, <3>7, <4>1
    <3>9. q.card \in Int
      BY <2>10 DEF Cuts
    <3> QED BY <3>4, <3>8, <3>9 DEF MeetsCut, T
  <2> QED BY <2>1, <2>10, <2>11, <2>12, <2>15, <2>16
<1> QED BY <1>2, <1>3

-----------------------------------------------------------------------------
(* clash.                                                                  *)

\* The literals S are not contradictory; they are those of all the variables.
Consistent(S) == S \subseteq Lits /\ \A l \in S : Negation(l) \notin S

CompleteLits(S) == \A l \in Lits : l \in S <=> Negation(l) \notin S

Opposite(p, q) == {u \in Vars : p.weights[u] * q.weights[u] < 0}

Smaller(p, q) == [u \in Vars |-> Min({Abs(p.weights[u]), Abs(q.weights[u])})]

LEMMA MinOfTwo ==
    ASSUME NEW m \in Nat, NEW n \in Nat
    PROVE  Min({m, n}) = IF m <= n THEN m ELSE n
<1>1. Min({m, n}) \in {m, n} /\ \A y \in {m, n} : Min({m, n}) <= y
  BY MinOfNats, {m, n} \subseteq Nat, {m, n} # {}
<1> QED BY <1>1

LEMMA ProductSign ==
    ASSUME NEW m \in Int, NEW n \in Int
    PROVE  m * n < 0 <=> (m < 0 /\ n > 0) \/ (m > 0 /\ n < 0)
<1>1. m < 0 /\ n > 0 => m * n < 0
  OBVIOUS
<1>2. m > 0 /\ n < 0 => m * n < 0
  OBVIOUS
<1>3. m >= 0 /\ n >= 0 => m * n >= 0
  OBVIOUS
<1>4. m <= 0 /\ n <= 0 => m * n >= 0
  OBVIOUS
<1> QED BY <1>1, <1>2, <1>3, <1>4

\* What a variable brings to the sum, with what cancels out.
LEMMA ClashShare ==
    ASSUME NEW p \in Cuts, NEW q \in Cuts, NEW S, NEW u \in Vars
    PROVE  LET r == Clash(p, q)
               x == IF u \in Opposite(p, q) THEN Smaller(p, q)[u] ELSE 0
           IN /\ x \in Nat
              /\ Consistent(S) => Share(r, S)[u] + x <= Share(p, S)[u] + Share(q, S)[u]
              /\ CompleteLits(S) => Share(r, S)[u] + x >= Share(p, S)[u] + Share(q, S)[u]
<1> DEFINE r == Clash(p, q)
           m == p.weights[u]
           n == q.weights[u]
           x == IF u \in Opposite(p, q) THEN Smaller(p, q)[u] ELSE 0
           plus == SignedLit(u, FALSE)
           minus == SignedLit(u, TRUE)
<1>1. m \in Int /\ n \in Int /\ r.weights[u] = m + n
  BY DEF Cuts, Clash
<1>2. x = IF (m < 0 /\ n > 0) \/ (m > 0 /\ n < 0)
          THEN IF Abs(m) <= Abs(n) THEN Abs(m) ELSE Abs(n) ELSE 0
  <2>1. Abs(m) \in Nat /\ Abs(n) \in Nat
    BY <1>1 DEF Abs
  <2>2. Smaller(p, q)[u] = IF Abs(m) <= Abs(n) THEN Abs(m) ELSE Abs(n)
    BY <2>1, MinOfTwo DEF Smaller
  <2>3. u \in Opposite(p, q) <=> (m < 0 /\ n > 0) \/ (m > 0 /\ n < 0)
    BY <1>1, ProductSign DEF Opposite
  <2> QED BY <2>2, <2>3
<1>3. plus \in Lits /\ minus \in Lits /\ Negation(plus) = minus /\ Negation(minus) = plus
  <2>1. /\ plus \in Lits /\ VarOf(plus) = u /\ IsPositive(plus)
        /\ minus \in Lits /\ VarOf(minus) = u /\ ~ IsPositive(minus)
    BY SignedLitFacts
  <2> HIDE DEF plus, minus
  <2> QED BY <2>1, LitFacts, SameVar
<1>4. ASSUME NEW t, t.weights[u] \in Int
      PROVE  Share(t, S)[u] =
                IF (t.weights[u] < 0 /\ plus \in S) \/ (~ (t.weights[u] < 0) /\ minus \in S)
                THEN 0 ELSE Abs(t.weights[u])
  <2>1. Share(t, S)[u] = IF Negation(LitOf(t, u)) \in S THEN 0 ELSE Abs(t.weights[u])
    BY DEF Share
  <2>2. CASE t.weights[u] < 0
    <3>1. LitOf(t, u) = minus
      BY <2>2, (t.weights[u] < 0) = TRUE DEF LitOf
    <3> QED BY <1>3, <2>1, <2>2, <3>1
  <2>3. CASE ~ (t.weights[u] < 0)
    <3>1. LitOf(t, u) = plus
      BY <2>3, (t.weights[u] < 0) = FALSE DEF LitOf
    <3> QED BY <1>3, <2>1, <2>3, <3>1
  <2> QED BY <2>2, <2>3
<1>5. Consistent(S) => ~ (plus \in S /\ minus \in S)
  BY <1>3 DEF Consistent
<1>6. CompleteLits(S) => (plus \in S <=> minus \notin S)
  BY <1>3 DEF CompleteLits
<1> HIDE DEF x, plus, minus, r
<1>7. x \in Nat
  BY <1>1, <1>2 DEF Abs
<1>8. /\ Share(r, S)[u] = IF (m + n < 0 /\ plus \in S) \/ (~ (m + n < 0) /\ minus \in S)
                THEN 0 ELSE Abs(m + n)
      /\ Share(p, S)[u] = IF (m < 0 /\ plus \in S) \/ (~ (m < 0) /\ minus \in S) THEN 0 ELSE Abs(m)
      /\ Share(q, S)[u] = IF (n < 0 /\ plus \in S) \/ (~ (n < 0) /\ minus \in S) THEN 0 ELSE Abs(n)
  BY <1>1, <1>4
<1> HIDE DEF m, n
<1>9. Consistent(S) => Share(r, S)[u] + x <= Share(p, S)[u] + Share(q, S)[u]
  BY <1>1, <1>2, <1>5, <1>8, SMTT(30) DEF Abs
<1>10. CompleteLits(S) => Share(r, S)[u] + x >= Share(p, S)[u] + Share(q, S)[u]
  BY <1>1, <1>2, <1>6, <1>8, SMTT(30) DEF Abs
<1> QED BY <1>7, <1>9, <1>10 DEF x, r

\* A clash of two constraints holds wherever they do.  When both are false but
\* for v, on which they are opposite with a weight of 1, it is false.
LEMMA ClashFacts ==
    ASSUME NEW p \in Cuts, NEW q \in Cuts
    PROVE  /\ Clash(p, q) \in Cuts
           /\ \A a \in Assignments : MeetsCut(a, p) /\ MeetsCut(a, q) => MeetsCut(a, Clash(p, q))
           /\ \A v \in Vars, S \in SUBSET Lits :
                /\ Consistent(S)
                /\ Abs(p.weights[v]) = 1 /\ q.weights[v] = -p.weights[v]
                /\ Remaining(p, v, S) < p.card /\ Remaining(q, v, S) < q.card
                => NotContradicted(Clash(p, q), S) < Clash(p, q).card
<1> DEFINE r == Clash(p, q)
           O == Opposite(p, q)
           sm == Smaller(p, q)
           x == [u \in Vars |-> IF u \in O THEN sm[u] ELSE 0]
<1>1. IsFiniteSet(Vars) /\ O \subseteq Vars
  BY VarsFinite DEF Opposite
<1>2. \A u \in Vars : sm[u] \in Nat
  <2> SUFFICES ASSUME NEW u \in Vars PROVE sm[u] \in Nat
    OBVIOUS
  <2>1. Abs(p.weights[u]) \in Nat /\ Abs(q.weights[u]) \in Nat
    BY ShareFacts
  <2> QED BY <2>1, MinOfTwo DEF Smaller
<1>3. SumOf(sm, O) = SumOf(x, Vars)
  <2> HIDE DEF O, sm
  <2> QED BY <1>1, <1>2, SumRestrict
<1>4. r.card = p.card + q.card - SumOf(x, Vars)
  BY <1>3 DEF Clash, Opposite, Smaller
<1>5. SumOf(x, Vars) \in Nat
  <2>1. \A u \in Vars : x[u] \in Nat
    BY <1>2
  <2> HIDE DEF x
  <2> QED BY <1>1, <2>1, SumFinite
<1>6. r \in Cuts
  <2>1. r.card \in Int
    BY <1>4, <1>5 DEF Cuts
  <2>2. r = [weights |-> [v \in Vars |-> p.weights[v] + q.weights[v]], card |-> r.card]
    BY DEF Clash
  <2> HIDE DEF r
  <2> QED BY <2>1, <2>2 DEF Cuts
<1> DEFINE two(S) == [u \in Vars |-> Share(p, S)[u] + Share(q, S)[u]]
           all(S) == [u \in Vars |-> Share(r, S)[u] + x[u]]
<1>7. ASSUME NEW S, NEW V, V \subseteq Vars
      PROVE  /\ SumOf(two(S), V) = SumOf(Share(p, S), V) + SumOf(Share(q, S), V)
             /\ SumOf(all(S), V) = SumOf(Share(r, S), V) + SumOf(x, V)
             /\ Consistent(S) => SumOf(all(S), V) <= SumOf(two(S), V)
             /\ CompleteLits(S) => SumOf(two(S), V) <= SumOf(all(S), V)
             /\ SumOf(two(S), V) \in Nat /\ SumOf(all(S), V) \in Nat
             /\ SumOf(x, V) \in Nat /\ SumOf(Share(r, S), V) \in Nat
  <2>1. ASSUME NEW u \in V
        PROVE  /\ Share(p, S)[u] \in Nat /\ Share(q, S)[u] \in Nat /\ Share(r, S)[u] \in Nat
               /\ x[u] \in Nat
               /\ two(S)[u] = Share(p, S)[u] + Share(q, S)[u]
               /\ all(S)[u] = Share(r, S)[u] + x[u]
               /\ Consistent(S) => all(S)[u] <= two(S)[u]
               /\ CompleteLits(S) => two(S)[u] <= all(S)[u]
    <3>1. Share(p, S)[u] \in Nat /\ Share(q, S)[u] \in Nat /\ Share(r, S)[u] \in Nat
      BY <1>6, <1>7, ShareFacts
    <3>2. two(S)[u] = Share(p, S)[u] + Share(q, S)[u]
      BY <1>7
    <3>3. all(S)[u] = Share(r, S)[u] + x[u]
      BY <1>7
    <3>4. x[u] = IF u \in O THEN sm[u] ELSE 0
      BY <1>7
    <3>5. /\ x[u] \in Nat
          /\ Consistent(S) => Share(r, S)[u] + x[u] <= Share(p, S)[u] + Share(q, S)[u]
          /\ CompleteLits(S) => Share(r, S)[u] + x[u] >= Share(p, S)[u] + Share(q, S)[u]
      BY <1>7, <3>4, ClashShare
    <3> HIDE DEF two, all, x, r
    <3> QED BY <3>1, <3>2, <3>3, <3>5
  <2>2. IsFiniteSet(V)
    BY <1>7, VarsFinite
  <2> HIDE DEF two, all, x, r
  <2>3. SumOf(two(S), V) = SumOf(Share(p, S), V) + SumOf(Share(q, S), V)
    BY <2>1, <2>2, SumAdd
  <2>4. SumOf(all(S), V) = SumOf(Share(r, S), V) + SumOf(x, V)
    BY <2>1, <2>2, SumAdd
  <2>5. \A u \in V : two(S)[u] \in Nat /\ all(S)[u] \in Nat
    BY <2>1
  <2>6. Consistent(S) => SumOf(all(S), V) <= SumOf(two(S), V)
    BY <2>1, <2>2, <2>5, SumMonotone
  <2>7. CompleteLits(S) => SumOf(two(S), V) <= SumOf(all(S), V)
    BY <2>1, <2>2, <2>5, SumMonotone
  <2>8. SumOf(two(S), V) \in Nat /\ SumOf(all(S), V) \in Nat
    BY <2>2, <2>5, SumFinite
  <2>9. SumOf(x, V) \in Nat /\ SumOf(Share(r, S), V) \in Nat
    BY <2>1, <2>2, SumFinite
  <2> QED BY <2>3, <2>4, <2>6, <2>7, <2>8, <2>9
<1>8. p.card \in Int /\ q.card \in Int
  BY DEF Cuts
<1>9. ASSUME NEW a \in Assignments, MeetsCut(a, p), MeetsCut(a, q) PROVE MeetsCut(a, r)
  <2> DEFINE S == {l \in Lits : Holds(a, l)}
  <2>1. CompleteLits(S)
    BY HoldsNegation, LitFacts DEF CompleteLits
  <2>2. NotContradicted(p, S) >= p.card /\ NotContradicted(q, S) >= q.card
    BY <1>9 DEF MeetsCut
  <2> HIDE DEF S, two, all, x, r
  <2>3. /\ NotContradicted(p, S) = SumOf(Share(p, S), Vars) /\ NotContradicted(p, S) \in Nat
        /\ NotContradicted(q, S) = SumOf(Share(q, S), Vars) /\ NotContradicted(q, S) \in Nat
        /\ NotContradicted(r, S) = SumOf(Share(r, S), Vars) /\ NotContradicted(r, S) \in Nat
    BY <1>6, NotContradictedShares
  <2>4. /\ SumOf(two(S), Vars) = SumOf(Share(p, S), Vars) + SumOf(Share(q, S), Vars)
        /\ SumOf(all(S), Vars) = SumOf(Share(r, S), Vars) + SumOf(x, Vars)
        /\ SumOf(two(S), Vars) <= SumOf(all(S), Vars)
    BY <1>7, <2>1
  <2>5. NotContradicted(r, S) >= r.card
    BY <1>4, <1>5, <1>8, <2>2, <2>3, <2>4
  <2> QED BY <2>5 DEF MeetsCut, S
<1>10. ASSUME NEW v \in Vars, NEW S \in SUBSET Lits, Consistent(S),
              Abs(p.weights[v]) = 1, q.weights[v] = -p.weights[v],
              Remaining(p, v, S) < p.card, Remaining(q, v, S) < q.card
       PROVE  NotContradicted(r, S) < r.card
  <2> DEFINE V == Vars \ {v}
  <2>1. p.weights[v] \in Int
    BY DEF Cuts
  <2>2. x[v] = 1
    <3>1. v \in O
      BY <1>10, <2>1, ProductSign DEF Opposite, Abs
    <3>2. Abs(q.weights[v]) = 1
      BY <1>10, <2>1 DEF Abs
    <3>3. sm[v] = 1
      BY <1>10, <3>2, MinOfTwo DEF Smaller
    <3> QED BY <3>1, <3>3
  <2>3. Share(r, S)[v] = 0
    <3>1. r.weights[v] = 0
      BY <1>10, <2>1 DEF Clash
    <3> QED BY <3>1, <1>6, ShareFacts DEF Abs
  <2>4. SumOf(x, Vars) = x[v] + SumOf(x, V)
    <3>1. \A u \in Vars : x[u] \in Nat
      BY <1>2
    <3> HIDE DEF x
    <3> QED BY <1>1, <3>1, SumTerm
  <2> HIDE DEF two, all, x, r
  <2>5. NotContradicted(r, S) = Remaining(r, v, S) + Share(r, S)[v] /\ Remaining(r, v, S) \in Nat
    BY <1>6, RemainingFacts
  <2>6. Remaining(p, v, S) \in Nat /\ Remaining(q, v, S) \in Nat
    BY RemainingFacts
  <2>7. /\ SumOf(two(S), V) = Remaining(p, v, S) + Remaining(q, v, S)
        /\ SumOf(all(S), V) = Remaining(r, v, S) + SumOf(x, V)
        /\ SumOf(all(S), V) <= SumOf(two(S), V)
        /\ SumOf(x, V) \in Nat
    BY <1>7, <1>10 DEF Remaining
  <2> QED BY <1>4, <1>8, <1>10, <2>2, <2>3, <2>4, <2>5, <2>6, <2>7
<1> QED BY <1>6, <1>9, <1>10

-----------------------------------------------------------------------------
(* What a pbSet says of the literals it is made of.                        *)

\* Only the variables of p matter.
LEMMA SameShares ==
    ASSUME NEW p \in Cuts, NEW S, NEW T,
           \A u \in Vars : p.weights[u] # 0 =>
                (Negation(LitOf(p, u)) \in S <=> Negation(LitOf(p, u)) \in T)
    PROVE  /\ NotContradicted(p, S) = NotContradicted(p, T)
           /\ \A v \in Vars : Remaining(p, v, S) = Remaining(p, v, T)
<1>1. \A u \in Vars : Share(p, S)[u] = Share(p, T)[u]
  <2> SUFFICES ASSUME NEW u \in Vars PROVE Share(p, S)[u] = Share(p, T)[u]
    OBVIOUS
  <2>1. CASE p.weights[u] = 0
    BY <2>1, ShareFacts DEF Abs
  <2>2. CASE p.weights[u] # 0
    BY <2>2, ShareFacts
  <2> QED BY <2>1, <2>2
<1>2. SumOf(Share(p, S), Vars) = SumOf(Share(p, T), Vars)
  BY <1>1, SumEqual
<1>3. ASSUME NEW v \in Vars PROVE Remaining(p, v, S) = Remaining(p, v, T)
  <2>1. \A u \in Vars \ {v} : Share(p, S)[u] = Share(p, T)[u]
    BY <1>1
  <2> QED BY <2>1, SumEqual DEF Remaining
<1> QED BY <1>2, <1>3, NotContradictedShares

\* p falsifies l when the literal of p on that variable is its negation.
LEMMA FalsifiesFacts ==
    ASSUME NEW p \in Cuts, NEW l \in Lits
    PROVE  /\ Falsifies(p, l) <=> p.weights[VarOf(l)] # 0 /\ LitOf(p, VarOf(l)) = Negation(l)
           /\ Falsifies(p, l) <=> p.weights[VarOf(l)] # 0 /\ Negation(LitOf(p, VarOf(l))) = l
<1> DEFINE v == VarOf(l)
           k == LitOf(p, v)
<1>1. v \in Vars /\ Negation(l) \in Lits /\ VarOf(Negation(l)) = v
  BY LitFacts
<1>2. p.weights[v] \in Int /\ k \in Lits /\ VarOf(k) = v /\ (IsPositive(k) <=> ~ (p.weights[v] < 0))
  BY <1>1, ShareFacts
<1>3. Falsifies(p, l) <=> p.weights[v] # 0 /\ (IsPositive(k) <=> ~ IsPositive(l))
  BY <1>2 DEF Falsifies
<1>4. (IsPositive(k) <=> ~ IsPositive(l)) <=> k = Negation(l)
  <2> HIDE DEF v, k
  <2> QED BY <1>1, <1>2, SameVar, LitFacts
<1>5. k = Negation(l) <=> Negation(k) = l
  <2> HIDE DEF k
  <2> QED BY <1>2, LitFacts
<1> QED BY <1>3, <1>4, <1>5

\* The constraints the search propagates.
WellMade(b) ==
    /\ b \in Constraints
    /\ Len(b.weights) = Len(b.lits)
    /\ \A i, j \in DOMAIN b.lits : VarOf(b.lits[i]) = VarOf(b.lits[j]) => i = j

LEMMA WellMadeFacts ==
    ASSUME NEW b, WellMade(b)
    PROVE  /\ b.lits \in Seq(Lits) /\ b.weights \in Seq(Nat \ {0}) /\ b.card \in Nat \ {0}
           /\ b.pb \in BOOLEAN /\ b.watched \in Seq(BOOLEAN)
           /\ DOMAIN b.lits = 1 .. Len(b.lits) /\ DOMAIN b.weights = DOMAIN b.lits
           /\ Len(b.lits) \in Nat /\ IsFiniteSet(DOMAIN b.lits)
           /\ \A i \in DOMAIN b.lits : b.lits[i] \in Lits /\ b.weights[i] \in Nat \ {0}
<1>1. /\ b.lits \in Seq(Lits) /\ b.weights \in Seq(Nat \ {0}) /\ b.card \in Nat \ {0}
      /\ b.pb \in BOOLEAN /\ b.watched \in Seq(BOOLEAN) /\ Len(b.weights) = Len(b.lits)
  BY DEF WellMade, Constraints
<1>2. DOMAIN b.lits = 1 .. Len(b.lits) /\ DOMAIN b.weights = DOMAIN b.lits /\ Len(b.lits) \in Nat
  BY <1>1, LenProperties
<1>3. IsFiniteSet(DOMAIN b.lits)
  <2>1. IsFiniteSet(1 .. Len(b.lits))
    BY <1>2, FS_Interval
  <2> QED BY <1>2, <2>1
<1>4. \A i \in DOMAIN b.lits : b.lits[i] \in Lits /\ b.weights[i] \in Nat \ {0}
  BY <1>1, <1>2, ElementOfSeq
<1> QED BY <1>1, <1>2, <1>3, <1>4

LEMMA PbSetWeights ==
    ASSUME NEW c \in DOMAIN pbs, WellMade(pbs[c])
    PROVE  /\ PbSet(c) \in Cuts /\ PbSet(c).card = pbs[c].card
           /\ \A i \in Idx(c) :
                /\ PbSet(c).weights[VarOf(LitAt(c, i))] # 0
                /\ LitOf(PbSet(c), VarOf(LitAt(c, i))) = LitAt(c, i)
                /\ Abs(PbSet(c).weights[VarOf(LitAt(c, i))]) = pbs[c].weights[i]
           /\ \A u \in Vars \ {VarOf(LitAt(c, i)) : i \in Idx(c)} : PbSet(c).weights[u] = 0
<1> DEFINE p == PbSet(c)
           b == pbs[c]
           plus(v) == SignedLit(v, FALSE)
           minus(v) == SignedLit(v, TRUE)
           w(l) == Weight(c, {i \in Idx(c) : LitAt(c, i) = l})
<1>0. Idx(c) = DOMAIN b.lits /\ IsFiniteSet(Idx(c)) /\ b.card \in Nat
      /\ \A i \in Idx(c) : LitAt(c, i) \in Lits /\ b.weights[i] \in Nat \ {0} /\ LitAt(c, i) = b.lits[i]
  BY WellMadeFacts DEF Idx, LitAt
<1>1. p = [weights |-> [v \in Vars |-> w(plus(v)) - w(minus(v))], card |-> b.card]
  BY DEF PbSet
<1>2. \A v \in Vars : p.weights[v] = w(plus(v)) - w(minus(v))
  BY <1>1
<1>3. ASSUME NEW i \in Idx(c) PROVE w(LitAt(c, i)) = b.weights[i]
  <2>1. \A j \in Idx(c) : LitAt(c, j) = LitAt(c, i) => j = i
    BY <1>0 DEF WellMade
  <2>2. {j \in Idx(c) : LitAt(c, j) = LitAt(c, i)} = {i}
    BY <2>1
  <2>3. SumOf(b.weights, {i}) = b.weights[i]
    BY <1>0, SumOne
  <2> QED BY <2>2, <2>3 DEF Weight
<1>4. ASSUME NEW l, \A i \in Idx(c) : LitAt(c, i) # l PROVE w(l) = 0
  <2>1. {i \in Idx(c) : LitAt(c, i) = l} = {}
    BY <1>4
  <2> QED BY <2>1, SumEmpty DEF Weight
<1>5. \A l : w(l) \in Nat
  <2> SUFFICES ASSUME NEW l PROVE w(l) \in Nat
    OBVIOUS
  <2>1. CASE \E i \in Idx(c) : LitAt(c, i) = l
    <3>1. PICK i \in Idx(c) : LitAt(c, i) = l
      BY <2>1
    <3>2. w(l) = b.weights[i]
      BY <1>3, <3>1
    <3> HIDE DEF w
    <3> QED BY <1>0, <3>2
  <2>2. CASE ~ \E i \in Idx(c) : LitAt(c, i) = l
    <3>1. w(l) = 0
      BY <1>4, <2>2
    <3> HIDE DEF w
    <3> QED BY <3>1
  <2> QED BY <2>1, <2>2
<1>9. \A v \in Vars : /\ plus(v) \in Lits /\ VarOf(plus(v)) = v /\ IsPositive(plus(v))
                     /\ minus(v) \in Lits /\ VarOf(minus(v)) = v /\ ~ IsPositive(minus(v))
  BY SignedLitFacts
<1> HIDE DEF w, plus, minus
<1>6. p \in Cuts /\ p.card = b.card
  <2>1. \A v \in Vars : w(plus(v)) - w(minus(v)) \in Int
    BY <1>5
  <2> QED BY <1>0, <1>1, <2>1 DEF Cuts
<1>7. ASSUME NEW i \in Idx(c)
      PROVE  /\ p.weights[VarOf(LitAt(c, i))] # 0
             /\ LitOf(p, VarOf(LitAt(c, i))) = LitAt(c, i)
             /\ Abs(p.weights[VarOf(LitAt(c, i))]) = b.weights[i]
  <2> DEFINE l == LitAt(c, i)
             v == VarOf(l)
  <2>1. l \in Lits /\ v \in Vars /\ Negation(l) \in Lits /\ VarOf(Negation(l)) = v /\ Negation(l) # l
    BY <1>0, LitFacts
  <2>2. w(l) = b.weights[i] /\ w(l) \in Nat \ {0}
    BY <1>0, <1>3
  <2>3. w(Negation(l)) = 0
    <3>1. ASSUME NEW j \in Idx(c), LitAt(c, j) = Negation(l) PROVE FALSE
      <4>1. VarOf(LitAt(c, j)) = VarOf(LitAt(c, i))
        BY <2>1, <3>1
      <4>2. j = i
        BY <1>0, <4>1 DEF WellMade
      <4> QED BY <2>1, <3>1, <4>2
    <3> QED BY <1>4, <3>1
  <2> HIDE DEF l
  <2>4. CASE IsPositive(l)
    <3>1. l = plus(v) /\ Negation(l) = minus(v)
      BY <2>1, <2>4, <1>9, SameVar, LitFacts
    <3>2. p.weights[v] = w(l) - 0
      BY <1>2, <2>1, <2>3, <3>1
    <3>3. LitOf(p, v) = l
      <4>1. (p.weights[v] < 0) = FALSE
        BY <2>2, <3>2
      <4> QED BY <3>1, <4>1 DEF LitOf, plus, minus
    <3> QED BY <2>2, <3>2, <3>3 DEF Abs, l
  <2>5. CASE ~ IsPositive(l)
    <3>1. l = minus(v) /\ Negation(l) = plus(v)
      BY <2>1, <2>5, <1>9, SameVar, LitFacts
    <3>2. p.weights[v] = 0 - w(l)
      BY <1>2, <2>1, <2>3, <3>1
    <3>3. LitOf(p, v) = l
      <4>1. (p.weights[v] < 0) = TRUE
        BY <2>2, <3>2
      <4> QED BY <3>1, <4>1 DEF LitOf, plus, minus
    <3> QED BY <2>2, <3>2, <3>3 DEF Abs, l
  <2> QED BY <2>4, <2>5
<1>8. ASSUME NEW u \in Vars \ {VarOf(LitAt(c, i)) : i \in Idx(c)} PROVE p.weights[u] = 0
  <2>1. \A i \in Idx(c) : LitAt(c, i) # plus(u) /\ LitAt(c, i) # minus(u)
    BY <1>9
  <2>2. w(plus(u)) = 0 /\ w(minus(u)) = 0
    BY <1>4, <2>1
  <2> QED BY <1>2, <2>2
<1> QED BY <1>6, <1>7, <1>8

\* The variables V bring what their literals weigh.
LEMMA PbSetShares ==
    ASSUME NEW c \in DOMAIN pbs, WellMade(pbs[c]), NEW S, NEW V, V \subseteq Vars
    PROVE  SumOf(Share(PbSet(c), S), V) =
             Weight(c, {i \in Idx(c) : VarOf(LitAt(c, i)) \in V /\ Negation(LitAt(c, i)) \notin S})
<1> DEFINE p == PbSet(c)
           I == {i \in Idx(c) : VarOf(LitAt(c, i)) \in V /\ Negation(LitAt(c, i)) \notin S}
           U == {VarOf(LitAt(c, i)) : i \in I}
           b == [i \in I |-> VarOf(LitAt(c, i))]
<1>0. /\ Idx(c) = DOMAIN pbs[c].lits /\ IsFiniteSet(Idx(c))
      /\ \A i \in Idx(c) : LitAt(c, i) = pbs[c].lits[i] /\ LitAt(c, i) \in Lits
            /\ VarOf(LitAt(c, i)) \in Vars /\ pbs[c].weights[i] \in Nat
  <2>1. /\ Idx(c) = DOMAIN pbs[c].lits /\ IsFiniteSet(Idx(c))
        /\ \A i \in Idx(c) : LitAt(c, i) = pbs[c].lits[i] /\ LitAt(c, i) \in Lits /\ pbs[c].weights[i] \in Nat
    BY WellMadeFacts DEF Idx, LitAt
  <2> QED BY <2>1, LitFacts
<1>1. b \in Bijection(I, U)
  <2>1. \A i, j \in I : b[i] = b[j] => i = j
    BY <1>0 DEF WellMade
  <2> QED BY <2>1 DEF Bijection, Injection, Surjection, IsInjective
<1>2. p \in Cuts
  BY PbSetWeights
<1>3. \A i \in I : pbs[c].weights[i] \in Nat /\ Share(p, S)[b[i]] = pbs[c].weights[i]
  <2> SUFFICES ASSUME NEW i \in I PROVE Share(p, S)[b[i]] = pbs[c].weights[i]
    BY <1>0
  <2>1. b[i] = VarOf(LitAt(c, i)) /\ b[i] \in Vars /\ Negation(LitAt(c, i)) \notin S /\ i \in Idx(c)
    BY <1>0
  <2> HIDE DEF I, b
  <2>2. LitOf(p, b[i]) = LitAt(c, i) /\ Abs(p.weights[b[i]]) = pbs[c].weights[i]
    BY <2>1, PbSetWeights
  <2> QED BY <1>2, <2>1, <2>2, ShareFacts
<1>4. SumOf(Share(p, S), U) = SumOf(pbs[c].weights, I)
  <2>1. IsFiniteSet(I)
    BY <1>0, FS_Subset
  <2> HIDE DEF I, U, b
  <2> QED BY <1>1, <1>3, <2>1, SumImage
<1>5. \A u \in V \ U : Share(p, S)[u] = 0
  <2> SUFFICES ASSUME NEW u \in V \ U PROVE Share(p, S)[u] = 0
    OBVIOUS
  <2>1. CASE \E i \in Idx(c) : u = VarOf(LitAt(c, i))
    <3>1. PICK i \in Idx(c) : u = VarOf(LitAt(c, i))
      BY <2>1
    <3>2. Negation(LitAt(c, i)) \in S
      BY <3>1
    <3> HIDE DEF I, U, b
    <3>3. LitOf(p, u) = LitAt(c, i)
      BY <3>1, PbSetWeights
    <3> QED BY <1>2, <3>2, <3>3, ShareFacts
  <2>2. CASE ~ \E i \in Idx(c) : u = VarOf(LitAt(c, i))
    <3>1. p.weights[u] = 0
      BY <2>2, PbSetWeights
    <3> HIDE DEF I, U, b
    <3> QED BY <1>2, <3>1, ShareFacts DEF Abs
  <2> QED BY <2>1, <2>2
<1>6. SumOf(Share(p, S), V \ U) = 0
  BY <1>5, SumZero
<1>7. SumOf(Share(p, S), V) = SumOf(Share(p, S), U) + SumOf(Share(p, S), V \ U)
      /\ SumOf(Share(p, S), U) \in Nat
  <2>1. U \subseteq V
    OBVIOUS
  <2>2. \A u \in V : Share(p, S)[u] \in Nat
    BY <1>2, ShareFacts
  <2> HIDE DEF U, p
  <2> QED BY <2>1, <2>2, VarsFinite, SumSubset
<1> QED BY <1>4, <1>6, <1>7 DEF Weight

LEMMA PbSetClause ==
    ASSUME NEW c, c \notin DOMAIN pbs, clauses[c] \in Clauses,
           \A l \in clauses[c] : Negation(l) \notin clauses[c]
    PROVE  /\ PbSet(c) \in Cuts /\ PbSet(c).card = 1
           /\ \A l \in clauses[c] :
                /\ PbSet(c).weights[VarOf(l)] # 0
                /\ LitOf(PbSet(c), VarOf(l)) = l
                /\ Abs(PbSet(c).weights[VarOf(l)]) = 1
           /\ \A u \in Vars \ VarsOf(clauses[c]) : PbSet(c).weights[u] = 0
<1> DEFINE p == PbSet(c)
           C == clauses[c]
           plus(v) == SignedLit(v, FALSE)
           minus(v) == SignedLit(v, TRUE)
           w(l) == IF l \in C THEN 1 ELSE 0
<1>1. p = [weights |-> [v \in Vars |-> w(plus(v)) - w(minus(v))], card |-> 1]
  BY DEF PbSet
<1>2. \A v \in Vars : p.weights[v] = w(plus(v)) - w(minus(v))
  BY <1>1
<1>3. p \in Cuts /\ p.card = 1
  BY <1>1 DEF Cuts
<1>4. \A v \in Vars : /\ plus(v) \in Lits /\ VarOf(plus(v)) = v /\ IsPositive(plus(v))
                     /\ minus(v) \in Lits /\ VarOf(minus(v)) = v /\ ~ IsPositive(minus(v))
                     /\ Negation(plus(v)) = minus(v)
  <2>1. \A v \in Vars : /\ plus(v) \in Lits /\ VarOf(plus(v)) = v /\ IsPositive(plus(v))
                       /\ minus(v) \in Lits /\ VarOf(minus(v)) = v /\ ~ IsPositive(minus(v))
    BY SignedLitFacts
  <2> HIDE DEF plus, minus
  <2> QED BY <2>1, LitFacts, SameVar
<1>5. ASSUME NEW l \in C
      PROVE  p.weights[VarOf(l)] # 0 /\ LitOf(p, VarOf(l)) = l /\ Abs(p.weights[VarOf(l)]) = 1
  <2> DEFINE v == VarOf(l)
  <2>1. l \in Lits /\ v \in Vars /\ Negation(l) \notin C
    BY LitFacts DEF Clauses
  <2>2. p.weights[v] = w(plus(v)) - w(minus(v))
    BY <1>2, <2>1
  <2>3. (p.weights[v] < 0) \in BOOLEAN
    BY <2>2
  <2>4. LitOf(p, v) = IF p.weights[v] < 0 THEN minus(v) ELSE plus(v)
    BY <2>3 DEF LitOf
  <2>5. l = plus(v) \/ l = minus(v)
    <3> HIDE DEF plus, minus
    <3> QED BY <1>4, <2>1, SameVar
  <2>6. l = plus(v) => minus(v) \notin C
    <3> HIDE DEF plus, minus, v
    <3> QED BY <1>4, <2>1
  <2>7. l = minus(v) => plus(v) \notin C
    <3> HIDE DEF plus, minus, v
    <3> QED BY <1>4, <2>1, LitFacts
  <2> HIDE DEF plus, minus, v, p
  <2> QED BY <2>2, <2>4, <2>5, <2>6, <2>7 DEF Abs, v
<1>6. ASSUME NEW u \in Vars \ VarsOf(C) PROVE p.weights[u] = 0
  <2> DEFINE x == plus(u)
             y == minus(u)
  <2>1. VarOf(x) = u /\ VarOf(y) = u
    BY <1>4
  <2>2. \A l \in C : VarOf(l) # u
    BY DEF VarsOf
  <2>3. p.weights[u] = w(x) - w(y)
    BY <1>2
  <2> HIDE DEF x, y, p
  <2> QED BY <2>1, <2>2, <2>3
<1> QED BY <1>3, <1>5, <1>6

\* What an index of `clauses' stands for.
ConstraintOK(c) ==
    IF c \in DOMAIN pbs THEN WellMade(pbs[c]) /\ clauses[c] = Range(pbs[c].lits)
    ELSE clauses[c] \in Clauses

\* The literals that a makes true.
Made(a) == {l \in Lits : Holds(a, l)}

\* The clauses that become pbSets have no opposite literals.
Untangled(c) == c \in DOMAIN pbs \/ \A l \in clauses[c] : Negation(l) \notin clauses[c]

\* The pbSet of a constraint or a clause has its solutions.
LEMMA PbSetHolds ==
    ASSUME NEW c, ConstraintOK(c), Untangled(c), NEW a \in Assignments, Enough(Made(a), c)
    PROVE  PbSet(c) \in Cuts /\ MeetsCut(a, PbSet(c))
<1> DEFINE T == {l \in Lits : Holds(a, l)}
<1>1. \A l \in Lits : Negation(l) \notin T <=> l \in T
  BY HoldsNegation, LitFacts
<1>2. CASE c \in DOMAIN pbs
  <2> DEFINE b == pbs[c]
             I == {i \in Idx(c) : Negation(LitAt(c, i)) \notin T}
             J == {i \in Idx(c) : LitAt(c, i) \in Made(a)}
  <2>1. WellMade(b) /\ Weight(c, J) >= b.card
    BY <1>2 DEF ConstraintOK, Enough
  <2>2. PbSet(c) \in Cuts /\ PbSet(c).card = b.card
    BY <1>2, <2>1, PbSetWeights
  <2>3. \A i \in Idx(c) : LitAt(c, i) \in Lits /\ VarOf(LitAt(c, i)) \in Vars
    BY <2>1, WellMadeFacts, LitFacts DEF Idx, LitAt
  <2>4. I = J
    BY <1>1, <2>3 DEF Made
  <2>5. {i \in Idx(c) : VarOf(LitAt(c, i)) \in Vars /\ Negation(LitAt(c, i)) \notin T} = I
    BY <2>3
  <2>6. SumOf(Share(PbSet(c), T), Vars) = Weight(c, I)
    <3> HIDE DEF T, I
    <3> QED BY <1>2, <2>1, <2>5, PbSetShares
  <2> QED BY <2>1, <2>2, <2>4, <2>6, NotContradictedShares DEF MeetsCut
<1>3. CASE c \notin DOMAIN pbs
  <2>1. clauses[c] \in Clauses /\ \A l \in clauses[c] : Negation(l) \notin clauses[c]
    BY <1>3 DEF ConstraintOK, Untangled
  <2>2. PICK l \in clauses[c] : Holds(a, l)
    BY <1>3 DEF Enough, Made
  <2>3. l \in Lits /\ VarOf(l) \in Vars
    BY <2>1, LitFacts DEF Clauses
  <2>4. /\ PbSet(c) \in Cuts /\ PbSet(c).card = 1
        /\ LitOf(PbSet(c), VarOf(l)) = l /\ Abs(PbSet(c).weights[VarOf(l)]) = 1
    BY <1>3, <2>1, PbSetClause
  <2>5. l \in T
    BY <2>2, <2>3
  <2> HIDE DEF T
  <2>6. Share(PbSet(c), T)[VarOf(l)] = 1
    BY <1>1, <2>3, <2>4, <2>5, ShareFacts
  <2>7. NotContradicted(PbSet(c), T) >= 1
    BY <2>3, <2>4, <2>6, RemainingFacts
  <2> QED BY <2>4, <2>7 DEF MeetsCut, T
<1> QED BY <1>2, <1>3

\* A constraint that implies l once F is false is false but for l.
LEMMA PbSetImplies ==
    ASSUME NEW r, ConstraintOK(r), NEW l \in Lits, NEW F, F \subseteq Lits,
           ImpliedBy(r, l, F), VarOf(l) \notin VarsOf(F),
           NEW S, \A k \in Lits : k \in F => Negation(k) \in S, \A k \in F : Negation(k) \notin F
    PROVE  /\ Untangled(r)
           /\ PbSet(r) \in Cuts
           /\ PbSet(r).weights[VarOf(l)] # 0 /\ LitOf(PbSet(r), VarOf(l)) = l
           /\ Remaining(PbSet(r), VarOf(l), S) < PbSet(r).card
<1> DEFINE v == VarOf(l)
           p == PbSet(r)
<1>0. v \in Vars /\ l \in clauses[r]
  BY LitFacts DEF ImpliedBy
<1>1. CASE r \in DOMAIN pbs
  <2> DEFINE b == pbs[r]
             I == {i \in Idx(r) : VarOf(LitAt(r, i)) \in Vars \ {v} /\ Negation(LitAt(r, i)) \notin S}
             J == {i \in Idx(r) : LitAt(r, i) \in Lits \ (F \union {l})}
  <2>1. WellMade(b) /\ clauses[r] = Range(b.lits)
    BY <1>1 DEF ConstraintOK
  <2>2. p \in Cuts /\ p.card = b.card /\ Untangled(r)
    BY <1>1, <2>1, PbSetWeights DEF Untangled
  <2>3. PICK j \in Idx(r) : LitAt(r, j) = l
    BY <1>0, <2>1 DEF Idx, LitAt, Range
  <2>4. p.weights[v] # 0 /\ LitOf(p, v) = l
    BY <1>1, <2>1, <2>3, PbSetWeights
  <2>5. /\ Idx(r) = DOMAIN b.lits /\ IsFiniteSet(Idx(r)) /\ b.card \in Nat
        /\ \A i \in Idx(r) : LitAt(r, i) \in Lits /\ b.weights[i] \in Nat
    BY <2>1, WellMadeFacts DEF Idx, LitAt
  <2>6. I \subseteq J
    BY <2>5
  <2>10. ~ (SumOf(b.weights, J) >= b.card)
    BY <1>1 DEF ImpliedBy, Enough, Weight
  <2>8. /\ SumOf(b.weights, I) \in Nat /\ SumOf(b.weights, J) \in Nat
        /\ SumOf(b.weights, I) <= SumOf(b.weights, J)
    <3>1. IsFiniteSet(J)
      BY <2>5, FS_Subset
    <3>2. \A i \in J : b.weights[i] \in Nat
      BY <2>5
    <3> HIDE DEF I, J
    <3>3. /\ SumOf(b.weights, I) \in Nat /\ SumOf(b.weights, J) \in Nat
          /\ SumOf(b.weights, J \ I) \in Nat
          /\ SumOf(b.weights, J) = SumOf(b.weights, I) + SumOf(b.weights, J \ I)
      BY <2>6, <3>1, <3>2, SumSubset
    <3> QED BY <3>3
  <2>9. SumOf(Share(p, S), Vars \ {v}) = SumOf(b.weights, I)
    <3>1. SumOf(Share(p, S), Vars \ {v}) = Weight(r, I)
      <4>1. Vars \ {v} \subseteq Vars
        OBVIOUS
      <4> HIDE DEF v
      <4> QED BY <1>1, <2>1, <4>1, PbSetShares
    <3> QED BY <3>1 DEF Weight
  <2>11. Remaining(p, v, S) < p.card
    BY <2>2, <2>5, <2>8, <2>9, <2>10 DEF Remaining
  <2> QED BY <2>2, <2>4, <2>11
<1>2. CASE r \notin DOMAIN pbs
  <2> DEFINE C == clauses[r]
  <2>1. C \in Clauses /\ C \ {l} \subseteq F
    BY <1>2 DEF ConstraintOK, ImpliedBy, Enough, Clauses
  <2>2. \A k \in C : Negation(k) \notin C
    <3> SUFFICES ASSUME NEW k \in C, Negation(k) \in C PROVE FALSE
      OBVIOUS
    <3>1. k \in Lits /\ VarOf(Negation(k)) = VarOf(k) /\ Negation(k) # k
      BY <2>1, LitFacts DEF Clauses
    <3>2. k # l \/ Negation(k) # l
      BY <3>1
    <3>3. k = l \/ k \in F
      BY <2>1
    <3>4. Negation(k) = l \/ Negation(k) \in F
      BY <2>1
    <3> QED BY <3>1, <3>2, <3>3, <3>4 DEF VarsOf
  <2>3. /\ p \in Cuts /\ p.card = 1
        /\ p.weights[v] # 0 /\ LitOf(p, v) = l
        /\ \A u \in Vars \ VarsOf(C) : p.weights[u] = 0
    BY <1>0, <1>2, <2>1, <2>2, PbSetClause
  <2>4. ASSUME NEW u \in Vars \ {v} PROVE Share(p, S)[u] = 0
    <3>1. CASE u \notin VarsOf(C)
      BY <2>3, <3>1, ShareFacts DEF Abs
    <3>2. CASE u \in VarsOf(C)
      <4>1. PICK k \in C : u = VarOf(k)
        BY <3>2 DEF VarsOf
      <4>2. k \in F /\ k \in Lits
        BY <2>1, <2>4, <4>1
      <4>3. LitOf(p, u) = k
        BY <1>2, <2>1, <2>2, <4>1, PbSetClause
      <4> QED BY <2>3, <4>2, <4>3, ShareFacts
    <3> QED BY <3>1, <3>2
  <2>5. SumOf(Share(p, S), Vars \ {v}) = 0
    BY <2>4, SumZero
  <2> QED BY <1>2, <2>2, <2>3, <2>5 DEF Remaining, Untangled
<1> QED BY <1>1, <1>2

\* So is a falsified one.
LEMMA PbSetFalse ==
    ASSUME NEW c, ConstraintOK(c), NEW S, Consistent(S),
           ~ Enough({l \in Lits : Negation(l) \notin S}, c)
    PROVE  /\ Untangled(c)
           /\ PbSet(c) \in Cuts
           /\ NotContradicted(PbSet(c), S) < PbSet(c).card
<1> DEFINE p == PbSet(c)
<1>1. CASE c \in DOMAIN pbs
  <2> DEFINE b == pbs[c]
             I == {i \in Idx(c) : VarOf(LitAt(c, i)) \in Vars /\ Negation(LitAt(c, i)) \notin S}
             J == {i \in Idx(c) : LitAt(c, i) \in {l \in Lits : Negation(l) \notin S}}
  <2>1. WellMade(b) /\ ~ (Weight(c, J) >= b.card)
    BY <1>1 DEF ConstraintOK, Enough
  <2>2. p \in Cuts /\ p.card = b.card
    BY <1>1, <2>1, PbSetWeights
  <2>3. I = J
    BY <2>1, WellMadeFacts, LitFacts DEF Idx, LitAt
  <2>4. SumOf(Share(p, S), Vars) = Weight(c, I)
    <3> HIDE DEF p
    <3> QED BY <1>1, <2>1, PbSetShares DEF p
  <2>5. b.card \in Nat /\ NotContradicted(p, S) \in Nat
    BY <2>1, <2>2, WellMadeFacts, NotContradictedShares
  <2> QED BY <1>1, <2>1, <2>2, <2>3, <2>4, <2>5, NotContradictedShares DEF Untangled
<1>2. CASE c \notin DOMAIN pbs
  <2> DEFINE C == clauses[c]
  <2>1. C \in Clauses /\ \A l \in C : Negation(l) \in S /\ l \in Lits
    BY <1>2 DEF ConstraintOK, Clauses, Enough
  <2>2. \A l \in C : Negation(l) \notin C
    BY <2>1, LitFacts DEF Consistent
  <2>3. p \in Cuts /\ p.card = 1 /\ \A u \in Vars \ VarsOf(C) : p.weights[u] = 0
    BY <1>2, <2>1, <2>2, PbSetClause
  <2>4. ASSUME NEW u \in Vars PROVE Share(p, S)[u] = 0
    <3>1. CASE u \notin VarsOf(C)
      BY <2>3, <3>1, ShareFacts DEF Abs
    <3>2. CASE u \in VarsOf(C)
      <4>1. PICK k \in C : u = VarOf(k)
        BY <3>2 DEF VarsOf
      <4>2. LitOf(p, u) = k
        BY <1>2, <2>1, <2>2, <4>1, PbSetClause
      <4> QED BY <2>1, <2>3, <4>1, <4>2, ShareFacts
    <3> QED BY <3>1, <3>2
  <2>5. SumOf(Share(p, S), Vars) = 0
    BY <2>4, SumZero
  <2> QED BY <1>2, <2>2, <2>3, <2>5, NotContradictedShares DEF Untangled
<1> QED BY <1>1, <1>2

-----------------------------------------------------------------------------
(* Positions in order, and variables by weight.                            *)

LEMMA NthFacts ==
    ASSUME NEW n \in Nat, NEW I, I \subseteq 1 .. n
    PROVE  /\ IsFiniteSet(I) /\ Cardinality(I) \in Nat
           /\ \A k \in 1 .. Cardinality(I) :
                Nth(I, k) \in I /\ Cardinality({j \in I : j <= Nth(I, k)}) = k
           /\ \A j, k \in 1 .. Cardinality(I) : Nth(I, j) = Nth(I, k) => j = k
           /\ \A i \in I : \E k \in 1 .. Cardinality(I) : Nth(I, k) = i
           /\ \A j, k \in 1 .. Cardinality(I) : j < k => Nth(I, j) < Nth(I, k)
           /\ \A i \in I : /\ Cardinality({j \in I : j <= i}) \in 1 .. Cardinality(I)
                           /\ Nth(I, Cardinality({j \in I : j <= i})) = i
<1> DEFINE R == {x \in I \X I : x[1] < x[2]}
           m == Cardinality(I)
           f == [k \in 1 .. m |-> Nth(I, k)]
<1>0. I \subseteq Int
  OBVIOUS
<1>1. IsFiniteSet(I)
  <2>1. IsFiniteSet(1 .. n)
    BY FS_Interval
  <2> QED BY <2>1, FS_Subset
<1>2. StrictOrder(I, R)
  <2>1. \A u, v \in I : <<u, v>> \in R <=> u < v
    OBVIOUS
  <2> HIDE DEF R
  <2> QED BY <1>0, <2>1 DEF StrictOrder
<1>3. ASSUME NEW i \in I
      PROVE  Cardinality({j \in I : j <= i}) = Cardinality(Below(I, R, i)) + 1
  <2>1. {j \in I : j <= i} = Below(I, R, i) \union {i}
    <3>1. \A j \in I \ {i} : <<j, i>> \in R <=> j <= i
      BY <1>0
    <3> HIDE DEF R
    <3>2. i <= i
      BY <1>0
    <3>3. \A j : j \in Below(I, R, i) <=> j \in I \ {i} /\ j <= i
      BY <3>1 DEF Below
    <3> QED BY <3>2, <3>3
  <2>2. i \notin Below(I, R, i) /\ Below(I, R, i) \subseteq I
    BY DEF Below
  <2>3. IsFiniteSet(Below(I, R, i))
    BY <1>1, <2>2, FS_Subset
  <2> QED BY <2>1, <2>2, <2>3, FS_AddElement
<1> HIDE DEF R
<1>4. /\ m \in Nat
      /\ \A i \in I : Cardinality(Below(I, R, i)) \in 0 .. m - 1
      /\ \A i, j \in I : Cardinality(Below(I, R, i)) = Cardinality(Below(I, R, j)) => i = j
      /\ \A k \in 0 .. m - 1 : \E i \in I : Cardinality(Below(I, R, i)) = k
  <2>1. Ranked(I, R)
    BY <1>1, <1>2, Ranks
  <2> QED BY <2>1 DEF Ranked
<1>5. ASSUME NEW k \in 1 .. m
      PROVE  /\ Nth(I, k) \in I /\ Cardinality({j \in I : j <= Nth(I, k)}) = k
             /\ Cardinality(Below(I, R, Nth(I, k))) = k - 1
  <2>1. k - 1 \in 0 .. m - 1
    BY <1>4
  <2>2. PICK i \in I : Cardinality(Below(I, R, i)) = k - 1
    BY <1>4, <2>1
  <2>3. Cardinality({j \in I : j <= i}) = k
    BY <1>3, <2>2
  <2>4. Nth(I, k) \in I /\ Cardinality({j \in I : j <= Nth(I, k)}) = k
    BY <2>3 DEF Nth
  <2>5. Cardinality({j \in I : j <= Nth(I, k)}) = Cardinality(Below(I, R, Nth(I, k))) + 1
    BY <1>3, <2>4
  <2>6. Cardinality(Below(I, R, Nth(I, k))) \in 0 .. m - 1
    BY <1>4, <2>4
  <2> QED BY <2>4, <2>5, <2>6
<1>6. \A k \in 1 .. m : f[k] = Nth(I, k)
  OBVIOUS
<1>7. f = [k \in 1 .. m |-> f[k]] /\ DOMAIN f = 1 .. m
  OBVIOUS
<1> HIDE DEF f, m
<1>8. \A k \in 1 .. m : f[k] \in I /\ Cardinality(Below(I, R, f[k])) = k - 1
  BY <1>5, <1>6
<1>9. /\ \A j, k \in 1 .. m : f[j] = f[k] => j = k
      /\ \A i \in I : \E k \in 1 .. m : f[k] = i
      /\ \A j, k \in 1 .. m : j < k => <<f[j], f[k]>> \in R
  <2>1. Sorts(f, I, R)
    BY <1>1, <1>2, <1>7, <1>8, SortedFacts DEF m
  <2> QED BY <1>7, <2>1 DEF Sorts
<1>10. ASSUME NEW j \in 1 .. m, NEW k \in 1 .. m, j < k PROVE Nth(I, j) < Nth(I, k)
  <2>1. <<Nth(I, j), Nth(I, k)>> \in R
    BY <1>6, <1>9, <1>10
  <2> QED BY <2>1 DEF R
<1>11. ASSUME NEW i \in I
       PROVE  /\ Cardinality({j \in I : j <= i}) \in 1 .. m
              /\ Nth(I, Cardinality({j \in I : j <= i})) = i
  <2>1. PICK k \in 1 .. m : f[k] = i
    BY <1>9
  <2>2. Nth(I, k) = i /\ Cardinality({j \in I : j <= i}) = k
    BY <1>5, <1>6, <2>1
  <2> QED BY <2>2
<1>12. \A j, k \in 1 .. m : Nth(I, j) = Nth(I, k) => j = k
  BY <1>6, <1>9
<1>13. \A i \in I : \E k \in 1 .. m : Nth(I, k) = i
  BY <1>6, <1>9
<1> QED BY <1>1, <1>4, <1>5, <1>10, <1>11, <1>12, <1>13 DEF m

LEMMA HeaviestFacts ==
    ASSUME NEW V, V \subseteq Vars, NEW weight, \A v \in V : weight[v] \in Nat
    PROVE  LET vs == Heaviest(V, weight) IN
           /\ Cardinality(V) \in Nat /\ DOMAIN vs = 1 .. Cardinality(V)
           /\ vs = [k \in 1 .. Cardinality(V) |-> vs[k]]
           /\ \A k \in DOMAIN vs : vs[k] \in V
           /\ \A j, k \in DOMAIN vs : vs[j] = vs[k] => j = k
           /\ \A v \in V : \E k \in DOMAIN vs : vs[k] = v
           /\ \A j, k \in DOMAIN vs : j < k => weight[vs[j]] >= weight[vs[k]]
<1> DEFINE before(u, v) == weight[u] > weight[v] \/ (weight[u] = weight[v] /\ u < v)
           R == {x \in V \X V : before(x[1], x[2])}
           m == Cardinality(V)
           vs == Heaviest(V, weight)
<1>0. V \subseteq Int /\ IsFiniteSet(V)
  <2>1. Vars \subseteq Int
    BY NbVarsAssumption DEF Vars
  <2> QED BY <2>1, VarsFinite
<1>1. \A u, v \in V : <<u, v>> \in R <=> before(u, v)
  OBVIOUS
<1>2. StrictOrder(V, R)
  <2> HIDE DEF R
  <2> QED BY <1>0, <1>1 DEF StrictOrder
<1>3. \A v \in V : {u \in V \ {v} : before(u, v)} = Below(V, R, v)
  BY <1>1 DEF Below
<1> HIDE DEF R
<1>4. m \in Nat /\ \A k \in 0 .. m - 1 : \E v \in V : Cardinality(Below(V, R, v)) = k
  <2>1. Ranked(V, R)
    BY <1>0, <1>2, Ranks
  <2> QED BY <2>1 DEF Ranked
<1>5. vs = [k \in 1 .. m |-> CHOOSE v \in V : Cardinality({u \in V \ {v} : before(u, v)}) = k - 1]
  BY DEF Heaviest, Sorted
<1> HIDE DEF before, vs
<1>6. ASSUME NEW k \in 1 .. m
      PROVE  vs[k] \in V /\ Cardinality(Below(V, R, vs[k])) = k - 1
  <2> DEFINE r(v) == Cardinality({u \in V \ {v} : before(u, v)})
  <2>1. PICK v \in V : Cardinality(Below(V, R, v)) = k - 1
    BY <1>4, k - 1 \in 0 .. m - 1
  <2>2. r(v) = k - 1
    BY <1>3, <2>1
  <2>3. vs[k] = CHOOSE x \in V : r(x) = k - 1
    BY <1>5
  <2>4. vs[k] \in V /\ r(vs[k]) = k - 1
    <3> HIDE DEF r
    <3> QED BY <2>2, <2>3
  <2> QED BY <1>3, <2>4
<1>7. vs = [k \in 1 .. m |-> vs[k]] /\ DOMAIN vs = 1 .. m
  <2> DEFINE e(k) == CHOOSE v \in V : Cardinality({u \in V \ {v} : before(u, v)}) = k - 1
  <2>1. vs = [k \in 1 .. m |-> e(k)]
    BY <1>5
  <2> HIDE DEF e, m
  <2> QED BY <2>1
<1>8. /\ \A j, k \in DOMAIN vs : vs[j] = vs[k] => j = k
      /\ \A v \in V : \E k \in DOMAIN vs : vs[k] = v
      /\ \A j, k \in DOMAIN vs : j < k => <<vs[j], vs[k]>> \in R
  <2>1. Sorts(vs, V, R)
    BY <1>0, <1>2, <1>6, <1>7, SortedFacts
  <2> QED BY <2>1 DEF Sorts
<1>9. ASSUME NEW j \in DOMAIN vs, NEW k \in DOMAIN vs, j < k
      PROVE  weight[vs[j]] >= weight[vs[k]]
  <2>1. vs[j] \in V /\ vs[k] \in V
    BY <1>6, <1>7
  <2>2. before(vs[j], vs[k])
    BY <1>1, <1>8, <1>9, <2>1
  <2> QED BY <2>1, <2>2 DEF before
<1> QED BY <1>4, <1>6, <1>7, <1>8, <1>9 DEF vs

-----------------------------------------------------------------------------
(* NewPBClause and SimplifyPB.                                             *)

LEMMA ThresholdFacts ==
    ASSUME NEW p \in Cuts
    PROVE  /\ Threshold(p) \in Int
           /\ \A u \in Vars, S \in SUBSET Lits :
                Negation(LitOf(p, u)) \in S /\ NotContradicted(p, S) >= p.card
                    => Abs(p.weights[u]) <= Threshold(p)
           /\ p.card \in Nat \ {0} /\ Threshold(p) >= 0 => \E u \in Vars : p.weights[u] # 0
<1> DEFINE f == [u \in Vars |-> Abs(p.weights[u])]
<1>1. IsFiniteSet(Vars) /\ p.card \in Int /\ \A u \in Vars : f[u] \in Nat
  BY VarsFinite, ShareFacts DEF Cuts
<1>2. SumOf(f, Vars) \in Nat /\ Threshold(p) = SumOf(f, Vars) - p.card
  <2>1. SumOf(f, Vars) \in Nat
    <3> HIDE DEF f
    <3> QED BY <1>1, SumFinite
  <2> QED BY <2>1 DEF Threshold
<1>3. ASSUME NEW u \in Vars, NEW S \in SUBSET Lits, Negation(LitOf(p, u)) \in S,
             NotContradicted(p, S) >= p.card
      PROVE  Abs(p.weights[u]) <= Threshold(p)
  <2>1. \A v \in Vars : Share(p, S)[v] \in Nat /\ Share(p, S)[v] <= f[v]
    <3> SUFFICES ASSUME NEW v \in Vars PROVE Share(p, S)[v] \in Nat /\ Share(p, S)[v] <= f[v]
      OBVIOUS
    <3>1. f[v] = Abs(p.weights[v]) /\ f[v] \in Nat
      BY <1>1
    <3> HIDE DEF f
    <3> QED BY <3>1, ShareFacts
  <2>2. Share(p, S)[u] = 0 /\ f[u] = Abs(p.weights[u])
    BY <1>3, ShareFacts
  <2> HIDE DEF f
  <2>3. SumOf(f, Vars) = f[u] + SumOf(f, Vars \ {u}) /\ SumOf(f, Vars \ {u}) \in Nat
    BY <1>1, SumTerm
  <2>4. SumOf(Share(p, S), Vars \ {u}) <= SumOf(f, Vars \ {u})
    BY <1>1, <2>1, VarsFinite, SumMonotone
  <2>5. /\ NotContradicted(p, S) = Remaining(p, u, S) + Share(p, S)[u]
        /\ Remaining(p, u, S) = SumOf(Share(p, S), Vars \ {u}) /\ Remaining(p, u, S) \in Nat
    BY RemainingFacts DEF Remaining
  <2>6. f[u] \in Nat
    BY <1>1
  <2> QED BY <1>1, <1>2, <1>3, <2>2, <2>3, <2>4, <2>5, <2>6
<1>4. ASSUME p.card \in Nat \ {0}, Threshold(p) >= 0
      PROVE  \E u \in Vars : p.weights[u] # 0
  <2> SUFFICES ASSUME \A u \in Vars : p.weights[u] = 0 PROVE FALSE
    OBVIOUS
  <2>1. \A u \in Vars : f[u] = 0
    BY DEF Abs
  <2>2. SumOf(f, Vars) = 0
    <3> HIDE DEF f
    <3> QED BY <2>1, SumZero
  <2> HIDE DEF f
  <2>3. Threshold(p) = 0 - p.card
    BY <1>2, <2>2
  <2> QED BY <1>4, <2>3
<1>5. Threshold(p) \in Int
  <2> HIDE DEF f
  <2> QED BY <1>1, <1>2
<1> QED BY <1>3, <1>4, <1>5

\* The literals of the variables heavier than that hold in every solution.
LEMMA UnitsHold ==
    ASSUME NEW p \in Cuts, NEW a \in Assignments, MeetsCut(a, p), NEW u \in Units(p)
    PROVE  Holds(a, LitOf(p, u))
<1> DEFINE S == {l \in Lits : Holds(a, l)}
           l == LitOf(p, u)
<1>1. u \in Vars /\ Abs(p.weights[u]) > Threshold(p)
  BY DEF Units
<1>2. l \in Lits /\ Negation(l) \in Lits
  BY <1>1, ShareFacts, LitFacts
<1>3. SUFFICES ASSUME ~ Holds(a, l) PROVE FALSE
  OBVIOUS
<1>4. Negation(l) \in S
  BY <1>2, <1>3, HoldsNegation
<1>5. NotContradicted(p, S) >= p.card
  BY DEF MeetsCut
<1>6. Abs(p.weights[u]) <= Threshold(p)
  <2>1. S \in SUBSET Lits
    OBVIOUS
  <2> HIDE DEF S
  <2> QED BY <1>1, <1>4, <1>5, <2>1, ThresholdFacts
<1>7. Abs(p.weights[u]) \in Nat /\ Threshold(p) \in Int
  BY <1>1, ShareFacts, ThresholdFacts
<1> QED BY <1>1, <1>6, <1>7

LEMMA UnitLitsFacts ==
    ASSUME NEW p \in Cuts
    PROVE  /\ UnitLits(p) \in Seq(Lits)
           /\ \A k \in DOMAIN UnitLits(p) : \E u \in Units(p) : UnitLits(p)[k] = LitOf(p, u)
           /\ Units(p) # {} => UnitLits(p) # <<>>
<1> DEFINE w == [v \in Vars |-> Abs(p.weights[v])]
           vs == Heaviest(Units(p), w)
<1>1. Units(p) \subseteq Vars /\ \A v \in Units(p) : w[v] \in Nat
  <2>1. Units(p) \subseteq Vars
    BY DEF Units
  <2> QED BY <2>1, ShareFacts
<1>2. /\ Cardinality(Units(p)) \in Nat /\ DOMAIN vs = 1 .. Cardinality(Units(p))
      /\ \A k \in DOMAIN vs : vs[k] \in Units(p)
      /\ \A v \in Units(p) : \E k \in DOMAIN vs : vs[k] = v
  <2> HIDE DEF w
  <2> QED BY <1>1, HeaviestFacts
<1>3. UnitLits(p) = [i \in DOMAIN vs |-> LitOf(p, vs[i])]
  BY DEF UnitLits
<1> HIDE DEF vs, w
<1>4. \A k \in DOMAIN vs : LitOf(p, vs[k]) \in Lits
  BY <1>1, <1>2, ShareFacts
<1>5. UnitLits(p) \in Seq(Lits)
  <2>1. UnitLits(p) \in [1 .. Cardinality(Units(p)) -> Lits]
    BY <1>2, <1>3, <1>4
  <2> QED BY <1>2, <2>1, FunctionIsSeq
<1>6. DOMAIN UnitLits(p) = DOMAIN vs /\ \A k \in DOMAIN vs : UnitLits(p)[k] = LitOf(p, vs[k])
  BY <1>3
<1> QED BY <1>2, <1>5, <1>6

\* The constraint learned: the literals of the cut, with its solutions, and
\* weights that are not heavier.
LEMMA SimplifiedFacts ==
    ASSUME NEW p \in Cuts, p.card \in Nat \ {0}, Threshold(p) >= 0
    PROVE  /\ WellMade(Simplified(p)) /\ Simplified(p).pb
           /\ Simplified(p).card = p.card /\ Simplified(p).lits # <<>>
           /\ Range(Simplified(p).lits) = {LitOf(p, v) : v \in {u \in Vars : p.weights[u] # 0}}
           /\ \A a \in Assignments : MeetsCut(a, p) => Meets(a, Simplified(p))
           /\ \A v \in Vars, S \in SUBSET Lits :
                Remaining(p, v, S) < p.card =>
                    SumOf(Simplified(p).weights,
                        {i \in DOMAIN Simplified(p).lits :
                            /\ VarOf(Simplified(p).lits[i]) # v
                            /\ Negation(Simplified(p).lits[i]) \notin S}) < p.card
<1> DEFINE w == [v \in Vars |-> Abs(p.weights[v])]
           V == {v \in Vars : w[v] # 0}
           first == Heaviest(V, w)[1]
           low == [w EXCEPT ![first] = Min({@, p.card})]
           before(u, v) == \/ low[u] > low[v]
                           \/ low[u] = low[v] /\ v # first /\ (u = first \/ u < v)
           vs == Sorted(V, before)
           n == Cardinality(V)
           b == Simplified(p)
<1>1. /\ IsFiniteSet(V) /\ V \subseteq Vars /\ n \in Nat /\ p.card \in Nat
      /\ \A v \in Vars : w[v] \in Nat /\ w[v] = Abs(p.weights[v])
      /\ \A v \in Vars : p.weights[v] \in Int
  <2>1. V \subseteq Vars
    OBVIOUS
  <2> QED BY <2>1, VarsFinite, ShareFacts
<1>2. V = {v \in Vars : p.weights[v] # 0}
  BY <1>1 DEF Abs
<1>3. V # {} /\ n \in Nat \ {0}
  <2>1. \E u \in Vars : p.weights[u] # 0
    BY ThresholdFacts
  <2>2. V # {}
    BY <1>2, <2>1
  <2> HIDE DEF V
  <2>3. n # 0
    BY <1>1, <2>2, FS_EmptySet
  <2> QED BY <1>1, <2>2, <2>3
<1>4. first \in V
  <2> HIDE DEF w
  <2>1. /\ DOMAIN Heaviest(V, w) = 1 .. n
        /\ \A k \in DOMAIN Heaviest(V, w) : Heaviest(V, w)[k] \in V
    BY <1>1, HeaviestFacts
  <2> HIDE DEF V
  <2> QED BY <1>3, <2>1
<1> HIDE DEF first
<1>5. \A v \in V : /\ low[v] \in Nat \ {0} /\ low[v] <= w[v]
                   /\ low[v] = IF v = first /\ p.card < w[v] THEN p.card ELSE w[v]
  <2> SUFFICES ASSUME NEW v \in V
               PROVE  low[v] = IF v = first /\ p.card < w[v] THEN p.card ELSE w[v]
    BY <1>1
  <2>1. w[v] \in Nat
    BY <1>1
  <2>2. CASE v = first
    <3>1. low[v] = Min({w[v], p.card})
      BY <1>4, <2>2
    <3> HIDE DEF w, low
    <3> QED BY <1>1, <2>1, <2>2, <3>1, MinOfTwo
  <2>3. CASE v # first
    BY <2>3
  <2> QED BY <2>2, <2>3
<1> DEFINE R == {x \in V \X V : before(x[1], x[2])}
<1>6. \A u, v \in V : <<u, v>> \in R <=> before(u, v)
  OBVIOUS
<1>7. V \subseteq Int
  BY <1>1, NbVarsAssumption DEF Vars
<1>8. StrictOrder(V, R)
  <2>1. \A v \in V : low[v] \in Int
    BY <1>5
  <2> HIDE DEF R, low, V
  <2> QED BY <1>6, <1>7, <2>1 DEF StrictOrder
<1>9. \A v \in V : {u \in V \ {v} : before(u, v)} = Below(V, R, v)
  <2> HIDE DEF R, before, V
  <2> QED BY <1>6 DEF Below
<1>10. vs = [k \in 1 .. n |-> CHOOSE v \in V : Cardinality({u \in V \ {v} : before(u, v)}) = k - 1]
  BY DEF Sorted
<1>11. /\ b.lits = [i \in DOMAIN vs |-> LitOf(p, vs[i])]
       /\ b.weights = [i \in DOMAIN vs |-> low[vs[i]]]
       /\ b.card = p.card /\ b.pb = TRUE
       /\ b = [lits |-> b.lits, weights |-> b.weights, card |-> p.card, pb |-> TRUE, watched |-> b.watched]
       /\ b.watched = [i \in DOMAIN b.lits |-> i \in WatchedByPB(b.weights, p.card)]
  BY DEF Simplified, NewConstraint, Constraint, first
<1> HIDE DEF before, vs, R, low, V, w, b
<1>12. Ranked(V, R)
  BY <1>1, <1>8, Ranks
<1>13. ASSUME NEW k \in 1 .. n
       PROVE  vs[k] \in V /\ Cardinality(Below(V, R, vs[k])) = k - 1
  <2> DEFINE r(v) == Cardinality({u \in V \ {v} : before(u, v)})
  <2>1. k - 1 \in 0 .. n - 1
    BY <1>1
  <2>2. PICK v \in V : Cardinality(Below(V, R, v)) = k - 1
    BY <1>12, <2>1 DEF Ranked
  <2>3. r(v) = k - 1
    BY <1>9, <2>2
  <2>4. vs[k] = CHOOSE x \in V : r(x) = k - 1
    BY <1>10
  <2>5. vs[k] \in V /\ r(vs[k]) = k - 1
    <3> HIDE DEF r
    <3> QED BY <2>3, <2>4
  <2> QED BY <1>9, <2>5
<1>14. vs = [k \in 1 .. n |-> vs[k]] /\ DOMAIN vs = 1 .. n
  <2> DEFINE e(k) == CHOOSE v \in V : Cardinality({u \in V \ {v} : before(u, v)}) = k - 1
  <2>1. vs = [k \in 1 .. n |-> e(k)]
    BY <1>10
  <2> HIDE DEF e, n
  <2> QED BY <2>1
<1>15. Sorts(vs, V, R)
  BY <1>1, <1>8, <1>13, <1>14, SortedFacts
<1>16. /\ DOMAIN b.lits = 1 .. n /\ DOMAIN b.weights = 1 .. n
       /\ \A i \in 1 .. n : /\ vs[i] \in V /\ vs[i] \in Vars
                            /\ b.lits[i] = LitOf(p, vs[i]) /\ b.weights[i] = low[vs[i]]
                            /\ b.lits[i] \in Lits /\ VarOf(b.lits[i]) = vs[i]
  <2>1. DOMAIN b.lits = 1 .. n /\ DOMAIN b.weights = 1 .. n
    BY <1>11, <1>14
  <2>2. ASSUME NEW i \in 1 .. n
        PROVE  /\ vs[i] \in V /\ vs[i] \in Vars
               /\ b.lits[i] = LitOf(p, vs[i]) /\ b.weights[i] = low[vs[i]]
               /\ b.lits[i] \in Lits /\ VarOf(b.lits[i]) = vs[i]
    <3>1. vs[i] \in V /\ vs[i] \in Vars
      BY <1>1, <1>13
    <3>2. b.lits[i] = LitOf(p, vs[i]) /\ b.weights[i] = low[vs[i]]
      BY <1>11, <1>14
    <3> QED BY <3>1, <3>2, ShareFacts
  <2> QED BY <2>1, <2>2
<1>17. /\ b.lits \in Seq(Lits) /\ b.weights \in Seq(Nat \ {0}) /\ b.watched \in Seq(BOOLEAN)
       /\ Len(b.lits) = n /\ Len(b.weights) = n
  <2>1. b.lits \in [1 .. n -> Lits]
    BY <1>11, <1>14, <1>16
  <2>2. b.weights \in [1 .. n -> Nat \ {0}]
    BY <1>5, <1>11, <1>14, <1>16
  <2>3. b.watched \in [1 .. n -> BOOLEAN]
    <3> DEFINE W == WatchedByPB(b.weights, p.card)
    <3>1. b.watched = [i \in 1 .. n |-> i \in W]
      BY <1>11, <1>16
    <3> HIDE DEF W, n
    <3> QED BY <3>1
  <2> HIDE DEF n
  <2> QED BY <1>1, <2>1, <2>2, <2>3, FunctionIsSeq
<1>18. WellMade(b)
  <2>1. b \in Constraints
    BY <1>1, <1>11, <1>17 DEF Constraints
  <2>2. \A i, j \in 1 .. n : vs[i] = vs[j] => i = j
    BY <1>14, <1>15 DEF Sorts
  <2> QED BY <1>16, <1>17, <2>1, <2>2 DEF WellMade
<1>19. b.lits # <<>>
  BY <1>3, <1>17
<1>20. Range(b.lits) = {LitOf(p, v) : v \in {u \in Vars : p.weights[u] # 0}}
  <2>1. ASSUME NEW l \in Range(b.lits) PROVE l \in {LitOf(p, v) : v \in V}
    BY <1>16 DEF Range
  <2>2. ASSUME NEW v \in V PROVE LitOf(p, v) \in Range(b.lits)
    <3>1. PICK i \in 1 .. n : vs[i] = v
      BY <1>14, <1>15 DEF Sorts
    <3> QED BY <1>16, <3>1 DEF Range
  <2> QED BY <1>2, <2>1, <2>2
<1>21. ASSUME NEW I, I \subseteq 1 .. n
       PROVE  /\ SumOf(b.weights, I) = SumOf(low, {vs[i] : i \in I})
              /\ IsFiniteSet({vs[i] : i \in I}) /\ {vs[i] : i \in I} \subseteq V
  <2> DEFINE g == [i \in I |-> vs[i]]
             U == {vs[i] : i \in I}
  <2>1. g \in Bijection(I, U)
    <3>1. \A i, j \in I : g[i] = g[j] => i = j
      BY <1>14, <1>15, <1>21 DEF Sorts
    <3> QED BY <3>1 DEF Bijection, Injection, Surjection, IsInjective
  <2>2. IsFiniteSet(I)
    <3>1. IsFiniteSet(1 .. n)
      BY <1>1, FS_Interval
    <3> QED BY <1>21, <3>1, FS_Subset
  <2>3. \A i \in I : b.weights[i] \in Nat /\ low[g[i]] = b.weights[i]
    BY <1>5, <1>16, <1>21
  <2>4. U \subseteq V
    BY <1>16, <1>21
  <2>5. IsFiniteSet(U)
    BY <1>1, <2>4, FS_Subset
  <2>6. SumOf(low, U) = SumOf(b.weights, I)
    <3> HIDE DEF g, U
    <3> QED BY <2>1, <2>2, <2>3, SumImage
  <2> QED BY <2>4, <2>5, <2>6
<1>22. ASSUME NEW a \in Assignments, MeetsCut(a, p) PROVE Meets(a, b)
  <2> DEFINE S == {l \in Lits : Holds(a, l)}
             I == {i \in 1 .. n : Holds(a, b.lits[i])}
             U == {vs[i] : i \in I}
             J == {v \in Vars : Negation(LitOf(p, v)) \notin S}
  <2>1. I \subseteq 1 .. n
    OBVIOUS
  <2>2. SumOf(b.weights, I) = SumOf(low, U) /\ IsFiniteSet(U) /\ U \subseteq V
    <3> HIDE DEF I
    <3> QED BY <1>21, <2>1
  <2>3. ASSUME NEW v \in V PROVE v \in U <=> v \in J
    <3>1. PICK i \in 1 .. n : vs[i] = v
      BY <1>14, <1>15 DEF Sorts
    <3>2. v \in U <=> i \in I
      <4>1. \A j \in 1 .. n : vs[j] = v => j = i
        BY <1>14, <1>15, <3>1 DEF Sorts
      <4> QED BY <3>1, <4>1
    <3>3. LitOf(p, v) \in Lits /\ Negation(LitOf(p, v)) \in Lits /\ b.lits[i] = LitOf(p, v)
      BY <1>16, <3>1, LitFacts
    <3>4. i \in I <=> Holds(a, LitOf(p, v))
      BY <3>3
    <3>5. v \in J <=> Holds(a, LitOf(p, v))
      BY <1>1, <3>3, HoldsNegation
    <3> QED BY <3>2, <3>4, <3>5
  <2>4. SumOf(w, J) >= p.card
    BY <1>22 DEF MeetsCut, NotContradicted, w
  <2>5. SumOf(w, J) = SumOf(w, U)
    <3>1. J \subseteq Vars /\ U \subseteq J
      BY <2>2, <2>3
    <3>2. \A v \in J \ U : w[v] = 0
      BY <2>3 DEF V
    <3>3. IsFiniteSet(J) /\ \A v \in J : w[v] \in Nat
      BY <1>1, <3>1, VarsFinite
    <3> HIDE DEF J, U
    <3>4. SumOf(w, J \ U) = 0
      BY <3>2, SumZero
    <3>5. SumOf(w, J) = SumOf(w, U) + SumOf(w, J \ U) /\ SumOf(w, U) \in Nat
      BY <3>1, <3>3, SumSubset
    <3> QED BY <3>4, <3>5
  <2> HIDE DEF I, U, J
  <2>6. SumOf(low, U) >= p.card
    <3>1. CASE first \in U /\ p.card < w[first]
      <4>1. low[first] = p.card
        BY <1>4, <1>5, <3>1
      <4>2. \A v \in U : low[v] \in Nat
        BY <1>5, <2>2
      <4>3. SumOf(low, U) = low[first] + SumOf(low, U \ {first}) /\ SumOf(low, U \ {first}) \in Nat
        BY <2>2, <3>1, <4>2, SumTerm
      <4> QED BY <1>1, <4>1, <4>3
    <3>2. CASE ~ (first \in U /\ p.card < w[first])
      <4>1. \A v \in U : low[v] = w[v]
        BY <1>5, <2>2, <3>2
      <4> QED BY <2>4, <2>5, <4>1, SumEqual
    <3> QED BY <3>1, <3>2
  <2>7. SumOf(b.weights, I) >= b.card
    BY <1>11, <2>2, <2>6
  <2> QED BY <1>16, <2>7 DEF Meets, I
<1>23. ASSUME NEW v \in Vars, NEW S \in SUBSET Lits, Remaining(p, v, S) < p.card
       PROVE  SumOf(b.weights, {i \in DOMAIN b.lits :
                    VarOf(b.lits[i]) # v /\ Negation(b.lits[i]) \notin S}) < p.card
  <2> DEFINE I == {i \in DOMAIN b.lits : VarOf(b.lits[i]) # v /\ Negation(b.lits[i]) \notin S}
             U == {vs[i] : i \in I}
  <2>1. I \subseteq 1 .. n
    BY <1>16
  <2>2. SumOf(b.weights, I) = SumOf(low, U) /\ IsFiniteSet(U) /\ U \subseteq V
    <3> HIDE DEF I
    <3> QED BY <1>21, <2>1
  <2>3. \A u \in U : /\ u \in Vars \ {v} /\ low[u] \in Nat /\ Share(p, S)[u] \in Nat
                     /\ low[u] <= Share(p, S)[u]
    <3> SUFFICES ASSUME NEW i \in I
                 PROVE  /\ vs[i] \in Vars \ {v} /\ low[vs[i]] \in Nat /\ Share(p, S)[vs[i]] \in Nat
                        /\ low[vs[i]] <= Share(p, S)[vs[i]]
      OBVIOUS
    <3>1. /\ i \in 1 .. n /\ vs[i] # v /\ Negation(LitOf(p, vs[i])) \notin S
          /\ vs[i] \in V /\ vs[i] \in Vars
      BY <1>16
    <3> HIDE DEF I
    <3>2. Share(p, S)[vs[i]] = w[vs[i]] /\ w[vs[i]] \in Nat
      BY <1>1, <3>1, ShareFacts
    <3> QED BY <1>5, <3>1, <3>2
  <2> HIDE DEF I, U
  <2>4. SumOf(low, U) <= SumOf(Share(p, S), U)
    BY <2>2, <2>3, SumMonotone
  <2>5. /\ SumOf(Share(p, S), U) \in Nat
        /\ SumOf(Share(p, S), U) <= SumOf(Share(p, S), Vars \ {v})
    <3>1. U \subseteq Vars \ {v}
      BY <2>3
    <3>2. IsFiniteSet(Vars \ {v}) /\ \A u \in Vars \ {v} : Share(p, S)[u] \in Nat
      BY VarsFinite, ShareFacts
    <3>3. /\ SumOf(Share(p, S), Vars \ {v}) = SumOf(Share(p, S), U) + SumOf(Share(p, S), (Vars \ {v}) \ U)
          /\ SumOf(Share(p, S), U) \in Nat /\ SumOf(Share(p, S), (Vars \ {v}) \ U) \in Nat
      BY <3>1, <3>2, SumSubset
    <3> QED BY <3>3
  <2>6. SumOf(low, U) \in Nat /\ Remaining(p, v, S) \in Nat
    BY <2>2, <2>3, SumFinite, RemainingFacts
  <2>7. SumOf(b.weights, I) < p.card
    BY <1>1, <1>23, <2>2, <2>4, <2>5, <2>6 DEF Remaining
  <2> QED BY <2>7 DEF I
<1> QED BY <1>11, <1>18, <1>19, <1>20, <1>22, <1>23 DEF b

-----------------------------------------------------------------------------
(* What is enough for a constraint, and what it implies.                   *)

\* Only the literals of the constraint count.
LEMMA EnoughGrows ==
    ASSUME NEW c, ConstraintOK(c), NEW T, NEW U, T \cap clauses[c] \subseteq U, Enough(T, c)
    PROVE  Enough(U, c)
<1>1. CASE c \in DOMAIN pbs
  <2> DEFINE b == pbs[c]
             I == {i \in Idx(c) : LitAt(c, i) \in T}
             J == {i \in Idx(c) : LitAt(c, i) \in U}
  <2>1. /\ WellMade(b) /\ clauses[c] = Range(b.lits)
    BY <1>1 DEF ConstraintOK
  <2>2. /\ Idx(c) = DOMAIN b.lits /\ IsFiniteSet(Idx(c)) /\ b.card \in Nat
        /\ \A i \in Idx(c) : LitAt(c, i) \in clauses[c] /\ b.weights[i] \in Nat
    BY <2>1, WellMadeFacts DEF Idx, LitAt, Range
  <2>3. I \subseteq J /\ IsFiniteSet(J) /\ \A i \in J : b.weights[i] \in Nat
    <3>1. J \subseteq Idx(c)
      OBVIOUS
    <3>2. IsFiniteSet(J)
      BY <2>2, <3>1, FS_Subset
    <3> QED BY <2>2, <3>2
  <2>4. SumOf(b.weights, I) >= b.card
    BY <1>1 DEF Enough, Weight
  <2>5. /\ SumOf(b.weights, I) \in Nat /\ SumOf(b.weights, J) \in Nat
        /\ SumOf(b.weights, J \ I) \in Nat
        /\ SumOf(b.weights, J) = SumOf(b.weights, I) + SumOf(b.weights, J \ I)
    <3> HIDE DEF I, J, b
    <3> QED BY <2>3, SumSubset
  <2>6. SumOf(b.weights, J) >= b.card
    BY <2>2, <2>4, <2>5
  <2> QED BY <1>1, <2>6 DEF Enough, Weight
<1>2. CASE c \notin DOMAIN pbs
  BY <1>2 DEF Enough
<1> QED BY <1>1, <1>2

\* When T is not enough, what satisfies the constraint has another of its literals.
LEMMA NotEnough ==
    ASSUME NEW c, ConstraintOK(c), NEW a \in Assignments, Enough(Made(a), c),
           NEW T, ~ Enough(T, c)
    PROVE  \E k \in clauses[c] : k \notin T /\ k \in Lits /\ Holds(a, k)
<1>1. ~ (Made(a) \cap clauses[c] \subseteq T)
  BY EnoughGrows
<1> QED BY <1>1 DEF Made

\* If the literal that is implied does not hold, one of those that were false does.
LEMMA Explained ==
    ASSUME NEW c, ConstraintOK(c), NEW a \in Assignments, Enough(Made(a), c),
           NEW l, NEW F, ImpliedBy(c, l, F), ~ Holds(a, l)
    PROVE  \E k \in clauses[c] : k \in F /\ k \in Lits /\ Holds(a, k)
<1>1. PICK k \in clauses[c] : k \notin Lits \ (F \union {l}) /\ k \in Lits /\ Holds(a, k)
  BY NotEnough DEF ImpliedBy
<1> QED BY <1>1

LEMMA ImpliedGrows ==
    ASSUME NEW c, ConstraintOK(c), NEW l, NEW F, NEW G, ImpliedBy(c, l, F),
           F \cap clauses[c] \subseteq G
    PROVE  ImpliedBy(c, l, G)
<1>1. (Lits \ (G \union {l})) \cap clauses[c] \subseteq Lits \ (F \union {l})
  OBVIOUS
<1> QED BY <1>1, EnoughGrows DEF ImpliedBy

\* The clauses and constraints of the invariant are as expected.
LEMMA ConstraintsOK ==
    ASSUME PBTypeOK, DatabaseOK
    PROVE  /\ \A c \in ClauseIds : ConstraintOK(c) /\ clauses[c] \in Clauses
           /\ \A c \in ClauseIds, a \in Solutions : Enough(Made(a), c)
           /\ \A a \in Solutions : a \in Assignments
           /\ Nil \notin ClauseIds /\ Len(clauses) \in Nat /\ DOMAIN clauses = ClauseIds
<1>1. \A c \in ClauseIds : clauses[c] \in Clauses
  BY DEF PBTypeOK, ClauseIds
<1>2. \A c \in ClauseIds : ConstraintOK(c)
  BY <1>1 DEF ConstraintOK, PBTypeOK, DatabaseOK, WellMade
<1>3. \A c \in ClauseIds, a \in Solutions : Enough(Made(a), c)
  BY DEF DatabaseOK, Made
<1>4. \A a \in Solutions : a \in Assignments
  BY DEF Solutions
<1>5. Nil \notin ClauseIds /\ Len(clauses) \in Nat /\ DOMAIN clauses = ClauseIds
  BY DEF Nil, ClauseIds, PBTypeOK
<1> QED BY <1>1, <1>2, <1>3, <1>4, <1>5

-----------------------------------------------------------------------------
(* What the trail says.                                                    *)

\* The literals that are on the trail up to n.
UpTo(n) == {trail[i] : i \in 1 .. n}

LEMMA TrailType ==
    ASSUME PBTypeOK
    PROVE  /\ Len(trail) \in Nat /\ DOMAIN trail = 1 .. Len(trail)
           /\ \A i \in DOMAIN trail : trail[i] \in Lits /\ VarOf(trail[i]) \in Vars
           /\ \A v \in Vars : Level(v) \in Nat /\ (Level(v) = 0 <=> model[v] = 0)
<1>1. trail \in Seq(Lits) /\ model \in [Vars -> Int]
  BY DEF PBTypeOK
<1> QED BY <1>1, LitFacts, LevelFacts

LEMMA BoundFacts ==
    ASSUME PBTypeOK, NEW n, TrailBound(n), NEW l \in Lits
    PROVE  /\ LitStatus(l) = "Sat" <=> l \in UpTo(n)
           /\ IsFalse(l) <=> Negation(l) \in UpTo(n)
           /\ IsFalse(l) <=> LitStatus(Negation(l)) = "Sat"
           /\ model[VarOf(l)] # 0 <=> LitStatus(l) = "Sat" \/ IsFalse(l)
           /\ model[VarOf(l)] = 0 <=> LitStatus(l) = "Indet"
           /\ ~ (LitStatus(l) = "Sat" /\ IsFalse(l))
<1>1. VarOf(l) \in Vars /\ Negation(l) \in Lits
  BY LitFacts
<1>2. model \in [Vars -> Int]
  BY DEF PBTypeOK
<1>3. /\ n \in 0 .. Len(trail)
      /\ \A i \in 1 .. n : i \in DOMAIN trail /\ trail[i] \in Lits /\ LitStatus(trail[i]) = "Sat"
  BY TrailType DEF TrailBound
<1>4. ASSUME NEW k \in Lits PROVE LitStatus(k) = "Sat" <=> k \in UpTo(n)
  <2>1. ASSUME LitStatus(k) = "Sat" PROVE \E i \in 1 .. n : trail[i] = k
    <3>1. model[VarOf(k)] # 0 /\ VarOf(k) \in Vars
      BY <1>2, <2>1, StatusFacts, LitFacts
    <3>2. PICK i \in 1 .. n : VarOf(trail[i]) = VarOf(k)
      BY <3>1 DEF TrailBound
    <3>3. trail[i] = k
      BY <1>2, <1>3, <2>1, <3>2, StatusFacts, SameVar, LitFacts
    <3> QED BY <3>3
  <2> QED BY <1>3, <2>1 DEF UpTo
<1>5. IsFalse(l) <=> LitStatus(Negation(l)) = "Sat"
  BY <1>1, <1>2, StatusFacts, LitFacts
<1>6. model[VarOf(l)] # 0 <=> LitStatus(l) = "Sat" \/ IsFalse(l)
  BY <1>1, <1>2, StatusFacts, LitFacts
<1>7. model[VarOf(l)] = 0 <=> LitStatus(l) = "Indet"
  BY <1>2, StatusFacts
<1>8. ~ (LitStatus(l) = "Sat" /\ IsFalse(l))
  BY DEF IsFalse
<1> QED BY <1>1, <1>4, <1>5, <1>6, <1>7, <1>8

\* What the algebra of cutting planes wants to know of the trail.
LEMMA UpToFacts ==
    ASSUME PBTypeOK, NEW n, TrailBound(n)
    PROVE  MadeTrue(model, UpTo(n)) /\ Consistent(UpTo(n)) /\ UpTo(n) \subseteq Lits
<1>1. UpTo(n) \subseteq Lits
  BY TrailType DEF UpTo, TrailBound
<1>2. Consistent(UpTo(n))
  <2>1. ASSUME NEW l \in UpTo(n) PROVE Negation(l) \notin UpTo(n)
    <3>1. l \in Lits /\ Negation(l) \in Lits
      BY <1>1, LitFacts
    <3> QED BY <2>1, <3>1, BoundFacts
  <2> QED BY <1>1, <2>1 DEF Consistent
<1>3. MadeTrue(model, UpTo(n))
  <2>1. model \in [Vars -> Int]
    BY DEF PBTypeOK
  <2>2. ASSUME NEW l \in Lits
        PROVE  l \in UpTo(n) <=> model[VarOf(l)] # 0 /\ (model[VarOf(l)] > 0 <=> IsPositive(l))
    BY <2>1, BoundFacts, StatusFacts
  <2> QED BY <2>2 DEF MadeTrue
<1> QED BY <1>1, <1>2, <1>3

\* What was false before the end of the trail is what is false.
LEMMA FalseNow ==
    ASSUME PBTypeOK, TrailBound(Len(trail))
    PROVE  {l \in Lits : IsFalse(l)} = FalseBefore(Len(trail) + 1)
<1>1. \A l \in Lits : IsFalse(l) <=> Negation(l) \in UpTo(Len(trail))
  BY BoundFacts, TrailType
<1>2. 1 .. (Len(trail) + 1) - 1 = DOMAIN trail
  BY TrailType
<1>3. \A i \in DOMAIN trail : Negation(trail[i]) \in Lits /\ Negation(Negation(trail[i])) = trail[i]
  BY TrailType, LitFacts
<1>4. \A l \in Lits : Negation(l) \in UpTo(Len(trail)) <=> l \in FalseBefore(Len(trail) + 1)
  BY <1>2, <1>3, LitFacts, TrailType DEF UpTo, FalseBefore
<1> QED BY <1>1, <1>2, <1>3, <1>4 DEF FalseBefore

-----------------------------------------------------------------------------
(* Undoing the levels above some level.                                    *)

\* cleanupBindings keeps a prefix of the trail, of the levels it is asked to
\* keep; what cutting planes unbound is in the rest.
LEMMA CutBackFacts ==
    ASSUME PBTypeOK, NEW n, TrailBound(n), NEW level \in Nat \ {0},
           n < Len(trail) => Level(VarOf(trail[n])) > level
    PROVE  /\ KeptLen(level) \in 0 .. n
           /\ \A i \in 1 .. KeptLen(level) : Level(VarOf(trail[i])) <= level
           /\ \A i \in KeptLen(level) + 1 .. n : Level(VarOf(trail[i])) > level
           /\ CleanTrail(level) \in Seq(Lits)
           /\ Len(CleanTrail(level)) = KeptLen(level)
           /\ \A i \in 1 .. KeptLen(level) : CleanTrail(level)[i] = trail[i]
           /\ \A v \in Vars : v \in Dropped(level) <=>
                Level(v) > level \/ \E i \in n + 1 .. Len(trail) : VarOf(trail[i]) = v
           /\ CleanModel(level) = [v \in Vars |-> IF Level(v) > level THEN 0 ELSE model[v]]
           /\ CleanModel(level) \in [Vars -> Int]
           /\ CleanReason(level) \in [Vars -> {Nil} \union ClauseIds]
           /\ CleanPolarity(level) \in [Vars -> BOOLEAN]
           /\ Dropped(level) \subseteq Vars
<1> DEFINE k == KeptLen(level)
           N == Len(trail)
<1>0. /\ N \in Nat /\ DOMAIN trail = 1 .. N
      /\ \A i \in 1 .. N : trail[i] \in Lits /\ VarOf(trail[i]) \in Vars
      /\ \A i \in 1 .. N : Level(VarOf(trail[i])) \in Nat
      /\ \A v \in Vars : Level(v) \in Nat /\ (Level(v) = 0 <=> model[v] = 0)
  BY TrailType
<1>1. /\ n \in 0 .. N
      /\ n < N => n > 0 /\ Level(VarOf(trail[n])) > level
      /\ \A i \in n + 1 .. N : model[VarOf(trail[i])] = 0
      /\ \A i, j \in 1 .. n : i <= j => Level(VarOf(trail[i])) <= Level(VarOf(trail[j]))
      /\ \A v \in Vars : model[v] # 0 => \E i \in 1 .. n : VarOf(trail[i]) = v
  BY DEF TrailBound
<1> HIDE DEF N
<1>2. /\ k \in 0 .. n
      /\ k = n => n = N
      /\ \A i \in 1 .. k : Level(VarOf(trail[i])) <= level
      /\ \A i \in k + 1 .. n : Level(VarOf(trail[i])) > level
  <2>1. CASE Above(level) = {}
    <3>1. k = N
      BY <2>1 DEF KeptLen, N
    <3>2. \A i \in 1 .. N : ~ (Level(VarOf(trail[i])) > level)
      BY <2>1 DEF Above, N
    <3>3. n = N
      BY <1>0, <1>1, <3>2
    <3> HIDE DEF k
    <3> QED BY <1>0, <3>1, <3>2, <3>3
  <2>2. CASE Above(level) # {}
    <3>1. Above(level) \subseteq Nat
      BY <1>0 DEF Above, N
    <3> DEFINE m == Min(Above(level))
    <3>2. m \in Above(level) /\ \A i \in Above(level) : m <= i
      BY <2>2, <3>1, MinOfNats
    <3>3. m \in 1 .. N /\ Level(VarOf(trail[m])) > level
      BY <3>2 DEF Above, N
    <3>4. k = m - 1
      BY <2>2 DEF KeptLen, N
    <3>5. \A i \in 1 .. N : Level(VarOf(trail[i])) > level => i \in Above(level)
      BY DEF Above, N
    <3> HIDE DEF m, k
    <3>6. m <= n
      <4>1. CASE n = N
        BY <1>0, <3>3, <4>1
      <4>2. CASE n < N
        BY <1>0, <1>1, <3>2, <3>5, <4>2
      <4> QED BY <1>0, <1>1, <4>1, <4>2
    <3>7. ASSUME NEW i \in 1 .. k PROVE Level(VarOf(trail[i])) <= level
      <4>1. i \in 1 .. N /\ i < m
        BY <1>0, <3>3, <3>4
      <4>2. i \notin Above(level)
        BY <4>1, <3>2, <3>3
      <4> QED BY <4>1, <4>2, <1>0, <3>5
    <3>8. ASSUME NEW i \in k + 1 .. n PROVE Level(VarOf(trail[i])) > level
      <4>1. i \in 1 .. n /\ m \in 1 .. n /\ m <= i /\ i \in 1 .. N
        BY <1>0, <1>1, <3>3, <3>4, <3>6
      <4>2. Level(VarOf(trail[m])) <= Level(VarOf(trail[i]))
        BY <4>1, <1>1
      <4> QED BY <4>1, <4>2, <1>0, <3>3
    <3> QED BY <1>0, <1>1, <3>3, <3>4, <3>6, <3>7, <3>8
  <2> QED BY <2>1, <2>2
<1> HIDE DEF k
<1>3. /\ CleanTrail(level) \in Seq(Lits) /\ Len(CleanTrail(level)) = k
      /\ \A i \in 1 .. k : CleanTrail(level)[i] = trail[i]
  <2>1. CleanTrail(level) = SubSeq(trail, 1, k)
    BY DEF CleanTrail, k
  <2>2. k \in Int /\ \A i \in 1 .. k : trail[i] \in Lits
    BY <1>0, <1>1, <1>2
  <2> QED BY <2>1, <2>2, <1>0, <1>1, <1>2, SubSeqProperties
<1>4. ASSUME NEW v \in Vars
      PROVE  /\ v \in Dropped(level) <=>
                Level(v) > level \/ \E i \in n + 1 .. N : VarOf(trail[i]) = v
  <2>1. v \in Dropped(level) <=> \E i \in k + 1 .. N : VarOf(trail[i]) = v
    BY DEF Dropped, k, N
  <2>2. ASSUME Level(v) > level PROVE \E i \in k + 1 .. N : VarOf(trail[i]) = v
    <3>1. model[v] # 0
      BY <1>0, <2>2
    <3>2. PICK i \in 1 .. n : VarOf(trail[i]) = v
      BY <1>1, <3>1
    <3>3. ~ (i \in 1 .. k)
      BY <3>2, <1>2, <2>2, <1>0
    <3> QED BY <3>2, <3>3, <1>0, <1>1, <1>2
  <2>3. ASSUME NEW i \in k + 1 .. N, VarOf(trail[i]) = v
        PROVE  Level(v) > level \/ \E j \in n + 1 .. N : VarOf(trail[j]) = v
    <3>1. i \in k + 1 .. n \/ i \in n + 1 .. N
      BY <1>0, <1>1, <1>2
    <3> QED BY <1>2, <2>3, <3>1
  <2>4. ASSUME NEW i \in n + 1 .. N, VarOf(trail[i]) = v
        PROVE  \E j \in k + 1 .. N : VarOf(trail[j]) = v
    <3>1. i \in k + 1 .. N
      BY <1>0, <1>1, <1>2
    <3> QED BY <2>4, <3>1
  <2> QED BY <2>1, <2>2, <2>3, <2>4
<1>5. \A v \in Vars : (\E i \in n + 1 .. N : VarOf(trail[i]) = v) => model[v] = 0
  BY <1>1
<1>6. Dropped(level) \subseteq Vars
  <2>1. Dropped(level) = {VarOf(trail[i]) : i \in k + 1 .. N}
    BY DEF Dropped, k, N
  <2>2. \A i \in k + 1 .. N : i \in 1 .. N
    BY <1>0, <1>1, <1>2
  <2> QED BY <1>0, <2>1, <2>2
<1>7. CleanModel(level) = [v \in Vars |-> IF Level(v) > level THEN 0 ELSE model[v]]
  <2>1. \A v \in Vars : (IF v \in Dropped(level) THEN 0 ELSE model[v])
                          = IF Level(v) > level THEN 0 ELSE model[v]
    BY <1>4, <1>5
  <2> QED BY <2>1 DEF CleanModel
<1>8. CleanPolarity(level) \in [Vars -> BOOLEAN]
  <2>1. \A v \in Vars : (SignedLit(v, FALSE) \in Range(trail)) \in BOOLEAN
    OBVIOUS
  <2>2. polarity \in [Vars -> BOOLEAN]
    BY DEF PBTypeOK
  <2>3. \A v \in Vars :
          (IF v \in Dropped(level) THEN SignedLit(v, FALSE) \in Range(trail) ELSE polarity[v])
            \in BOOLEAN
    BY <2>1, <2>2, Zenon
  <2> QED BY <2>3, Zenon DEF CleanPolarity
<1>9. model \in [Vars -> Int] /\ reason \in [Vars -> {Nil} \union ClauseIds]
  BY DEF PBTypeOK
<1>10. CleanModel(level) \in [Vars -> Int]
  BY <1>7, <1>9
<1>11. CleanReason(level) \in [Vars -> {Nil} \union ClauseIds]
  BY <1>9 DEF CleanReason
<1> QED BY <1>2, <1>3, <1>4, <1>6, <1>7, <1>8, <1>10, <1>11 DEF k, N

-----------------------------------------------------------------------------
(* How the bindings change, when all that was held still is.               *)

KeepsAll ==
    /\ Solutions' \subseteq Solutions
    /\ \A c \in ClauseIds :
        /\ c \in ClauseIds' /\ clauses'[c] = clauses[c]
        /\ \A T \in SUBSET Lits : Enough(T, c)' <=> Enough(T, c)

LEMMA ImpliedKept ==
    ASSUME KeepsAll, NEW c \in ClauseIds, NEW l, NEW F
    PROVE  ImpliedBy(c, l, F)' <=> ImpliedBy(c, l, F)
<1>1. Lits \ (F \union {l}) \in SUBSET Lits
  OBVIOUS
<1> DEFINE T == Lits \ (F \union {l})
<1>2. Enough(T, c)' <=> Enough(T, c)
  BY <1>1 DEF KeepsAll
<1>3. clauses'[c] = clauses[c]
  BY DEF KeepsAll
<1> QED BY <1>2, <1>3 DEF ImpliedBy

\* The bindings the invariant speaks of.
Bound(n) == PBTypeOK /\ TrailBound(n) /\ FactsFollow /\ ReasonsHold

LEMMA BoundKept ==
    ASSUME NEW n, Bound(n), KeepsAll, UNCHANGED <<model, trail, reason>>
    PROVE  /\ TrailBound(n)' /\ FactsFollow' /\ ReasonsHold'
           /\ \A v \in Vars : Level(v)' = Level(v)
           /\ \A l : LitStatus(l)' = LitStatus(l)
           /\ \A l : IsFalse(l)' <=> IsFalse(l)
<1>1. /\ \A v : Level(v)' = Level(v)
      /\ \A l : LitStatus(l)' = LitStatus(l)
  BY DEF Level, LitStatus
<1>2. TrailBound(n)'
  <2>1. TrailBound(n)
    BY DEF Bound
  <2> QED BY <1>1, <2>1 DEF TrailBound
<1>3. FactsFollow'
  BY <1>1 DEF FactsFollow, Follows, Bound, KeepsAll
<1>4. ReasonsHold'
  <2>1. ASSUME NEW i \in DOMAIN trail, reason[VarOf(trail[i])] # Nil
        PROVE  ImpliedBy(reason[VarOf(trail[i])], trail[i], FalseBefore(i))'
    <3>1. reason[VarOf(trail[i])] \in ClauseIds
      BY <2>1, TrailType DEF Bound, PBTypeOK
    <3>2. ImpliedBy(reason[VarOf(trail[i])], trail[i], FalseBefore(i))
      BY <2>1 DEF Bound, ReasonsHold
    <3>3. PICK r \in ClauseIds, k \in Lits : r = reason[VarOf(trail[i])] /\ k = trail[i]
      BY <3>1, TrailType DEF Bound
    <3>4. PICK F : F = FalseBefore(i)
      OBVIOUS
    <3>5. F = FalseBefore(i)'
      BY <3>4 DEF FalseBefore
    <3>6. ImpliedBy(r, k, F)'
      BY <3>2, <3>3, <3>4, ImpliedKept
    <3> QED BY <3>3, <3>5, <3>6
  <2> QED BY <2>1 DEF ReasonsHold
<1> QED BY <1>1, <1>2, <1>3, <1>4 DEF IsFalse

\* Undoes the levels above some level; the reasons of what stays are kept.
CutsBack(level) ==
    /\ trail' = CleanTrail(level) /\ model' = CleanModel(level)
    /\ \A v \in Vars : model[v] # 0 /\ Level(v) <= level => reason'[v] = reason[v]

LEMMA BoundCutBack ==
    ASSUME NEW n, Bound(n), KeepsAll, NEW level \in Nat \ {0}, CutsBack(level),
           n < Len(trail) => Level(VarOf(trail[n])) > level
    PROVE  /\ TrailBound(Len(trail))' /\ FactsFollow' /\ ReasonsHold'
           /\ \A v \in Vars :
                /\ model'[v] = IF Level(v) > level THEN 0 ELSE model[v]
                /\ Level(v)' = IF Level(v) > level THEN 0 ELSE Level(v)
                /\ Level(v)' <= level
           /\ \A l \in Lits : IsFalse(l)' <=> IsFalse(l) /\ Level(VarOf(l)) <= level
<1> DEFINE k == KeptLen(level)
           N == Len(trail)
<1>0. PBTypeOK /\ TrailBound(n)
  BY DEF Bound
<1>1. /\ N \in Nat /\ DOMAIN trail = 1 .. N
      /\ \A i \in 1 .. N : trail[i] \in Lits /\ VarOf(trail[i]) \in Vars
      /\ \A v \in Vars : Level(v) \in Nat /\ (Level(v) = 0 <=> model[v] = 0)
  BY <1>0, TrailType
<1>2. /\ n \in 0 .. N
      /\ \A i \in 1 .. n : LitStatus(trail[i]) = "Sat"
      /\ \A v \in Vars : model[v] # 0 => \E i \in 1 .. n : VarOf(trail[i]) = v
      /\ \A i, j \in 1 .. n : i <= j => Level(VarOf(trail[i])) <= Level(VarOf(trail[j]))
      /\ \A i, j \in 1 .. n :
            VarOf(trail[i]) = VarOf(trail[j]) /\ i # j => Level(VarOf(trail[i])) = 1
      /\ \A i, j \in 1 .. n :
            Level(VarOf(trail[i])) > 1 /\ reason[VarOf(trail[i])] = Nil /\ j < i =>
                Level(VarOf(trail[j])) < Level(VarOf(trail[i]))
  BY <1>0 DEF TrailBound
<1>3. /\ k \in 0 .. n
      /\ \A i \in 1 .. k : Level(VarOf(trail[i])) <= level
      /\ \A i \in k + 1 .. n : Level(VarOf(trail[i])) > level
      /\ trail' \in Seq(Lits) /\ Len(trail') = k
      /\ \A i \in 1 .. k : trail'[i] = trail[i]
      /\ model' = [v \in Vars |-> IF Level(v) > level THEN 0 ELSE model[v]]
  BY <1>0, CutBackFacts DEF CutsBack
<1> HIDE DEF k, N
<1>4. DOMAIN trail' = 1 .. k /\ k \in Nat
  BY <1>1, <1>2, <1>3
<1>5. \A v \in Vars : model'[v] = IF Level(v) > level THEN 0 ELSE model[v]
  BY <1>3
<1>6. \A v \in Vars : Level(v)' = IF Level(v) > level THEN 0 ELSE Level(v)
  BY <1>5 DEF Level, Abs
<1>7. \A i \in 1 .. k :
        /\ i \in 1 .. n /\ i \in 1 .. N
        /\ trail[i] \in Lits /\ VarOf(trail[i]) \in Vars /\ trail'[i] = trail[i]
        /\ LitStatus(trail[i]) = "Sat" /\ model[VarOf(trail[i])] # 0
        /\ Level(VarOf(trail[i])) <= level /\ Level(VarOf(trail[i]))' = Level(VarOf(trail[i]))
        /\ model'[VarOf(trail[i])] = model[VarOf(trail[i])]
        /\ reason'[VarOf(trail[i])] = reason[VarOf(trail[i])]
  <2> SUFFICES ASSUME NEW i \in 1 .. k
      PROVE
        /\ i \in 1 .. n /\ i \in 1 .. N
        /\ trail[i] \in Lits /\ VarOf(trail[i]) \in Vars /\ trail'[i] = trail[i]
        /\ LitStatus(trail[i]) = "Sat" /\ model[VarOf(trail[i])] # 0
        /\ Level(VarOf(trail[i])) <= level /\ Level(VarOf(trail[i]))' = Level(VarOf(trail[i]))
        /\ model'[VarOf(trail[i])] = model[VarOf(trail[i])]
        /\ reason'[VarOf(trail[i])] = reason[VarOf(trail[i])]
    OBVIOUS
  <2>1. i \in 1 .. n /\ i \in 1 .. N
    BY <1>1, <1>2, <1>3
  <2>2. trail[i] \in Lits /\ VarOf(trail[i]) \in Vars /\ trail'[i] = trail[i]
    BY <1>1, <1>3, <2>1
  <2>3. LitStatus(trail[i]) = "Sat" /\ model[VarOf(trail[i])] # 0
    BY <1>0, <1>2, <2>1, <2>2, BoundFacts
  <2>4. Level(VarOf(trail[i])) <= level
    BY <1>3
  <2>5. ~ (Level(VarOf(trail[i])) > level)
    BY <1>1, <2>2, <2>4
  <2>6. Level(VarOf(trail[i]))' = Level(VarOf(trail[i])) /\ model'[VarOf(trail[i])] = model[VarOf(trail[i])]
    BY <1>5, <1>6, <2>2, <2>5
  <2>7. reason'[VarOf(trail[i])] = reason[VarOf(trail[i])]
    BY <2>2, <2>3, <2>4 DEF CutsBack
  <2> QED BY <2>1, <2>2, <2>3, <2>4, <2>6, <2>7
<1>8. TrailBound(Len(trail))'
  <2>1. \A i \in 1 .. k : LitStatus(trail[i])' = "Sat"
    BY <1>7 DEF LitStatus
  <2>2. ASSUME NEW v \in Vars, model'[v] # 0 PROVE \E i \in 1 .. k : VarOf(trail'[i]) = v
    <3>1. model[v] # 0 /\ ~ (Level(v) > level)
      BY <1>5, <2>2
    <3>2. PICK i \in 1 .. n : VarOf(trail[i]) = v
      BY <1>2, <3>1
    <3>3. i \in 1 .. k
      BY <1>2, <1>3, <3>1, <3>2, <1>4
    <3> QED BY <1>3, <3>2, <3>3
  <2>3. \A i, j \in 1 .. k : i <= j => Level(VarOf(trail[i]))' <= Level(VarOf(trail[j]))'
    BY <1>2, <1>7
  <2>4. \A i, j \in 1 .. k :
            VarOf(trail'[i]) = VarOf(trail'[j]) /\ i # j => Level(VarOf(trail[i]))' = 1
    BY <1>2, <1>7
  <2>5. \A i, j \in 1 .. k :
            Level(VarOf(trail[i]))' > 1 /\ reason'[VarOf(trail'[i])] = Nil /\ j < i =>
                Level(VarOf(trail[j]))' < Level(VarOf(trail[i]))'
    BY <1>2, <1>7
  <2>6. k \in 0 .. k /\ ~ (k < k) /\ (\A i \in k + 1 .. k : FALSE)
    BY <1>4
  <2> QED BY <1>3, <2>1, <2>2, <2>3, <2>4, <2>5, <2>6 DEF TrailBound
<1>9. FactsFollow'
  <2> SUFFICES ASSUME NEW i \in 1 .. k, Level(VarOf(trail[i]))' = 1
               PROVE  Follows(trail[i])'
    BY <1>4 DEF FactsFollow
  <2>1. Follows(trail[i])
    BY <1>1, <1>7 DEF Bound, FactsFollow
  <2> QED BY <1>7, <2>1 DEF Follows, KeepsAll
<1>10. ReasonsHold'
  <2>1. ASSUME NEW i \in 1 .. k, reason'[VarOf(trail'[i])] # Nil
        PROVE  ImpliedBy(reason[VarOf(trail[i])], trail[i], FalseBefore(i))'
    <3>1. trail'[i] = trail[i] /\ reason'[VarOf(trail'[i])] = reason[VarOf(trail[i])]
      BY <1>7
    <3>2. reason[VarOf(trail[i])] \in ClauseIds
      BY <1>0, <1>7, <2>1, <3>1 DEF PBTypeOK
    <3>3. ImpliedBy(reason[VarOf(trail[i])], trail[i], FalseBefore(i))
      BY <1>1, <1>7, <2>1, <3>1 DEF Bound, ReasonsHold
    <3>4. PICK r \in ClauseIds, l \in Lits : r = reason[VarOf(trail[i])] /\ l = trail[i]
      BY <1>7, <3>2
    <3>5. PICK F : F = FalseBefore(i)
      OBVIOUS
    <3>6. F = FalseBefore(i)'
      <4>1. \A j \in 1 .. i - 1 : j \in 1 .. k
        BY <1>4
      <4>2. \A j \in 1 .. i - 1 : trail'[j] = trail[j]
        BY <1>3, <4>1
      <4> QED BY <3>5, <4>2 DEF FalseBefore
    <3>7. ImpliedBy(r, l, F)'
      BY <3>3, <3>4, <3>5, ImpliedKept
    <3> QED BY <3>1, <3>4, <3>6, <3>7
  <2> QED BY <1>4, <2>1 DEF ReasonsHold
<1>11. ASSUME NEW l \in Lits PROVE IsFalse(l)' <=> IsFalse(l) /\ Level(VarOf(l)) <= level
  <2>1. VarOf(l) \in Vars
    BY LitFacts
  <2>2. model'[VarOf(l)] = IF Level(VarOf(l)) > level THEN 0 ELSE model[VarOf(l)]
    BY <1>5, <2>1
  <2>3. Level(VarOf(l)) \in Nat /\ (Level(VarOf(l)) = 0 <=> model[VarOf(l)] = 0)
    BY <1>1, <2>1
  <2> QED BY <2>2, <2>3 DEF IsFalse, LitStatus
<1>12. \A v \in Vars : Level(v)' <= level
  BY <1>1, <1>6
<1> QED BY <1>5, <1>6, <1>8, <1>9, <1>10, <1>11, <1>12

\* No solution has a literal that is false at level 1.
LEMMA FalseAtLevelOne ==
    ASSUME PBTypeOK, FactsFollow, NEW n, TrailBound(n), NEW l \in Lits, IsFalse(l),
           Level(VarOf(l)) <= 1, NEW a \in Solutions
    PROVE  ~ Holds(a, l)
<1>1. Negation(l) \in UpTo(n) /\ model[VarOf(l)] # 0
  BY BoundFacts
<1>2. PICK i \in 1 .. n : trail[i] = Negation(l)
  BY <1>1 DEF UpTo
<1>3. i \in DOMAIN trail
  BY TrailType DEF TrailBound
<1>4. VarOf(trail[i]) = VarOf(l) /\ VarOf(l) \in Vars
  BY <1>2, LitFacts
<1>5. Level(VarOf(trail[i])) = 1
  BY <1>1, <1>4, TrailType
<1>6. Holds(a, Negation(l))
  BY <1>2, <1>3, <1>5 DEF FactsFollow, Follows
<1>7. a \in Assignments
  BY DEF Solutions
<1> QED BY <1>6, <1>7, HoldsNegation

\* When all that is bound follows, so does what it implies.
LEMMA ImpliedFollows ==
    ASSUME PBTypeOK, DatabaseOK, FactsFollow, NEW n, TrailBound(n),
           \A v \in Vars : Level(v) <= 1,
           NEW c \in ClauseIds, NEW l \in Lits, ImpliedBy(c, l, {k \in Lits : IsFalse(k)})
    PROVE  Follows(l)
<1> SUFFICES ASSUME NEW a \in Solutions, ~ Holds(a, l) PROVE FALSE
  BY DEF Follows
<1>1. ConstraintOK(c) /\ a \in Assignments /\ Enough(Made(a), c)
  BY ConstraintsOK
<1>2. PICK k \in clauses[c] : k \in {q \in Lits : IsFalse(q)} /\ k \in Lits /\ Holds(a, k)
  BY <1>1, Explained
<1>3. IsFalse(k) /\ Level(VarOf(k)) <= 1
  BY <1>2, LitFacts
<1> QED BY <1>2, <1>3, FalseAtLevelOne

\* Nor is there a conflict then.
LEMMA NoConflictAtLevelOne ==
    ASSUME PBTypeOK, DatabaseOK, FactsFollow, NEW n, TrailBound(n),
           \A v \in Vars : Level(v) <= 1,
           NEW c \in ClauseIds, ~ Enough({k \in Lits : ~ IsFalse(k)}, c)
    PROVE  Solutions = {}
<1> SUFFICES ASSUME NEW a \in Solutions PROVE FALSE
  OBVIOUS
<1>1. ConstraintOK(c) /\ a \in Assignments /\ Enough(Made(a), c)
  BY ConstraintsOK
<1>2. PICK k \in clauses[c] : k \notin {q \in Lits : ~ IsFalse(q)} /\ k \in Lits /\ Holds(a, k)
  BY <1>1, NotEnough
<1>3. IsFalse(k) /\ Level(VarOf(k)) <= 1
  BY <1>2, LitFacts
<1> QED BY <1>2, <1>3, FalseAtLevelOne

\* Binds the literals s at the current level, because of r or as a decision.
BindsAll(s, r) ==
    /\ trail' = trail \o s
    /\ \A j \in DOMAIN s :
        model'[VarOf(s[j])] = LvlToSignedLvl(s[j], lvl) /\ reason'[VarOf(s[j])] = r
    /\ \A v \in Vars : (\A j \in DOMAIN s : VarOf(s[j]) # v) =>
        model'[v] = model[v] /\ reason'[v] = reason[v]

MayBind(s, r) ==
    /\ s \in Seq(Lits) /\ \A j \in DOMAIN s : model[VarOf(s[j])] = 0
    /\ \A i, j \in DOMAIN s : VarOf(s[i]) = VarOf(s[j]) => i = j
    /\ lvl >= 1 /\ \A v \in Vars : Level(v) <= lvl
    /\ IF r # Nil
       THEN r \in ClauseIds /\ \A j \in DOMAIN s : ImpliedBy(r, s[j], {l \in Lits : IsFalse(l)})
       ELSE Len(s) = 1 /\ (lvl > 1 => \A v \in Vars : Level(v) < lvl) /\ (lvl = 1 => Follows(s[1]))

LEMMA BoundExtended ==
    ASSUME NEW n, n = Len(trail), Bound(n), DatabaseOK, KeepsAll,
           NEW s, NEW r, MayBind(s, r), BindsAll(s, r)
    PROVE  /\ TrailBound(Len(trail))' /\ FactsFollow' /\ ReasonsHold'
           /\ trail' \in Seq(Lits)
           /\ n \in Nat /\ DOMAIN trail' = 1 .. n + Len(s) /\ Len(s) \in Nat
           /\ \A i \in 1 .. n : trail'[i] = trail[i] /\ Level(VarOf(trail[i]))' = Level(VarOf(trail[i]))
           /\ \A i \in n + 1 .. n + Len(s) : Level(VarOf(trail[i]))' = lvl
           /\ \A v \in Vars : Level(v) <= Level(v)' /\ Level(v)' <= lvl
           /\ \A v \in Vars : model[v] # 0 => model'[v] = model[v]
           /\ \A l \in Lits : IsFalse(l) => IsFalse(l)' /\ Level(VarOf(l))' = Level(VarOf(l))
<1> DEFINE m == Len(s)
           isNew(v) == \E j \in DOMAIN s : VarOf(s[j]) = v
<1>0. PBTypeOK /\ TrailBound(n) /\ s \in Seq(Lits) /\ lvl \in Nat \ {0} /\ model \in [Vars -> Int]
  <2>1. PBTypeOK /\ TrailBound(n)
    BY DEF Bound
  <2>2. s \in Seq(Lits) /\ lvl \in Nat \ {0}
    <3>1. s \in Seq(Lits) /\ lvl >= 1
      BY DEF MayBind
    <3>2. lvl \in Nat
      BY <2>1 DEF PBTypeOK
    <3> QED BY <3>1, <3>2
  <2>3. model \in [Vars -> Int]
    BY <2>1 DEF PBTypeOK
  <2> QED BY <2>1, <2>2, <2>3
<1>1. /\ n \in Nat /\ DOMAIN trail = 1 .. n /\ m \in Nat /\ DOMAIN s = 1 .. m
      /\ \A i \in 1 .. n : trail[i] \in Lits /\ VarOf(trail[i]) \in Vars
      /\ \A j \in 1 .. m : s[j] \in Lits /\ VarOf(s[j]) \in Vars
      /\ \A v \in Vars : Level(v) \in Nat /\ (Level(v) = 0 <=> model[v] = 0)
  BY <1>0, TrailType, LitFacts
<1>2. /\ \A i \in 1 .. n : LitStatus(trail[i]) = "Sat"
      /\ \A v \in Vars : model[v] # 0 => \E i \in 1 .. n : VarOf(trail[i]) = v
      /\ \A i, j \in 1 .. n : i <= j => Level(VarOf(trail[i])) <= Level(VarOf(trail[j]))
      /\ \A i, j \in 1 .. n :
            VarOf(trail[i]) = VarOf(trail[j]) /\ i # j => Level(VarOf(trail[i])) = 1
      /\ \A i, j \in 1 .. n :
            Level(VarOf(trail[i])) > 1 /\ reason[VarOf(trail[i])] = Nil /\ j < i =>
                Level(VarOf(trail[j])) < Level(VarOf(trail[i]))
  BY <1>0 DEF TrailBound
<1>3. /\ trail' \in Seq(Lits) /\ Len(trail') = n + m /\ DOMAIN trail' = 1 .. n + m
      /\ \A i \in 1 .. n : trail'[i] = trail[i]
      /\ \A i \in n + 1 .. n + m : trail'[i] = s[i - n]
  <2>1. trail \in Seq(Lits) /\ s \in Seq(Lits) /\ trail' = trail \o s
    BY <1>0 DEF BindsAll, PBTypeOK
  <2> QED BY <2>1, ConcatProperties, <1>1
<1>4. \A i \in n + 1 .. n + m : i - n \in 1 .. m
  BY <1>1
<1>5. \A i \in 1 .. n + m : i \in 1 .. n \/ i \in n + 1 .. n + m
  BY <1>1
<1>6. \A j \in 1 .. m : j + n \in n + 1 .. n + m /\ trail'[j + n] = s[j]
  <2> SUFFICES ASSUME NEW j \in 1 .. m PROVE j + n \in n + 1 .. n + m /\ trail'[j + n] = s[j]
    OBVIOUS
  <2>1. j + n \in n + 1 .. n + m /\ (j + n) - n = j
    BY <1>1
  <2> QED BY <2>1, <1>3
<1>7. \A j \in 1 .. m : model[VarOf(s[j])] = 0
  BY <1>1 DEF MayBind
<1>8. \A i \in 1 .. n : model[VarOf(trail[i])] # 0 /\ ~ isNew(VarOf(trail[i]))
  <2> SUFFICES ASSUME NEW i \in 1 .. n
               PROVE  model[VarOf(trail[i])] # 0 /\ ~ isNew(VarOf(trail[i]))
    OBVIOUS
  <2>1. model[VarOf(trail[i])] # 0
    BY <1>0, <1>1, <1>2, BoundFacts
  <2> QED BY <1>1, <1>7, <2>1
<1>9. \A v \in Vars : ~ isNew(v) => model'[v] = model[v] /\ reason'[v] = reason[v]
  BY DEF BindsAll
<1>10. \A j \in 1 .. m : /\ model'[VarOf(s[j])] = LvlToSignedLvl(s[j], lvl)
                         /\ reason'[VarOf(s[j])] = r
  BY <1>1 DEF BindsAll
<1>11. \A v \in Vars : Level(v)' = IF isNew(v) THEN lvl ELSE Level(v)
  <2> SUFFICES ASSUME NEW v \in Vars PROVE Level(v)' = IF isNew(v) THEN lvl ELSE Level(v)
    OBVIOUS
  <2>1. CASE isNew(v)
    <3>1. PICK j \in 1 .. m : VarOf(s[j]) = v
      BY <1>1, <2>1
    <3>2. model'[v] = lvl \/ model'[v] = -lvl
      BY <1>10, <3>1 DEF LvlToSignedLvl
    <3> QED BY <1>0, <2>1, <3>2 DEF Level, Abs
  <2>2. CASE ~ isNew(v)
    BY <1>9, <2>2 DEF Level
  <2> QED BY <2>1, <2>2
<1>12. \A j \in 1 .. m : LitStatus(s[j])' = "Sat"
  <2> SUFFICES ASSUME NEW j \in 1 .. m PROVE LitStatus(s[j])' = "Sat"
    OBVIOUS
  <2>1. s[j] \in Lits /\ IsPositive(s[j]) \in BOOLEAN
    BY <1>1, LitFacts
  <2>2. model'[VarOf(s[j])] = IF IsPositive(s[j]) THEN lvl ELSE -lvl
    BY <1>10 DEF LvlToSignedLvl
  <2> QED BY <1>0, <2>1, <2>2 DEF LitStatus
<1>13. \A v \in Vars : model[v] # 0 => ~ isNew(v)
  BY <1>1, <1>7
<1> HIDE DEF m
<1>14. \A i \in 1 .. n : Level(VarOf(trail[i]))' = Level(VarOf(trail[i]))
  BY <1>1, <1>3, <1>8, <1>11
<1>30. \A i \in n + 1 .. n + m : isNew(VarOf(trail'[i])) /\ VarOf(trail'[i]) \in Vars
  <2> SUFFICES ASSUME NEW i \in n + 1 .. n + m
               PROVE  isNew(VarOf(trail'[i])) /\ VarOf(trail'[i]) \in Vars
    OBVIOUS
  <2>1. trail'[i] = s[i - n] /\ i - n \in 1 .. m
    BY <1>3, <1>4
  <2> QED BY <1>1, <2>1
<1>15. \A i \in n + 1 .. n + m : Level(VarOf(trail[i]))' = lvl
  <2> HIDE DEF isNew
  <2> QED BY <1>11, <1>30
<1>16. \A i \in 1 .. n : reason'[VarOf(trail'[i])] = reason[VarOf(trail[i])]
  BY <1>1, <1>3, <1>8, <1>9
<1>17. \A i \in n + 1 .. n + m : reason'[VarOf(trail'[i])] = r
  BY <1>1, <1>3, <1>4, <1>10
<1>18. \A v \in Vars : Level(v) <= lvl
  BY DEF MayBind
<1>19. \A i \in n + 1 .. n + m, j \in 1 .. n + m :
          VarOf(trail'[i]) = VarOf(trail'[j]) => i = j
  <2> SUFFICES ASSUME NEW i \in n + 1 .. n + m, NEW j \in 1 .. n + m,
                      VarOf(trail'[i]) = VarOf(trail'[j])
               PROVE  i = j
    OBVIOUS
  <2>1. CASE j \in 1 .. n
    <3>1. trail'[j] = trail[j] /\ ~ isNew(VarOf(trail[j]))
      BY <1>3, <1>8, <2>1
    <3> HIDE DEF isNew
    <3> QED BY <1>30, <3>1
  <2>2. CASE j \in n + 1 .. n + m
    <3>1. \A p, q \in 1 .. m : VarOf(s[p]) = VarOf(s[q]) => p = q
      BY <1>1 DEF MayBind
    <3>2. i - n = j - n
      BY <1>3, <1>4, <2>2, <3>1
    <3> QED BY <1>1, <2>2, <3>2
  <2> QED BY <1>5, <2>1, <2>2
<1> HIDE DEF isNew
<1>20. TrailBound(Len(trail))'
  <2>1. \A i \in 1 .. n + m : LitStatus(trail[i])' = "Sat"
    <3>1. ASSUME NEW i \in 1 .. n PROVE LitStatus(trail[i])' = "Sat"
      <4>1. trail'[i] = trail[i] /\ LitStatus(trail[i]) = "Sat"
        BY <1>2, <1>3
      <4>2. model'[VarOf(trail[i])] = model[VarOf(trail[i])]
        BY <1>1, <1>8, <1>9, <1>13
      <4> QED BY <4>1, <4>2 DEF LitStatus
    <3>2. ASSUME NEW i \in n + 1 .. n + m PROVE LitStatus(trail[i])' = "Sat"
      BY <1>3, <1>4, <1>12 DEF LitStatus
    <3> QED BY <1>5, <3>1, <3>2
  <2>2. ASSUME NEW v \in Vars, model'[v] # 0 PROVE \E i \in 1 .. n + m : VarOf(trail'[i]) = v
    <3>1. CASE isNew(v)
      <4>1. PICK j \in 1 .. m : VarOf(s[j]) = v
        BY <1>1, <3>1 DEF isNew
      <4>2. j + n \in 1 .. n + m
        BY <1>1
      <4> QED BY <1>6, <4>1, <4>2
    <3>2. CASE ~ isNew(v)
      <4>1. PICK i \in 1 .. n : VarOf(trail[i]) = v
        BY <1>2, <1>9, <2>2, <3>2
      <4>2. i \in 1 .. n + m
        BY <1>1
      <4> QED BY <1>3, <4>1, <4>2
    <3> QED BY <3>1, <3>2
  <2>3. \A i, j \in 1 .. n + m : i <= j => Level(VarOf(trail[i]))' <= Level(VarOf(trail[j]))'
    <3> SUFFICES ASSUME NEW i \in 1 .. n + m, NEW j \in 1 .. n + m, i <= j
                 PROVE  Level(VarOf(trail[i]))' <= Level(VarOf(trail[j]))'
      OBVIOUS
    <3>1. CASE j \in 1 .. n
      <4>1. i \in 1 .. n
        BY <1>1, <3>1
      <4> QED BY <1>2, <1>14, <3>1, <4>1
    <3>2. CASE j \in n + 1 .. n + m
      <4>1. CASE i \in 1 .. n
        BY <1>1, <1>14, <1>15, <1>18, <3>2, <4>1
      <4>2. CASE i \in n + 1 .. n + m
        BY <1>0, <1>15, <3>2, <4>2
      <4> QED BY <1>5, <4>1, <4>2
    <3> QED BY <1>5, <3>1, <3>2
  <2>4. \A i, j \in 1 .. n + m :
            VarOf(trail'[i]) = VarOf(trail'[j]) /\ i # j => Level(VarOf(trail[i]))' = 1
    <3> SUFFICES ASSUME NEW i \in 1 .. n + m, NEW j \in 1 .. n + m,
                        VarOf(trail'[i]) = VarOf(trail'[j]), i # j
                 PROVE  Level(VarOf(trail[i]))' = 1
      OBVIOUS
    <3>1. i \in 1 .. n /\ j \in 1 .. n
      BY <1>5, <1>19
    <3> QED BY <1>2, <1>3, <1>14, <3>1
  <2>5. \A i, j \in 1 .. n + m :
            Level(VarOf(trail[i]))' > 1 /\ reason'[VarOf(trail'[i])] = Nil /\ j < i =>
                Level(VarOf(trail[j]))' < Level(VarOf(trail[i]))'
    <3> SUFFICES ASSUME NEW i \in 1 .. n + m, NEW j \in 1 .. n + m,
                        Level(VarOf(trail[i]))' > 1, reason'[VarOf(trail'[i])] = Nil, j < i
                 PROVE  Level(VarOf(trail[j]))' < Level(VarOf(trail[i]))'
      OBVIOUS
    <3>1. CASE i \in 1 .. n
      <4>1. j \in 1 .. n
        BY <1>1, <3>1
      <4> QED BY <1>2, <1>14, <1>16, <3>1, <4>1
    <3>2. CASE i \in n + 1 .. n + m
      <4>1. r = Nil /\ lvl > 1
        BY <1>15, <1>17, <3>2
      <4>2. m = 1 /\ \A v \in Vars : Level(v) < lvl
        BY <4>1 DEF MayBind, m
      <4>3. j \in 1 .. n
        BY <1>1, <3>2, <4>2
      <4> QED BY <1>1, <1>14, <1>15, <3>2, <4>2, <4>3
    <3> QED BY <1>5, <3>1, <3>2
  <2>6. n + m \in 0 .. n + m /\ ~ (n + m < n + m) /\ (\A i \in (n + m) + 1 .. n + m : FALSE)
    BY <1>1
  <2> QED BY <1>3, <2>1, <2>2, <2>3, <2>4, <2>5, <2>6 DEF TrailBound
<1>21. FactsFollow'
  <2>1. ASSUME NEW i \in 1 .. n + m, Level(VarOf(trail[i]))' = 1 PROVE Follows(trail[i])'
    <3>1. CASE i \in 1 .. n
      <4>1. Follows(trail[i])
        BY <1>1, <1>14, <2>1, <3>1 DEF Bound, FactsFollow
      <4> QED BY <1>3, <3>1, <4>1 DEF Follows, KeepsAll
    <3>2. CASE i \in n + 1 .. n + m
      <4>1. lvl = 1
        BY <1>15, <2>1, <3>2
      <4>2. trail'[i] = s[i - n] /\ i - n \in 1 .. m
        BY <1>3, <1>4, <3>2
      <4>3. CASE r = Nil
        <5>1. m = 1 /\ Follows(s[1])
          BY <4>1, <4>3 DEF MayBind, m
        <5>2. i - n = 1
          BY <4>2, <5>1
        <5> QED BY <4>2, <5>1, <5>2 DEF Follows, KeepsAll
      <4>4. CASE r # Nil
        <5>1. r \in ClauseIds /\ ImpliedBy(r, s[i - n], {l \in Lits : IsFalse(l)})
          BY <1>1, <4>2, <4>4 DEF MayBind
        <5>2. PICK l \in Lits : l = s[i - n]
          BY <1>1, <4>2
        <5>3. Follows(l)
          BY <1>0, <1>18, <4>1, <5>1, <5>2, ImpliedFollows DEF Bound
        <5> QED BY <4>2, <5>2, <5>3 DEF Follows, KeepsAll
      <4> QED BY <4>3, <4>4
    <3> QED BY <1>5, <3>1, <3>2
  <2> QED BY <1>3, <2>1 DEF FactsFollow
<1>22. ReasonsHold'
  <2>1. ASSUME NEW i \in 1 .. n + m, reason'[VarOf(trail'[i])] # Nil
        PROVE  ImpliedBy(reason[VarOf(trail[i])], trail[i], FalseBefore(i))'
    <3>1. CASE i \in 1 .. n
      <4>1. trail'[i] = trail[i] /\ reason'[VarOf(trail'[i])] = reason[VarOf(trail[i])]
        BY <1>3, <1>16, <3>1
      <4>2. reason[VarOf(trail[i])] \in ClauseIds
        BY <1>0, <1>1, <2>1, <3>1, <4>1 DEF PBTypeOK
      <4>3. ImpliedBy(reason[VarOf(trail[i])], trail[i], FalseBefore(i))
        BY <1>1, <2>1, <3>1, <4>1 DEF Bound, ReasonsHold
      <4>4. PICK q \in ClauseIds, l \in Lits : q = reason[VarOf(trail[i])] /\ l = trail[i]
        BY <1>1, <3>1, <4>2
      <4>5. PICK F : F = FalseBefore(i)
        OBVIOUS
      <4>6. F = FalseBefore(i)'
        <5>1. \A j \in 1 .. i - 1 : trail'[j] = trail[j]
          BY <1>1, <1>3, <3>1
        <5> QED BY <4>5, <5>1 DEF FalseBefore
      <4>7. ImpliedBy(q, l, F)'
        BY <4>3, <4>4, <4>5, ImpliedKept
      <4> QED BY <4>1, <4>4, <4>6, <4>7
    <3>2. CASE i \in n + 1 .. n + m
      <4>1. trail'[i] = s[i - n] /\ i - n \in 1 .. m /\ reason'[VarOf(trail'[i])] = r
        BY <1>3, <1>4, <1>17, <3>2
      <4>2. r \in ClauseIds /\ ImpliedBy(r, s[i - n], {l \in Lits : IsFalse(l)})
        BY <1>1, <2>1, <4>1 DEF MayBind
      <4>3. PICK q \in ClauseIds, l \in Lits : q = r /\ l = s[i - n]
        BY <1>1, <4>1, <4>2
      <4>4. {k \in Lits : IsFalse(k)} = FalseBefore(n + 1)
        BY <1>0, FalseNow
      <4>5. PICK F, G : F = FalseBefore(n + 1) /\ G = FalseBefore(i)'
        OBVIOUS
      <4>6. F \subseteq G
        <5>1. \A j \in 1 .. (n + 1) - 1 : j \in 1 .. n /\ j \in 1 .. i - 1
          BY <1>1, <3>2
        <5>2. \A j \in 1 .. (n + 1) - 1 : trail'[j] = trail[j] /\ j \in 1 .. i - 1
          BY <1>3, <5>1
        <5> QED BY <4>5, <5>2 DEF FalseBefore
      <4>7. ImpliedBy(q, l, F)
        BY <4>2, <4>3, <4>4, <4>5
      <4>8. ImpliedBy(q, l, G)
        BY <1>0, <4>6, <4>7, ImpliedGrows, ConstraintsOK
      <4>9. ImpliedBy(q, l, G)'
        BY <4>8, ImpliedKept
      <4> QED BY <4>1, <4>3, <4>5, <4>9
    <3> QED BY <1>5, <3>1, <3>2
  <2> QED BY <1>3, <2>1 DEF ReasonsHold
<1>23. \A v \in Vars : Level(v) <= Level(v)' /\ Level(v)' <= lvl
  BY <1>0, <1>1, <1>11, <1>18
<1>24. \A v \in Vars : model[v] # 0 => model'[v] = model[v]
  BY <1>9, <1>13
<1>25. ASSUME NEW l \in Lits, IsFalse(l)
       PROVE  IsFalse(l)' /\ Level(VarOf(l))' = Level(VarOf(l))
  <2>1. VarOf(l) \in Vars /\ model[VarOf(l)] # 0
    BY <1>0, <1>25, StatusFacts, LitFacts
  <2>2. model'[VarOf(l)] = model[VarOf(l)]
    BY <1>24, <2>1
  <2> QED BY <1>25, <2>2 DEF IsFalse, LitStatus, Level
<1> QED BY <1>1, <1>3, <1>14, <1>15, <1>20, <1>21, <1>22, <1>23, <1>24, <1>25 DEF m

\* A unit that is bound already is bound to the same value, and changes nothing.
LEMMA BoundAgain ==
    ASSUME NEW n, n = Len(trail), Bound(n), DatabaseOK, KeepsAll, Solutions # {},
           NEW l \in Lits, model[VarOf(l)] # 0, Follows(l),
           lvl = 1, \A v \in Vars : Level(v) <= 1,
           trail' = Append(trail, l), reason' = reason,
           model' = [model EXCEPT ![VarOf(l)] = LvlToSignedLvl(l, lvl)]
    PROVE  /\ model' = model
           /\ TrailBound(Len(trail))' /\ FactsFollow' /\ ReasonsHold'
           /\ trail' \in Seq(Lits)
           /\ n \in Nat /\ DOMAIN trail' = 1 .. n + 1
           /\ \A i \in 1 .. n + 1 : Level(VarOf(trail[i]))' = 1
<1>0. PBTypeOK /\ TrailBound(n) /\ model \in [Vars -> Int] /\ trail \in Seq(Lits)
  BY DEF Bound, PBTypeOK
<1>1. /\ n \in Nat /\ DOMAIN trail = 1 .. n /\ VarOf(l) \in Vars
      /\ \A i \in 1 .. n : trail[i] \in Lits /\ VarOf(trail[i]) \in Vars
      /\ \A v \in Vars : Level(v) \in Nat /\ (Level(v) = 0 <=> model[v] = 0)
  BY <1>0, TrailType, LitFacts
<1>2. LitStatus(l) = "Sat"
  <2>1. PICK a \in Solutions : TRUE
    OBVIOUS
  <2>2. Holds(a, l)
    BY <2>1 DEF Follows
  <2>3. ~ IsFalse(l)
    BY <1>0, <1>1, <2>2, FalseAtLevelOne DEF Bound
  <2> QED BY <1>0, <2>3, BoundFacts
<1>3. model' = model
  <2>1. model[VarOf(l)] > 0 <=> IsPositive(l)
    BY <1>0, <1>2, StatusFacts
  <2>2. Level(VarOf(l)) = 1
    BY <1>1
  <2>3. model[VarOf(l)] = LvlToSignedLvl(l, lvl)
    BY <1>0, <1>1, <2>1, <2>2 DEF LvlToSignedLvl, Level, Abs
  <2> QED BY <1>0, <1>1, <2>3
<1>4. /\ trail' \in Seq(Lits) /\ Len(trail') = n + 1 /\ DOMAIN trail' = 1 .. n + 1
      /\ \A i \in 1 .. n : trail'[i] = trail[i]
      /\ trail'[n + 1] = l
  BY <1>0, <1>1, AppendProperties
<1>5. \A i \in 1 .. n + 1 : i \in 1 .. n \/ i = n + 1
  BY <1>1
<1>6. /\ \A i \in 1 .. n : LitStatus(trail[i]) = "Sat"
      /\ \A v \in Vars : model[v] # 0 => \E i \in 1 .. n : VarOf(trail[i]) = v
  BY <1>0 DEF TrailBound
<1>7. \A i \in 1 .. n + 1 : /\ trail'[i] \in Lits /\ LitStatus(trail[i])' = "Sat"
                            /\ Level(VarOf(trail[i]))' = 1
  <2> SUFFICES ASSUME NEW i \in 1 .. n + 1
               PROVE  /\ trail'[i] \in Lits /\ LitStatus(trail[i])' = "Sat"
                      /\ Level(VarOf(trail[i]))' = 1
    OBVIOUS
  <2>1. \E k \in Lits : trail'[i] = k /\ LitStatus(k) = "Sat"
    BY <1>1, <1>2, <1>4, <1>5, <1>6
  <2>2. PICK k \in Lits : trail'[i] = k /\ LitStatus(k) = "Sat"
    BY <2>1
  <2>3. VarOf(k) \in Vars /\ model[VarOf(k)] # 0
    BY <1>0, <2>2, StatusFacts, LitFacts
  <2>4. Level(VarOf(k)) = 1
    BY <1>1, <2>3
  <2> QED BY <1>3, <2>2, <2>4 DEF LitStatus, Level
<1>8. TrailBound(Len(trail))'
  <2>1. ASSUME NEW v \in Vars, model'[v] # 0 PROVE \E i \in 1 .. n + 1 : VarOf(trail'[i]) = v
    <3>1. PICK i \in 1 .. n : VarOf(trail[i]) = v
      BY <1>3, <1>6, <2>1
    <3> QED BY <1>1, <1>4, <3>1
  <2>2. n + 1 \in 0 .. n + 1 /\ ~ (n + 1 < n + 1) /\ (\A i \in (n + 1) + 1 .. n + 1 : FALSE)
    BY <1>1
  <2>3. \A i, j \in 1 .. n + 1 : i <= j => Level(VarOf(trail[i]))' <= Level(VarOf(trail[j]))'
    BY <1>7
  <2>4. \A i \in 1 .. n + 1 : ~ (Level(VarOf(trail[i]))' > 1)
    BY <1>7
  <2> QED BY <1>4, <1>7, <2>1, <2>2, <2>3, <2>4 DEF TrailBound
<1>9. FactsFollow'
  <2>1. ASSUME NEW i \in 1 .. n + 1 PROVE Follows(trail[i])'
    <3>1. CASE i \in 1 .. n
      <4>1. Level(VarOf(trail[i])) = 1
        BY <1>3, <1>4, <1>7, <3>1 DEF Level
      <4>2. Follows(trail[i])
        BY <1>1, <3>1, <4>1 DEF Bound, FactsFollow
      <4> QED BY <1>4, <3>1, <4>2 DEF Follows, KeepsAll
    <3>2. CASE i = n + 1
      BY <1>4, <3>2 DEF Follows, KeepsAll
    <3> QED BY <1>5, <3>1, <3>2
  <2> QED BY <1>4, <2>1 DEF FactsFollow
<1>10. ReasonsHold'
  <2>1. ASSUME NEW i \in 1 .. n + 1, reason'[VarOf(trail'[i])] # Nil
        PROVE  ImpliedBy(reason[VarOf(trail[i])], trail[i], FalseBefore(i))'
    <3>1. PICK j \in 1 .. n : j <= i /\ trail[j] = trail'[i]
      <4>1. CASE i \in 1 .. n
        BY <1>4, <4>1
      <4>2. CASE i = n + 1
        <5>1. l \in UpTo(n)
          BY <1>0, <1>2, BoundFacts
        <5>2. PICK j \in 1 .. n : trail[j] = l
          BY <5>1 DEF UpTo
        <5> QED BY <1>1, <1>4, <4>2, <5>2
      <4> QED BY <1>5, <4>1, <4>2
    <3>2. reason[VarOf(trail[j])] \in ClauseIds
      BY <1>0, <1>1, <2>1, <3>1 DEF PBTypeOK
    <3>3. ImpliedBy(reason[VarOf(trail[j])], trail[j], FalseBefore(j))
      BY <1>1, <2>1, <3>1 DEF Bound, ReasonsHold
    <3>4. PICK q \in ClauseIds, k \in Lits : q = reason[VarOf(trail[j])] /\ k = trail[j]
      BY <1>1, <3>2
    <3>5. PICK F, G : F = FalseBefore(j) /\ G = FalseBefore(i)'
      OBVIOUS
    <3>6. F \subseteq G
      <4>1. \A p \in 1 .. j - 1 : p \in 1 .. n /\ p \in 1 .. i - 1
        BY <1>1, <3>1
      <4>2. \A p \in 1 .. j - 1 : trail'[p] = trail[p] /\ p \in 1 .. i - 1
        BY <1>4, <4>1
      <4> QED BY <3>5, <4>2 DEF FalseBefore
    <3>7. ImpliedBy(q, k, F)
      BY <3>3, <3>4, <3>5
    <3>8. ImpliedBy(q, k, G)
      BY <1>0, <3>6, <3>7, ImpliedGrows, ConstraintsOK
    <3>9. ImpliedBy(q, k, G)'
      BY <3>8, ImpliedKept
    <3> QED BY <3>1, <3>4, <3>5, <3>9
  <2> QED BY <1>4, <2>1 DEF ReasonsHold
<1> QED BY <1>1, <1>3, <1>4, <1>7, <1>8, <1>9, <1>10

-----------------------------------------------------------------------------
(* Steps that change little.                                               *)

LEMMA SameDatabase ==
    ASSUME DatabaseOK, UNCHANGED <<clauses, pbs, problem>>
    PROVE  /\ KeepsAll /\ DatabaseOK' /\ Solutions' = Solutions /\ ClauseIds' = ClauseIds
           /\ \A c, T : Enough(T, c)' <=> Enough(T, c)
<1>1. /\ ClauseIds' = ClauseIds /\ Solutions' = Solutions
      /\ \A c, T : Enough(T, c)' <=> Enough(T, c)
  BY DEF ClauseIds, Solutions, Meets, Enough, Weight, Idx, LitAt
<1>2. KeepsAll
  BY <1>1 DEF KeepsAll
<1>3. DatabaseOK'
  BY <1>1 DEF DatabaseOK
<1> QED BY <1>1, <1>2, <1>3

LEMMA SameLists ==
    ASSUME PBListsInv, UNCHANGED <<clauses, watched, wlistBin, wlist, pbs, wlistPb>>
    PROVE  PBListsInv'
BY DEF PBListsInv, ClauseIds

\* Out of cutting planes the whole trail is bound.
LEMMA BoundNow ==
    ASSUME LiveInv, pc \notin {"cut", "learned", "bind"}
    PROVE  \E n : /\ n = Len(trail) /\ n \in Nat /\ Bound(n)
                  /\ \A v \in Vars : model[v] = 0 /\ reason[v] # Nil =>
                        pc = "unify" /\ v = VarOf(lit)
<1>1. PICK n \in 0 .. Len(trail) :
        /\ TrailBound(n) /\ ReasonsBound(n) /\ n = Len(trail)
  BY DEF LiveInv, BindingsOK
<1>2. n \in Nat /\ ~ \E i \in n + 1 .. Len(trail) : TRUE
  BY <1>1, TrailType DEF LiveInv
<1>3. \A v \in Vars : model[v] = 0 /\ reason[v] # Nil => pc = "unify" /\ v = VarOf(lit)
  BY <1>1, <1>2 DEF ReasonsBound
<1> QED BY <1>1, <1>2, <1>3 DEF Bound, LiveInv, BindingsOK

LEMMA BindingsFrom ==
    ASSUME TrailBound(Len(trail))', FactsFollow', ReasonsHold', Len(trail') \in Nat,
           \A v \in Vars : model'[v] = 0 /\ reason'[v] # Nil => pc' = "unify" /\ v = VarOf(lit'),
           pc' = "cut" => cutPtr' = Len(trail'), pc' # "learned"
    PROVE  BindingsOK'
<1>1. ReasonsBound(Len(trail))'
  BY DEF ReasonsBound
<1>2. Len(trail') \in 0 .. Len(trail')
  OBVIOUS
<1> QED BY <1>1, <1>2 DEF BindingsOK

LEMMA BindingsStay ==
    ASSUME LiveInv, KeepsAll, UNCHANGED <<model, trail, reason>>,
           pc \notin {"cut", "learned", "bind", "unify"},
           pc' = "cut" => cutPtr' = Len(trail), pc' # "learned"
    PROVE  /\ BindingsOK'
           /\ \A v \in Vars : Level(v)' = Level(v)
           /\ \A l : LitStatus(l)' = LitStatus(l)
           /\ \A l : IsFalse(l)' <=> IsFalse(l)
<1>1. PICK n : /\ n = Len(trail) /\ n \in Nat /\ Bound(n)
               /\ \A v \in Vars : model[v] = 0 /\ reason[v] # Nil =>
                      pc = "unify" /\ v = VarOf(lit)
  BY BoundNow
<1>2. /\ TrailBound(n)' /\ FactsFollow' /\ ReasonsHold'
      /\ \A v \in Vars : Level(v)' = Level(v)
      /\ \A l : LitStatus(l)' = LitStatus(l)
      /\ \A l : IsFalse(l)' <=> IsFalse(l)
  BY <1>1, BoundKept
<1>3. TrailBound(Len(trail))'
  BY <1>1, <1>2 DEF TrailBound
<1>4. BindingsOK'
  BY <1>1, <1>2, <1>3, BindingsFrom
<1> QED BY <1>2, <1>4

-----------------------------------------------------------------------------
(* Propagation.                                                            *)

\* What no step of propagate changes.
OnlyPropagates ==
    UNCHANGED <<learnVars, assumptions, ctlVars, cert, clientVars, cutVars, pbCtlVars>>

LEMMA PropagatingKeeps ==
    ASSUME LiveInv, OnlyPropagates, UNCHANGED lvl, Solutions' = Solutions,
           pc \in {"propagate", "visit", "pb"}, pc' \in {"propagate", "visit", "pb", "conflict"},
           \A v \in Vars : Level(v)' <= lvl
    PROVE  PBUnifyInv' /\ PBLearnInv' /\ CutInv' /\ PBLevelsInv'
<1>1. PBUnifyInv'
  BY DEF LiveInv, PBUnifyInv, OnlyPropagates, pbCtlVars, Follows
<1>2. PBLearnInv' /\ CutInv'
  BY DEF PBLearnInv, CutInv
<1>3. PBLevelsInv'
  BY DEF LiveInv, PBLevelsInv, OnlyPropagates, ctlVars
<1> QED BY <1>1, <1>2, <1>3

LEMMA StartLitLive ==
    ASSUME LiveInv, StartLit, UNCHANGED pbVars, OnlyPropagates
    PROVE  LiveInv'
<1>1. /\ UNCHANGED <<clauses, pbs, problem, model, trail, reason, polarity, queue>>
      /\ UNCHANGED <<watched, wlistBin, wlist, wlistPb, visiting, pos, ptr, lvl, lit, pending>>
      /\ UNCHANGED <<met, metLvl, lits, nbLvl, walk, assumptions, cut, cutPtr, ret>>
      /\ pc = "propagate" /\ pc' = "visit" /\ ptr <= Len(trail)
      /\ todoBin' = wlistBin[trail[ptr]] /\ todo' = wlist[trail[ptr]]
  BY DEF StartLit, pbVars, OnlyPropagates, bindingVars, dbVars, learnVars, ctlVars, cutVars,
         pbCtlVars
<1>2. KeepsAll /\ DatabaseOK' /\ Solutions' = Solutions /\ ClauseIds' = ClauseIds
  BY <1>1, SameDatabase DEF LiveInv
<1>3. BindingsOK' /\ \A v \in Vars : Level(v)' = Level(v)
  BY <1>1, <1>2, BindingsStay
<1>4. ptr \in DOMAIN trail /\ trail[ptr] \in Lits
  BY <1>1, TrailType DEF LiveInv, PBTypeOK
<1>5. PBTypeOK'
  <2>1. wlistBin[trail[ptr]] \subseteq Watchers /\ wlist[trail[ptr]] \subseteq Watchers
    BY <1>4 DEF LiveInv, PBTypeOK
  <2> QED BY <1>1, <1>2, <2>1 DEF LiveInv, PBTypeOK, Watchers
<1>6. PBVisitInv'
  <2>1. \A i \in DOMAIN trail : VarOf(trail[i]) \in Vars
    BY TrailType DEF LiveInv
  <2> QED BY <1>1, <1>3, <1>4, <2>1 DEF LiveInv, PBVisitInv
<1>7. PBListsInv'
  BY <1>1, SameLists DEF LiveInv
<1>8. PBUnifyInv' /\ PBLearnInv' /\ CutInv' /\ PBLevelsInv'
  <2>1. \A v \in Vars : Level(v)' <= lvl
    BY <1>1, <1>3 DEF LiveInv, PBLevelsInv
  <2> QED BY <1>1, <1>2, <2>1, PropagatingKeeps
<1> QED BY <1>2, <1>3, <1>5, <1>6, <1>7, <1>8 DEF LiveInv

\* The literal at hand was made true at the current level.
LEMMA AtHand ==
    ASSUME LiveInv, pc \in {"visit", "pb"}
    PROVE  /\ ptr \in DOMAIN trail /\ trail[ptr] \in Lits /\ Negation(trail[ptr]) \in Lits
           /\ IsFalse(Negation(trail[ptr])) /\ Level(VarOf(Negation(trail[ptr]))) = lvl
           /\ lvl \in Nat \ {0} /\ \A v \in Vars : Level(v) <= lvl
           /\ \A i \in DOMAIN trail : i >= ptr => Level(VarOf(trail[i])) = lvl
           /\ ptr \in Nat
<1>1. ptr \in DOMAIN trail /\ \A i \in DOMAIN trail : i >= ptr => Level(VarOf(trail[i])) = lvl
  BY DEF LiveInv, PBVisitInv
<1>2. /\ Len(trail) \in Nat /\ DOMAIN trail = 1 .. Len(trail) /\ ptr \in Nat
      /\ trail[ptr] \in Lits
  BY <1>1, TrailType DEF LiveInv
<1>3. Negation(trail[ptr]) \in Lits /\ VarOf(Negation(trail[ptr])) = VarOf(trail[ptr])
  BY <1>2, LitFacts
<1>4. PICK n : n = Len(trail) /\ Bound(n)
  BY BoundNow
<1>5. LitStatus(trail[ptr]) = "Sat"
  BY <1>1, <1>2, <1>4 DEF Bound, TrailBound
<1>6. IsFalse(Negation(trail[ptr]))
  BY <1>2, <1>3, <1>4, <1>5, BoundFacts, LitFacts DEF Bound
<1>7. lvl \in Nat \ {0} /\ \A v \in Vars : Level(v) <= lvl
  BY DEF LiveInv, PBLevelsInv, PBTypeOK
<1> QED BY <1>1, <1>2, <1>3, <1>6, <1>7

\* Literals are bound because of r.
LEMMA PropagateBinds ==
    ASSUME LiveInv, pc \in {"visit", "pb"}, pc' \in {"visit", "pb"}, OnlyPropagates,
           UNCHANGED <<clauses, pbs, lvl, ptr>>,
           NEW s \in Seq(Lits), NEW r \in ClauseIds, BindsAll(s, r),
           \A j \in DOMAIN s : model[VarOf(s[j])] = 0,
           \A i, j \in DOMAIN s : VarOf(s[i]) = VarOf(s[j]) => i = j,
           \A j \in DOMAIN s : ImpliedBy(r, s[j], {l \in Lits : IsFalse(l)})
    PROVE  /\ BindingsOK' /\ DatabaseOK' /\ trail' \in Seq(Lits)
           /\ PBUnifyInv' /\ PBLearnInv' /\ CutInv' /\ PBLevelsInv'
           /\ ptr \in DOMAIN trail' /\ trail'[ptr] = trail[ptr]
           /\ \A i \in DOMAIN trail' : i >= ptr => Level(VarOf(trail[i]))' = lvl
<1>1. PICK n : /\ n = Len(trail) /\ n \in Nat /\ Bound(n)
               /\ \A v \in Vars : model[v] = 0 /\ reason[v] # Nil =>
                      pc = "unify" /\ v = VarOf(lit)
  BY BoundNow
<1>2. KeepsAll /\ DatabaseOK' /\ Solutions' = Solutions /\ ClauseIds' = ClauseIds
  BY SameDatabase DEF LiveInv, OnlyPropagates, pbCtlVars
<1>3. /\ ptr \in DOMAIN trail /\ lvl \in Nat \ {0} /\ \A v \in Vars : Level(v) <= lvl
      /\ \A i \in DOMAIN trail : i >= ptr => Level(VarOf(trail[i])) = lvl
      /\ ptr \in Nat
  BY AtHand
<1>4. Nil \notin ClauseIds /\ DOMAIN trail = 1 .. n
  BY <1>1, ConstraintsOK, TrailType DEF LiveInv
<1>5. MayBind(s, r)
  BY <1>3, <1>4 DEF MayBind
<1>6. /\ TrailBound(Len(trail))' /\ FactsFollow' /\ ReasonsHold'
      /\ trail' \in Seq(Lits) /\ DOMAIN trail' = 1 .. n + Len(s) /\ Len(s) \in Nat
      /\ \A i \in 1 .. n : trail'[i] = trail[i] /\ Level(VarOf(trail[i]))' = Level(VarOf(trail[i]))
      /\ \A i \in n + 1 .. n + Len(s) : Level(VarOf(trail[i]))' = lvl
      /\ \A v \in Vars : Level(v)' <= lvl
  BY <1>1, <1>2, <1>5, BoundExtended DEF LiveInv
<1>7. ptr \in DOMAIN trail' /\ trail'[ptr] = trail[ptr]
  BY <1>1, <1>3, <1>4, <1>6
<1>8. ASSUME NEW i \in DOMAIN trail', i >= ptr PROVE Level(VarOf(trail[i]))' = lvl
  <2>1. i \in 1 .. n \/ i \in n + 1 .. n + Len(s)
    BY <1>1, <1>6
  <2> QED BY <1>3, <1>4, <1>6, <1>8, <2>1
<1>9. \A v \in Vars : model'[v] = 0 => reason'[v] = Nil
  <2> SUFFICES ASSUME NEW v \in Vars, model'[v] = 0 PROVE reason'[v] = Nil
    OBVIOUS
  <2>1. ASSUME NEW j \in DOMAIN s PROVE VarOf(s[j]) # v
    <3>1. model'[VarOf(s[j])] = lvl \/ model'[VarOf(s[j])] = -lvl
      BY DEF BindsAll, LvlToSignedLvl
    <3> QED BY <1>3, <3>1
  <2>2. model'[v] = model[v] /\ reason'[v] = reason[v]
    BY <2>1 DEF BindsAll
  <2> QED BY <1>1, <2>2
<1>10. BindingsOK'
  <2>1. Len(trail') \in Nat
    BY <1>6
  <2> QED BY <1>6, <1>9, <2>1, BindingsFrom
<1>11. PBUnifyInv' /\ PBLearnInv' /\ CutInv' /\ PBLevelsInv'
  BY <1>2, <1>6, PropagatingKeeps
<1> QED BY <1>2, <1>6, <1>7, <1>8, <1>10, <1>11

\* A clause or constraint that contains the literal at hand is false.
LEMMA PropagateFails ==
    ASSUME LiveInv, pc \in {"visit", "pb"}, pc' = "conflict", OnlyPropagates,
           UNCHANGED <<clauses, pbs, lvl, ptr, model, trail, reason>>,
           NEW r \in ClauseIds, confl' = r, ~ Enough({l \in Lits : ~ IsFalse(l)}, r),
           Negation(trail[ptr]) \in clauses[r]
    PROVE  /\ BindingsOK' /\ DatabaseOK'
           /\ PBUnifyInv' /\ PBLearnInv' /\ CutInv' /\ PBLevelsInv' /\ PBVisitInv'
<1>1. /\ KeepsAll /\ DatabaseOK' /\ Solutions' = Solutions /\ ClauseIds' = ClauseIds
      /\ \A c, T : Enough(T, c)' <=> Enough(T, c)
  BY SameDatabase DEF LiveInv, OnlyPropagates, pbCtlVars
<1>2. /\ ptr \in DOMAIN trail /\ lvl \in Nat \ {0} /\ \A v \in Vars : Level(v) <= lvl
      /\ Negation(trail[ptr]) \in Lits /\ VarOf(Negation(trail[ptr])) \in Vars
      /\ IsFalse(Negation(trail[ptr])) /\ Level(VarOf(Negation(trail[ptr]))) = lvl
  BY AtHand, LitFacts
<1>3. /\ BindingsOK' /\ \A v \in Vars : Level(v)' = Level(v)
      /\ \A l : IsFalse(l)' <=> IsFalse(l)
  BY <1>1, BindingsStay
<1>4. PBVisitInv'
  <2>1. PICK T : T = {l \in Lits : ~ IsFalse(l)}
    OBVIOUS
  <2>2. T = {l \in Lits : ~ IsFalse(l)'}
    BY <1>3, <2>1
  <2>3. ~ Enough(T, r)'
    BY <1>1, <2>1
  <2> QED BY <1>1, <1>2, <1>3, <2>2, <2>3 DEF PBVisitInv
<1>5. PBUnifyInv' /\ PBLearnInv' /\ CutInv' /\ PBLevelsInv'
  BY <1>1, <1>2, <1>3, PropagatingKeeps
<1> QED BY <1>1, <1>3, <1>4, <1>5

\* Nothing is bound.
LEMMA PropagateGoesOn ==
    ASSUME LiveInv, pc \in {"visit", "pb"}, pc' \in {"visit", "pb"}, OnlyPropagates,
           UNCHANGED <<lvl, ptr, model, trail, reason>>, KeepsAll, Solutions' = Solutions
    PROVE  /\ BindingsOK'
           /\ PBUnifyInv' /\ PBLearnInv' /\ CutInv' /\ PBLevelsInv'
           /\ \A i \in DOMAIN trail' : i >= ptr' => Level(VarOf(trail[i]))' = lvl'
<1>1. BindingsOK' /\ \A v \in Vars : Level(v)' = Level(v)
  BY BindingsStay
<1>2. /\ \A v \in Vars : Level(v) <= lvl
      /\ \A i \in DOMAIN trail : i >= ptr => Level(VarOf(trail[i])) = lvl
  BY AtHand
<1>3. PBUnifyInv' /\ PBLearnInv' /\ CutInv' /\ PBLevelsInv'
  BY <1>1, <1>2, PropagatingKeeps
<1> QED BY <1>1, <1>2, <1>3, TrailType DEF LiveInv

LEMMA ImplyBinds ==
    ASSUME PBTypeOK, NEW c \in ClauseIds, NEW l \in Lits, Imply(c, l)
    PROVE  /\ BindsAll(<<l>>, c) /\ <<l>> \in Seq(Lits) /\ DOMAIN <<l>> = {1} /\ <<l>>[1] = l
           /\ model' \in [Vars -> Int] /\ reason' \in [Vars -> {Nil} \union ClauseIds]
<1>1. /\ <<l>> \in Seq(Lits) /\ DOMAIN <<l>> = {1} /\ <<l>>[1] = l /\ VarOf(l) \in Vars
  BY LitFacts
<1>2. /\ model \in [Vars -> Int] /\ reason \in [Vars -> {Nil} \union ClauseIds]
      /\ trail \in Seq(Lits) /\ lvl \in Nat
  BY DEF PBTypeOK
<1>3. LvlToSignedLvl(l, lvl) \in Int
  BY <1>2 DEF LvlToSignedLvl
<1>4. /\ model' \in [Vars -> Int] /\ reason' \in [Vars -> {Nil} \union ClauseIds]
      /\ \A v \in Vars : /\ model'[v] = IF v = VarOf(l) THEN LvlToSignedLvl(l, lvl) ELSE model[v]
                         /\ reason'[v] = IF v = VarOf(l) THEN c ELSE reason[v]
  BY <1>1, <1>2, <1>3 DEF Imply
<1>5. trail' = trail \o <<l>>
  BY <1>2 DEF Imply
<1>6. BindsAll(<<l>>, c)
  BY <1>1, <1>4, <1>5 DEF BindsAll
<1> QED BY <1>1, <1>4, <1>6

\* A clause whose other literals are false implies the last one, or is false.
LEMMA ClauseImplies ==
    ASSUME NEW c \in ClauseIds \ DOMAIN pbs, clauses[c] \in Clauses, NEW l \in clauses[c],
           \A k \in clauses[c] \ {l} : IsFalse(k)
    PROVE  /\ ImpliedBy(c, l, {k \in Lits : IsFalse(k)})
           /\ IsFalse(l) => ~ Enough({k \in Lits : ~ IsFalse(k)}, c)
BY DEF ImpliedBy, Enough, Clauses

LEMMA VisitBinaryLive ==
    ASSUME LiveInv, NEW w \in todoBin, VisitBinary(w), UNCHANGED pbVars, OnlyPropagates
    PROVE  LiveInv'
<1>1. /\ UNCHANGED <<clauses, pbs, problem, polarity, queue>>
      /\ UNCHANGED <<watched, wlistBin, wlist, wlistPb, visiting, pos, ptr, lvl, lit, pending>>
      /\ UNCHANGED <<met, metLvl, lits, nbLvl, walk, assumptions, cut, cutPtr, ret>>
      /\ pc = "visit"
  BY DEF VisitBinary, pbVars, OnlyPropagates, dbVars, learnVars, ctlVars, cutVars, pbCtlVars
<1>2. /\ KeepsAll /\ DatabaseOK' /\ Solutions' = Solutions /\ ClauseIds' = ClauseIds
  BY <1>1, SameDatabase DEF LiveInv
<1>3. PBTypeOK /\ PBListsInv'
  BY <1>1, SameLists DEF LiveInv
<1>4. /\ ptr \in DOMAIN trail /\ trail[ptr] \in Lits /\ Negation(trail[ptr]) \in Lits
      /\ IsFalse(Negation(trail[ptr]))
  BY <1>1, AtHand
<1>5. /\ w[1] \in ClauseIds \ DOMAIN pbs /\ w[2] \in Lits /\ clauses[w[1]] \in Clauses
      /\ clauses[w[1]] = {Negation(trail[ptr]), w[2]} /\ VarOf(w[2]) \in Vars
  <2>1. w \in Watchers /\ w \in wlistBin[trail[ptr]]
    BY <1>1 DEF LiveInv, PBVisitInv, PBTypeOK
  <2>2. w[1] \notin DOMAIN pbs /\ clauses[w[1]] = {Negation(trail[ptr]), w[2]}
    BY <1>4, <2>1 DEF LiveInv, PBListsInv
  <2>3. w[1] \in ClauseIds /\ w[2] \in Lits
    BY <2>1 DEF Watchers
  <2> QED BY <2>2, <2>3, LitFacts, ConstraintsOK DEF LiveInv
<1>6. CASE IsFalse(w[2])
  <2>1. /\ UNCHANGED <<model, trail, reason>>
        /\ confl' = w[1] /\ pc' = "conflict" /\ todoBin' = {} /\ todo' = {}
    BY <1>6 DEF VisitBinary, ReturnConflict
  <2>2. PBTypeOK'
    BY <1>1, <1>2, <1>3, <2>1 DEF PBTypeOK, Watchers
  <2>3. PICK r \in ClauseIds \ DOMAIN pbs : r = w[1]
    BY <1>5
  <2>4. ~ Enough({l \in Lits : ~ IsFalse(l)}, r) /\ Negation(trail[ptr]) \in clauses[r]
    BY <1>4, <1>5, <1>6, <2>3, ClauseImplies
  <2>5. BindingsOK' /\ PBUnifyInv' /\ PBLearnInv' /\ CutInv' /\ PBLevelsInv' /\ PBVisitInv'
    BY <1>1, <2>1, <2>3, <2>4, PropagateFails
  <2> QED BY <1>2, <1>3, <2>2, <2>5 DEF LiveInv
<1>7. CASE ~ IsFalse(w[2]) /\ LitStatus(w[2]) = "Indet"
  <2>1. Imply(w[1], w[2]) /\ todoBin' = todoBin \ {w} /\ UNCHANGED <<todo, confl, pc>>
    BY <1>7 DEF VisitBinary
  <2>2. PICK r \in ClauseIds \ DOMAIN pbs, l \in Lits : r = w[1] /\ l = w[2]
    BY <1>5
  <2>3. /\ BindsAll(<<l>>, r) /\ <<l>> \in Seq(Lits) /\ DOMAIN <<l>> = {1} /\ <<l>>[1] = l
        /\ model' \in [Vars -> Int] /\ reason' \in [Vars -> {Nil} \union ClauseIds]
    BY <1>3, <2>1, <2>2, ImplyBinds
  <2>4. ImpliedBy(r, l, {k \in Lits : IsFalse(k)})
    BY <1>4, <1>5, <2>2, ClauseImplies
  <2>5. model[VarOf(l)] = 0
    BY <1>3, <1>7, <2>2, StatusFacts DEF PBTypeOK
  <2>6. /\ BindingsOK' /\ trail' \in Seq(Lits)
        /\ PBUnifyInv' /\ PBLearnInv' /\ CutInv' /\ PBLevelsInv'
        /\ ptr \in DOMAIN trail' /\ trail'[ptr] = trail[ptr]
        /\ \A i \in DOMAIN trail' : i >= ptr => Level(VarOf(trail[i]))' = lvl
    BY <1>1, <2>1, <2>3, <2>4, <2>5, PropagateBinds
  <2>7. PBTypeOK'
    BY <1>1, <1>2, <1>3, <2>1, <2>3, <2>6 DEF PBTypeOK, Watchers
  <2>8. PBVisitInv'
    BY <1>1, <2>1, <2>6 DEF LiveInv, PBVisitInv
  <2> QED BY <1>2, <1>3, <2>6, <2>7, <2>8 DEF LiveInv
<1>8. CASE ~ IsFalse(w[2]) /\ LitStatus(w[2]) # "Indet"
  <2>1. /\ UNCHANGED <<model, trail, reason>>
        /\ todoBin' = todoBin \ {w} /\ UNCHANGED <<todo, confl, pc>>
    BY <1>8 DEF VisitBinary
  <2>2. PBTypeOK'
    BY <1>1, <1>2, <1>3, <2>1 DEF PBTypeOK, Watchers
  <2>3. /\ BindingsOK' /\ PBUnifyInv' /\ PBLearnInv' /\ CutInv' /\ PBLevelsInv'
        /\ \A i \in DOMAIN trail' : i >= ptr' => Level(VarOf(trail[i]))' = lvl'
    BY <1>1, <1>2, <2>1, PropagateGoesOn
  <2>4. PBVisitInv'
    BY <1>1, <2>1, <2>3 DEF LiveInv, PBVisitInv
  <2> QED BY <1>2, <1>3, <2>2, <2>3, <2>4 DEF LiveInv
<1> QED BY <1>6, <1>7, <1>8

LEMMA StartConstraintsLive ==
    ASSUME LiveInv, StartConstraints, OnlyPropagates
    PROVE  LiveInv'
<1>1. /\ UNCHANGED <<clauses, pbs, problem, polarity, queue, model, trail, reason>>
      /\ UNCHANGED <<watched, wlistBin, wlist, wlistPb, ptr, lvl, lit, pending, todoBin, todo>>
      /\ UNCHANGED <<met, metLvl, lits, nbLvl, walk, assumptions, cut, cutPtr, ret>>
      /\ pc = "visit" /\ pc' = "pb" /\ visiting' = wlistPb[trail[ptr]] /\ pos' = 1
  BY DEF StartConstraints, OnlyPropagates, bindingVars, dbVars, learnVars, ctlVars, cutVars,
         pbCtlVars
<1>2. /\ KeepsAll /\ DatabaseOK' /\ Solutions' = Solutions /\ ClauseIds' = ClauseIds
  BY <1>1, SameDatabase DEF LiveInv
<1>3. PBTypeOK /\ PBListsInv'
  BY <1>1, SameLists DEF LiveInv
<1>4. /\ ptr \in DOMAIN trail /\ trail[ptr] \in Lits
  BY <1>1, AtHand
<1>5. PBTypeOK'
  <2>1. wlistPb[trail[ptr]] \in Seq(DOMAIN pbs) /\ 1 \in Nat \ {0}
    BY <1>3, <1>4 DEF PBTypeOK
  <2> QED BY <1>1, <1>2, <1>3, <2>1 DEF PBTypeOK, Watchers
<1>6. /\ BindingsOK' /\ PBUnifyInv' /\ PBLearnInv' /\ CutInv' /\ PBLevelsInv'
      /\ \A i \in DOMAIN trail' : i >= ptr' => Level(VarOf(trail[i]))' = lvl'
  BY <1>1, <1>2, PropagateGoesOn
<1>7. PBVisitInv'
  BY <1>1, <1>4, <1>6 DEF LiveInv, PBListsInv, PBVisitInv
<1> QED BY <1>2, <1>3, <1>5, <1>6, <1>7 DEF LiveInv

LEMMA EndConstraintsLive ==
    ASSUME LiveInv, EndConstraints, OnlyPropagates
    PROVE  LiveInv'
<1>1. /\ UNCHANGED <<clauses, pbs, problem, polarity, queue, model, trail, reason>>
      /\ UNCHANGED <<watched, wlistBin, wlist, wlistPb, lvl, lit, pending, todoBin, todo>>
      /\ UNCHANGED <<met, metLvl, lits, nbLvl, walk, assumptions, cut, cutPtr, ret>>
      /\ pc = "pb" /\ pc' = "propagate" /\ ptr' = ptr + 1 /\ visiting' = <<>> /\ pos' = 1
  BY DEF EndConstraints, OnlyPropagates, bindingVars, dbVars, learnVars, ctlVars, cutVars,
         pbCtlVars
<1>2. /\ KeepsAll /\ DatabaseOK' /\ Solutions' = Solutions /\ ClauseIds' = ClauseIds
  BY <1>1, SameDatabase DEF LiveInv
<1>3. PBTypeOK /\ PBListsInv'
  BY <1>1, SameLists DEF LiveInv
<1>4. /\ ptr \in Nat /\ \A i \in DOMAIN trail : i >= ptr => Level(VarOf(trail[i])) = lvl
      /\ \A v \in Vars : Level(v) <= lvl
  BY <1>1, AtHand
<1>5. PBTypeOK'
  <2>1. <<>> \in Seq(DOMAIN pbs) /\ 1 \in Nat \ {0} /\ ptr + 1 \in Nat \ {0}
    BY <1>4
  <2> QED BY <1>1, <1>2, <1>3, <2>1 DEF PBTypeOK, Watchers
<1>6. BindingsOK' /\ \A v \in Vars : Level(v)' = Level(v)
  BY <1>1, <1>2, BindingsStay
<1>7. PBVisitInv'
  <2>1. \A i \in DOMAIN trail : i \in Nat /\ VarOf(trail[i]) \in Vars
    BY <1>3, TrailType
  <2>2. \A i \in DOMAIN trail : i >= ptr + 1 => i >= ptr
    BY <1>4, <2>1
  <2> QED BY <1>1, <1>4, <1>6, <2>1, <2>2 DEF PBVisitInv
<1>8. PBUnifyInv' /\ PBLearnInv' /\ CutInv' /\ PBLevelsInv'
  BY <1>1, <1>2, <1>4, <1>6, PropagatingKeeps
<1> QED BY <1>2, <1>3, <1>5, <1>6, <1>7, <1>8 DEF LiveInv


\* The watchers of clauses, as in LongFacts.
LEMMA ListsFacts ==
    ASSUME LiveInv
    PROVE  /\ \A c \in ClauseIds \ DOMAIN pbs :
                /\ watched[c][1] \in clauses[c] /\ watched[c][2] \in clauses[c]
                /\ watched[c][1] # watched[c][2]
           /\ \A l \in Lits : \A x \in wlist[l] :
                /\ x[1] \in ClauseIds \ DOMAIN pbs
                /\ Negation(l) \in {watched[x[1]][1], watched[x[1]][2]}
                /\ \A y \in wlist[l] : y[1] = x[1] => y = x
<1>1. \A l \in Lits : wlist[l] \subseteq Watchers
  BY DEF LiveInv, PBTypeOK
<1> QED BY <1>1 DEF LiveInv, PBListsInv, Watchers

LEMMA LongVisited ==
    ASSUME LiveInv, pc = "visit", NEW w \in todo, NEW p, p = Swapped(w[1], Negation(trail[ptr]))
    PROVE  /\ ptr \in DOMAIN trail /\ trail[ptr] \in Lits /\ Negation(trail[ptr]) \in Lits
           /\ w \in wlist[trail[ptr]]
           /\ w[1] \in ClauseIds \ DOMAIN pbs /\ w[2] \in Lits /\ w = <<w[1], w[2]>>
           /\ clauses[w[1]] \in Clauses /\ watched[w[1]] \in Lits \X Lits
           /\ p \in Lits \X Lits /\ p = <<p[1], Negation(trail[ptr])>>
           /\ p[1] # Negation(trail[ptr])
           /\ p[1] \in clauses[w[1]] /\ Negation(trail[ptr]) \in clauses[w[1]]
           /\ {p[1], p[2]} = {watched[w[1]][1], watched[w[1]][2]}
           /\ \A x \in wlist[trail[ptr]] : x[1] = w[1] => x = w
           /\ IsFalse(Negation(trail[ptr]))
<1>1. w \in wlist[trail[ptr]] /\ w \in Watchers
  BY DEF LiveInv, PBVisitInv, PBTypeOK
<1>2. /\ ptr \in DOMAIN trail /\ trail[ptr] \in Lits /\ Negation(trail[ptr]) \in Lits
      /\ IsFalse(Negation(trail[ptr]))
  BY AtHand
<1>3. w[1] \in ClauseIds \ DOMAIN pbs /\ w[2] \in Lits /\ w = <<w[1], w[2]>>
  BY <1>1, <1>2, ListsFacts DEF Watchers
<1>4. /\ Negation(trail[ptr]) \in {watched[w[1]][1], watched[w[1]][2]}
      /\ \A x \in wlist[trail[ptr]] : x[1] = w[1] => x = w
      /\ watched[w[1]][1] \in clauses[w[1]] /\ watched[w[1]][2] \in clauses[w[1]]
      /\ watched[w[1]][1] # watched[w[1]][2]
  BY <1>1, <1>2, <1>3, ListsFacts
<1>5. clauses[w[1]] \in Clauses /\ watched[w[1]] \in Lits \X Lits
  <2>1. w[1] \in 1 .. Len(clauses)
    BY <1>3 DEF ClauseIds
  <2>2. clauses \in Seq(Clauses) /\ watched \in Seq(Lits \X Lits) /\ Len(watched) = Len(clauses)
    BY DEF LiveInv, PBTypeOK
  <2>3. clauses[w[1]] \in Clauses
    BY <2>1, <2>2, ElementOfSeq
  <2>4. watched[w[1]] \in Lits \X Lits
    BY <2>1, <2>2, ElementOfSeq
  <2> QED BY <2>3, <2>4
<1>6. watched[w[1]] = <<watched[w[1]][1], watched[w[1]][2]>>
  BY <1>5
<1>7. p = IF watched[w[1]][1] = Negation(trail[ptr])
          THEN <<watched[w[1]][2], Negation(trail[ptr])>> ELSE watched[w[1]]
  BY DEF Swapped
<1>8. /\ p \in Lits \X Lits /\ p = <<p[1], Negation(trail[ptr])>>
      /\ p[1] # Negation(trail[ptr])
      /\ p[1] \in clauses[w[1]] /\ Negation(trail[ptr]) \in clauses[w[1]]
      /\ {p[1], p[2]} = {watched[w[1]][1], watched[w[1]][2]}
  <2>1. CASE watched[w[1]][1] = Negation(trail[ptr])
    <3>1. p = <<watched[w[1]][2], Negation(trail[ptr])>>
      BY <1>7, <2>1
    <3> QED BY <1>2, <1>4, <1>5, <2>1, <3>1
  <2>2. CASE watched[w[1]][1] # Negation(trail[ptr])
    <3>1. p = watched[w[1]] /\ watched[w[1]][2] = Negation(trail[ptr])
      BY <1>4, <1>7, <2>2
    <3> QED BY <1>4, <1>5, <1>6, <3>1
  <2> QED BY <2>1, <2>2
<1> QED BY <1>1, <1>2, <1>3, <1>4, <1>5, <1>8

\* The watcher stays in the list, with another blocking literal.
LEMMA WatcherKept ==
    ASSUME LiveInv, pc = "visit", NEW w \in todo, NEW p, p = Swapped(w[1], Negation(trail[ptr])),
           KeepWatcher(w, trail[ptr], p), UNCHANGED <<clauses, pbs, wlistBin, wlistPb>>
    PROVE  /\ PBListsInv'
           /\ watched' \in Seq(Lits \X Lits) /\ Len(watched') = Len(watched)
           /\ wlist' \in [Lits -> SUBSET Watchers]
           /\ todo \ {w} \subseteq wlist'[trail[ptr]]
<1> DEFINE c == w[1]
           lt == trail[ptr]
           n == <<w[1], p[1]>>
<1>0. /\ lt \in Lits /\ w \in wlist[lt] /\ c \in ClauseIds \ DOMAIN pbs /\ w = <<w[1], w[2]>>
      /\ p \in Lits \X Lits /\ p[1] \in Lits /\ p = <<p[1], Negation(lt)>>
      /\ p[1] # Negation(lt) /\ p[1] \in clauses[c] /\ Negation(lt) \in clauses[c]
      /\ {p[1], p[2]} = {watched[c][1], watched[c][2]}
      /\ \A x \in wlist[lt] : x[1] = c => x = w
      /\ todo \subseteq wlist[lt]
  <2>1. todo \subseteq wlist[lt]
    BY DEF LiveInv, PBVisitInv
  <2>2. /\ lt \in Lits /\ w \in wlist[lt] /\ c \in ClauseIds \ DOMAIN pbs /\ w = <<w[1], w[2]>>
        /\ p \in Lits \X Lits /\ p = <<p[1], Negation(lt)>>
        /\ p[1] # Negation(lt) /\ p[1] \in clauses[c] /\ Negation(lt) \in clauses[c]
        /\ {p[1], p[2]} = {watched[c][1], watched[c][2]}
        /\ \A x \in wlist[lt] : x[1] = c => x = w
    BY LongVisited, Zenon
  <2>3. p[1] \in Lits
    BY <2>2
  <2> QED BY <2>1, <2>2, <2>3
<1>1. /\ watched \in Seq(Lits \X Lits) /\ Len(watched) = Len(clauses)
      /\ wlist \in [Lits -> SUBSET Watchers] /\ ClauseIds = 1 .. Len(clauses)
      /\ ClauseIds' = ClauseIds /\ DOMAIN watched = ClauseIds
  BY DEF LiveInv, PBTypeOK, ClauseIds
<1>2. /\ watched' \in Seq(Lits \X Lits) /\ Len(watched') = Len(watched)
      /\ \A d \in ClauseIds : watched'[d] = IF d = c THEN p ELSE watched[d]
  <2>1. watched' = [watched EXCEPT ![c] = p]
    BY DEF KeepWatcher
  <2> HIDE DEF c
  <2> QED BY <1>0, <1>1, <2>1
<1>3. n \in Watchers /\ n[1] = c
  BY <1>0 DEF Watchers
<1>4. /\ wlist' \in [Lits -> SUBSET Watchers]
      /\ wlist'[lt] = (wlist[lt] \ {w}) \union {n}
      /\ \A l \in Lits : l # lt => wlist'[l] = wlist[l]
  <2>1. wlist' = [wlist EXCEPT ![lt] = (@ \ {w}) \union {n}]
    BY DEF KeepWatcher
  <2> HIDE DEF lt, n
  <2> QED BY <1>0, <1>1, <1>3, <2>1
<1> HIDE DEF c, lt, n
<1>5. \A d \in ClauseIds :
        {watched'[d][1], watched'[d][2]} = {watched[d][1], watched[d][2]}
  BY <1>0, <1>2
<1>6. \A d \in ClauseIds \ DOMAIN pbs :
        /\ watched'[d][1] \in clauses[d] /\ watched'[d][2] \in clauses[d]
        /\ watched'[d][1] # watched'[d][2]
  <2>1. p[2] = Negation(lt)
    BY <1>0
  <2> QED BY <1>0, <1>2, <2>1, ListsFacts
<1>7. ASSUME NEW l \in Lits, NEW x \in wlist'[l]
      PROVE  /\ x[1] \in ClauseIds \ DOMAIN pbs
             /\ Negation(l) \in {watched'[x[1]][1], watched'[x[1]][2]}
             /\ \A y \in wlist'[l] : y[1] = x[1] => y = x
  <2>1. CASE l # lt
    BY <1>4, <1>5, <2>1, ListsFacts
  <2>2. CASE l = lt
    <3>1. \A y \in wlist'[l] : (y \in wlist[l] /\ y # w) \/ y = n
      BY <1>4, <2>2
    <3>2. \A y \in wlist[l] : y # w => y[1] # c
      BY <1>0, <2>2
    <3>3. x[1] \in ClauseIds \ DOMAIN pbs /\ Negation(l) \in {watched[x[1]][1], watched[x[1]][2]}
      <4>1. CASE x \in wlist[l]
        BY <4>1, ListsFacts
      <4>2. CASE x = n
        <5>1. w \in wlist[l] /\ x[1] = w[1]
          BY <1>0, <1>3, <2>2, <4>2 DEF c
        <5> QED BY <5>1, ListsFacts
      <4> QED BY <3>1, <4>1, <4>2
    <3>4. \A y \in wlist'[l] : y[1] = x[1] => y = x
      <4> SUFFICES ASSUME NEW y \in wlist'[l], y[1] = x[1] PROVE y = x
        OBVIOUS
      <4>1. CASE x = n
        BY <1>3, <3>1, <3>2, <4>1
      <4>2. CASE x # n
        <5>1. x \in wlist[l] /\ x # w /\ y \in wlist[l]
          BY <1>3, <3>1, <3>2, <4>2
        <5> QED BY <5>1, ListsFacts
      <4> QED BY <4>1, <4>2
    <3> QED BY <1>5, <3>3, <3>4
  <2> QED BY <2>1, <2>2
<1>8. PBListsInv'
  <2>1. \A l \in Lits : \A x \in wlistBin'[l] :
          x[1] \notin DOMAIN pbs' /\ clauses'[x[1]] = {Negation(l), x[2]}
    BY DEF LiveInv, PBListsInv
  <2>2. \A l \in Lits : \A d \in Range(wlistPb'[l]) : Negation(l) \in clauses'[d]
    BY DEF LiveInv, PBListsInv
  <2> QED BY <1>1, <1>6, <1>7, <2>1, <2>2 DEF PBListsInv
<1>9. todo \ {w} \subseteq wlist'[lt]
  BY <1>0, <1>4
<1> QED BY <1>2, <1>4, <1>8, <1>9 DEF lt

\* The watcher moves to the list of another literal of its clause.
LEMMA WatcherMoved ==
    ASSUME LiveInv, pc = "visit", NEW w \in todo, NEW p, p = Swapped(w[1], Negation(trail[ptr])),
           NEW k \in Free(w[1]), MoveWatcher(w, trail[ptr], p, k),
           UNCHANGED <<clauses, pbs, wlistBin, wlistPb>>
    PROVE  /\ PBListsInv'
           /\ watched' \in Seq(Lits \X Lits) /\ Len(watched') = Len(watched)
           /\ wlist' \in [Lits -> SUBSET Watchers]
           /\ todo \ {w} \subseteq wlist'[trail[ptr]]
<1> DEFINE c == w[1]
           lt == trail[ptr]
           n == <<w[1], p[1]>>
           q == <<p[1], k>>
<1>0. /\ lt \in Lits /\ w \in wlist[lt] /\ c \in ClauseIds \ DOMAIN pbs /\ w = <<w[1], w[2]>>
      /\ p \in Lits \X Lits /\ p[1] \in Lits /\ p = <<p[1], Negation(lt)>>
      /\ p[1] # Negation(lt) /\ p[1] \in clauses[c] /\ Negation(lt) \in clauses[c]
      /\ {p[1], p[2]} = {watched[c][1], watched[c][2]}
      /\ \A x \in wlist[lt] : x[1] = c => x = w
      /\ todo \subseteq wlist[lt] /\ clauses[c] \in Clauses
  <2>1. todo \subseteq wlist[lt]
    BY DEF LiveInv, PBVisitInv
  <2>2. clauses[w[1]] \in Clauses
    BY LongVisited
  <2>3. /\ lt \in Lits /\ w \in wlist[lt] /\ c \in ClauseIds \ DOMAIN pbs /\ w = <<w[1], w[2]>>
        /\ p \in Lits \X Lits /\ p[1] \in Lits /\ p = <<p[1], Negation(lt)>>
        /\ p[1] # Negation(lt) /\ p[1] \in clauses[c] /\ Negation(lt) \in clauses[c]
        /\ {p[1], p[2]} = {watched[c][1], watched[c][2]}
        /\ \A x \in wlist[lt] : x[1] = c => x = w
    BY LongVisited
  <2> QED BY <2>1, <2>2, <2>3
<1>1. /\ watched \in Seq(Lits \X Lits) /\ Len(watched) = Len(clauses)
      /\ wlist \in [Lits -> SUBSET Watchers] /\ ClauseIds = 1 .. Len(clauses)
      /\ ClauseIds' = ClauseIds /\ DOMAIN watched = ClauseIds
  BY DEF LiveInv, PBTypeOK, ClauseIds
<1>2. /\ k \in Lits /\ k \in clauses[c] /\ k \notin {watched[c][1], watched[c][2]}
      /\ k # p[1] /\ k # Negation(lt)
  <2>1. p[2] = Negation(lt)
    BY <1>0
  <2>2. k \in clauses[c] \ {watched[c][1], watched[c][2]}
    BY DEF Free
  <2> QED BY <1>0, <2>1, <2>2 DEF Clauses
<1>3. Negation(k) \in Lits /\ Negation(k) # lt /\ Negation(Negation(k)) = k
  BY <1>0, <1>2, LitFacts
<1>4. /\ watched' \in Seq(Lits \X Lits) /\ Len(watched') = Len(watched)
      /\ \A d \in ClauseIds : watched'[d] = IF d = c THEN q ELSE watched[d]
  <2>1. watched' = [watched EXCEPT ![c] = q]
    BY DEF MoveWatcher
  <2>2. q \in Lits \X Lits
    BY <1>0, <1>2
  <2> HIDE DEF c, q
  <2> QED BY <1>0, <1>1, <2>1, <2>2
<1>5. n \in Watchers /\ n[1] = c
  BY <1>0 DEF Watchers
<1>6. /\ wlist' \in [Lits -> SUBSET Watchers]
      /\ wlist'[lt] = wlist[lt] \ {w}
      /\ wlist'[Negation(k)] = wlist[Negation(k)] \union {n}
      /\ \A l \in Lits : l # lt /\ l # Negation(k) => wlist'[l] = wlist[l]
  <2>1. wlist' = [wlist EXCEPT ![lt] = @ \ {w}, ![Negation(k)] = @ \union {n}]
    BY DEF MoveWatcher
  <2> HIDE DEF lt, n
  <2> QED BY <1>0, <1>1, <1>3, <1>5, <2>1
<1>7. q[1] = p[1] /\ q[2] = k
  OBVIOUS
<1> HIDE DEF c, lt, n, q
<1>8. \A d \in ClauseIds \ DOMAIN pbs :
        /\ watched'[d][1] \in clauses[d] /\ watched'[d][2] \in clauses[d]
        /\ watched'[d][1] # watched'[d][2]
  BY <1>0, <1>2, <1>4, <1>7, ListsFacts
<1>9. ASSUME NEW l \in Lits, NEW x \in wlist[l], ~ (l = lt /\ x = w)
      PROVE  /\ x[1] \in ClauseIds \ DOMAIN pbs
             /\ Negation(l) \in {watched'[x[1]][1], watched'[x[1]][2]}
  <2>1. /\ x[1] \in ClauseIds \ DOMAIN pbs
        /\ Negation(l) \in {watched[x[1]][1], watched[x[1]][2]}
    BY ListsFacts
  <2>2. CASE x[1] # c
    BY <1>4, <2>1, <2>2
  <2>3. CASE x[1] = c
    <3>1. Negation(l) = p[1] \/ Negation(l) = Negation(lt)
      <4>1. p[2] = Negation(lt)
        BY <1>0
      <4> QED BY <1>0, <2>1, <2>3, <4>1
    <3>2. Negation(l) # Negation(lt)
      <4> SUFFICES ASSUME Negation(l) = Negation(lt) PROVE FALSE
        OBVIOUS
      <4>1. l = lt
        BY <1>0, LitFacts
      <4> QED BY <1>0, <1>9, <2>3, <4>1
    <3> QED BY <1>4, <1>7, <2>1, <2>3, <3>1, <3>2
  <2> QED BY <2>2, <2>3
<1>10. \A y \in wlist[Negation(k)] : y[1] # c
  <2> SUFFICES ASSUME NEW y \in wlist[Negation(k)], y[1] = c PROVE FALSE
    OBVIOUS
  <2>1. Negation(Negation(k)) \in {watched[c][1], watched[c][2]}
    BY <1>3, ListsFacts
  <2> QED BY <2>1, <1>2, <1>3
<1>11. ASSUME NEW l \in Lits, NEW x \in wlist'[l]
       PROVE  /\ x[1] \in ClauseIds \ DOMAIN pbs
              /\ Negation(l) \in {watched'[x[1]][1], watched'[x[1]][2]}
              /\ \A y \in wlist'[l] : y[1] = x[1] => y = x
  <2>1. \A y, z \in wlist[l] : y[1] = z[1] => y = z
    BY ListsFacts
  <2>2. CASE l # Negation(k)
    <3>1. \A y \in wlist'[l] : y \in wlist[l] /\ ~ (l = lt /\ y = w)
      BY <1>6, <2>2
    <3> QED BY <1>9, <2>1, <3>1
  <2>3. CASE l = Negation(k)
    <3>1. \A y \in wlist'[l] : y \in wlist[l] \/ y = n
      BY <1>6, <2>3
    <3>2. \A y \in wlist'[l] : y[1] = x[1] => y = x
      BY <1>5, <1>10, <2>1, <2>3, <3>1
    <3>3. CASE x \in wlist[l]
      BY <1>3, <1>9, <2>3, <3>2, <3>3
    <3>4. CASE x = n
      BY <1>0, <1>3, <1>4, <1>5, <1>7, <2>3, <3>2, <3>4
    <3> QED BY <3>1, <3>3, <3>4
  <2> QED BY <2>2, <2>3
<1>12. PBListsInv'
  <2>1. \A l \in Lits : \A x \in wlistBin'[l] :
          x[1] \notin DOMAIN pbs' /\ clauses'[x[1]] = {Negation(l), x[2]}
    BY DEF LiveInv, PBListsInv
  <2>2. \A l \in Lits : \A d \in Range(wlistPb'[l]) : Negation(l) \in clauses'[d]
    BY DEF LiveInv, PBListsInv
  <2> QED BY <1>1, <1>8, <1>11, <2>1, <2>2 DEF PBListsInv
<1>13. todo \ {w} \subseteq wlist'[lt]
  BY <1>0, <1>6
<1> QED BY <1>4, <1>6, <1>12, <1>13 DEF lt

LEMMA VisitLongLive ==
    ASSUME LiveInv, NEW w \in todo, VisitLong(w), UNCHANGED pbVars, OnlyPropagates
    PROVE  LiveInv'
<1> DEFINE p == Swapped(w[1], Negation(trail[ptr]))
<1>1. /\ UNCHANGED <<clauses, pbs, problem, wlistBin, wlistPb, visiting, pos, ptr, lvl>>
      /\ UNCHANGED <<lit, pending, met, metLvl, lits, nbLvl, walk, assumptions, cut, cutPtr, ret>>
      /\ pc = "visit" /\ todoBin = {}
  BY DEF VisitLong, watchVars, pbVars, OnlyPropagates, learnVars, ctlVars, cutVars, pbCtlVars
<1>2. /\ KeepsAll /\ DatabaseOK' /\ Solutions' = Solutions /\ ClauseIds' = ClauseIds
  BY <1>1, SameDatabase DEF LiveInv
<1>3. PBTypeOK
  BY DEF LiveInv
<1>4. PICK r \in ClauseIds \ DOMAIN pbs, l \in Lits :
        /\ r = w[1] /\ l = p[1] /\ clauses[r] \in Clauses
        /\ l \in clauses[r] /\ Negation(trail[ptr]) \in clauses[r]
        /\ IsFalse(Negation(trail[ptr]))
        /\ \A k \in clauses[r] : k \in Free(r) \/ k = l \/ IsFalse(k)
  <2>1. /\ w[1] \in ClauseIds \ DOMAIN pbs /\ p[1] \in Lits /\ clauses[w[1]] \in Clauses
        /\ p[1] \in clauses[w[1]] /\ Negation(trail[ptr]) \in clauses[w[1]]
        /\ IsFalse(Negation(trail[ptr]))
        /\ p[2] = Negation(trail[ptr])
        /\ {p[1], p[2]} = {watched[w[1]][1], watched[w[1]][2]}
    BY <1>1, LongVisited
  <2>2. \A k \in clauses[w[1]] : k \in Free(w[1]) \/ k = p[1] \/ IsFalse(k)
    BY <2>1 DEF Free
  <2> QED BY <2>1, <2>2
<1>5. ASSUME UNCHANGED <<model, trail, reason, polarity, queue, pc, todoBin>>,
             todo' = todo \ {w}, PBListsInv',
             watched' \in Seq(Lits \X Lits), Len(watched') = Len(watched),
             wlist' \in [Lits -> SUBSET Watchers], todo \ {w} \subseteq wlist'[trail[ptr]]
      PROVE  LiveInv'
  <2>1. PBTypeOK'
    BY <1>1, <1>2, <1>3, <1>5 DEF PBTypeOK, Watchers
  <2>2. /\ BindingsOK' /\ PBUnifyInv' /\ PBLearnInv' /\ CutInv' /\ PBLevelsInv'
        /\ \A i \in DOMAIN trail' : i >= ptr' => Level(VarOf(trail[i]))' = lvl'
    BY <1>1, <1>2, <1>5, PropagateGoesOn
  <2>3. PBVisitInv'
    BY <1>1, <1>5, <2>2 DEF LiveInv, PBVisitInv
  <2> QED BY <1>2, <1>5, <2>1, <2>2, <2>3 DEF LiveInv
<1>6. CASE LitStatus(w[2]) = "Sat"
  <2>1. /\ UNCHANGED <<model, trail, reason, polarity, queue, pc, todoBin, watched, wlist>>
        /\ todo' = todo \ {w}
    BY <1>6 DEF VisitLong, bindingVars, watchVars
  <2>2. PBListsInv'
    BY <1>1, <2>1, SameLists DEF LiveInv
  <2>3. todo \ {w} \subseteq wlist'[trail[ptr]] /\ wlist' \in [Lits -> SUBSET Watchers]
    BY <1>1, <2>1 DEF LiveInv, PBVisitInv, PBTypeOK
  <2> QED BY <1>3, <1>5, <2>1, <2>2, <2>3 DEF PBTypeOK
<1>7. CASE LitStatus(w[2]) # "Sat" /\ LitStatus(p[1]) = "Sat"
  <2>1. /\ UNCHANGED <<model, trail, reason, polarity, queue, pc, todoBin>>
        /\ todo' = todo \ {w} /\ KeepWatcher(w, trail[ptr], p)
    BY <1>7 DEF VisitLong, bindingVars
  <2> QED BY <1>1, <1>5, <2>1, WatcherKept
<1>8. CASE LitStatus(w[2]) # "Sat" /\ LitStatus(p[1]) # "Sat" /\ Free(w[1]) # {}
  <2>1. /\ UNCHANGED <<model, trail, reason, polarity, queue, pc, todoBin>>
        /\ todo' = todo \ {w} /\ \E k \in Free(w[1]) : MoveWatcher(w, trail[ptr], p, k)
    BY <1>8 DEF VisitLong, bindingVars
  <2> QED BY <1>1, <1>5, <2>1, WatcherMoved
<1>9. CASE LitStatus(w[2]) # "Sat" /\ LitStatus(p[1]) # "Sat" /\ Free(w[1]) = {}
  <2>1. KeepWatcher(w, trail[ptr], p)
    BY <1>9 DEF VisitLong
  <2>2. /\ PBListsInv'
        /\ watched' \in Seq(Lits \X Lits) /\ Len(watched') = Len(watched)
        /\ wlist' \in [Lits -> SUBSET Watchers] /\ todo \ {w} \subseteq wlist'[trail[ptr]]
    BY <1>1, <2>1, WatcherKept
  <2>3. \A k \in clauses[r] \ {l} : IsFalse(k)
    BY <1>4, <1>9
  <2>4. CASE IsFalse(l)
    <3>1. /\ UNCHANGED <<model, trail, reason, polarity, queue>>
          /\ confl' = r /\ pc' = "conflict" /\ todoBin' = {} /\ todo' = {}
      BY <1>4, <1>9, <2>4 DEF VisitLong, ReturnConflict, bindingVars
    <3>2. PBTypeOK'
      BY <1>1, <1>2, <1>3, <2>2, <3>1 DEF PBTypeOK, Watchers
    <3>3. ~ Enough({k \in Lits : ~ IsFalse(k)}, r)
      BY <1>4, <2>3, <2>4, ClauseImplies
    <3>4. BindingsOK' /\ PBUnifyInv' /\ PBLearnInv' /\ CutInv' /\ PBLevelsInv' /\ PBVisitInv'
      BY <1>1, <1>4, <3>1, <3>3, PropagateFails
    <3> QED BY <1>2, <2>2, <3>2, <3>4 DEF LiveInv
  <2>5. CASE ~ IsFalse(l)
    <3>1. /\ Imply(r, l) /\ todo' = todo \ {w} /\ UNCHANGED <<polarity, queue, pc, todoBin>>
      BY <1>4, <1>9, <2>5 DEF VisitLong
    <3>2. model[VarOf(l)] = 0
      <4>1. LitStatus(l) = "Indet"
        BY <1>4, <1>9, <2>5 DEF IsFalse, LitStatus
      <4> QED BY <1>3, <4>1, StatusFacts DEF PBTypeOK
    <3>3. /\ BindsAll(<<l>>, r) /\ <<l>> \in Seq(Lits) /\ DOMAIN <<l>> = {1} /\ <<l>>[1] = l
          /\ model' \in [Vars -> Int] /\ reason' \in [Vars -> {Nil} \union ClauseIds]
      BY <1>3, <3>1, ImplyBinds
    <3>4. ImpliedBy(r, l, {k \in Lits : IsFalse(k)})
      BY <1>4, <2>3, ClauseImplies
    <3>5. /\ BindingsOK' /\ trail' \in Seq(Lits)
          /\ PBUnifyInv' /\ PBLearnInv' /\ CutInv' /\ PBLevelsInv'
          /\ ptr \in DOMAIN trail' /\ trail'[ptr] = trail[ptr]
          /\ \A i \in DOMAIN trail' : i >= ptr => Level(VarOf(trail[i]))' = lvl
      BY <1>1, <3>1, <3>2, <3>3, <3>4, PropagateBinds
    <3>6. PBTypeOK'
      BY <1>1, <1>2, <1>3, <2>2, <3>1, <3>3, <3>5 DEF PBTypeOK, Watchers
    <3>7. PBVisitInv'
      BY <1>1, <2>2, <3>1, <3>5 DEF LiveInv, PBVisitInv
    <3> QED BY <1>2, <2>2, <3>5, <3>6, <3>7 DEF LiveInv
  <2> QED BY <2>4, <2>5
<1> QED BY <1>6, <1>7, <1>8, <1>9

-----------------------------------------------------------------------------
(* The lists of constraints.                                               *)

LEMMA OverwrittenFacts ==
    ASSUME NEW D, NEW array \in Seq(D), NEW lst \in Seq(D), NEW c
    PROVE  /\ Overwritten(array, lst, c) \in Seq(D)
           /\ Range(Overwritten(array, lst, c)) \subseteq Range(array) \union Range(lst)
           /\ DOMAIN Overwritten(array, lst, c) = DOMAIN array
<1> DEFINE m == FirstAt(lst, c)
           t == Overwritten(array, lst, c)
           last == lst[Len(lst)]
<1>1. /\ DOMAIN array = 1 .. Len(array) /\ Len(array) \in Nat
      /\ DOMAIN lst = 1 .. Len(lst) /\ Len(lst) \in Nat
      /\ \A k \in DOMAIN array : array[k] \in D
      /\ \A k \in DOMAIN lst : lst[k] \in D
  OBVIOUS
<1>2. t = [array EXCEPT ![m] = last]
  BY DEF Overwritten
<1>3. m \in DOMAIN array => Len(lst) \in DOMAIN lst
  <2> DEFINE I == {i \in 1 .. Len(lst) : lst[i] = c}
  <2>1. m = IF I # {} THEN Min(I) ELSE 0
    BY DEF FirstAt, SelectInSeq
  <2>2. CASE I = {}
    BY <1>1, <2>1, <2>2
  <2>3. CASE I # {}
    BY <1>1, <2>3
  <2> QED BY <2>2, <2>3
<1> HIDE DEF m, t, last
<1>4. /\ DOMAIN t = DOMAIN array
      /\ \A k \in DOMAIN array : t[k] = IF k = m THEN last ELSE array[k]
  BY <1>2
<1>5. m \in DOMAIN array => last \in Range(lst) /\ last \in D
  BY <1>1, <1>3 DEF last, Range
<1>6. \A k \in DOMAIN array : t[k] \in D
  BY <1>1, <1>4, <1>5
<1>7. t \in Seq(D)
  BY <1>1, <1>4, <1>6, <1>2, FunctionIsSeq
<1>8. Range(t) \subseteq Range(array) \union Range(lst)
  BY <1>4, <1>5 DEF Range
<1> QED BY <1>4, <1>7, <1>8 DEF t

LEMMA RemoveFromFacts ==
    ASSUME NEW D, NEW lst \in Seq(D), NEW c
    PROVE  RemoveFrom(lst, c) \in Seq(D) /\ Range(RemoveFrom(lst, c)) \subseteq Range(lst)
<1> DEFINE t == Overwritten(lst, lst, c)
           s == RemoveFrom(lst, c)
<1>1. t \in Seq(D) /\ Range(t) \subseteq Range(lst)
  BY OverwrittenFacts
<1>2. s = SubSeq(t, 1, Len(t) - 1)
  BY DEF RemoveFrom, Front
<1> HIDE DEF t, s
<1>3. Len(t) \in Nat /\ DOMAIN t = 1 .. Len(t) /\ \A k \in 1 .. Len(t) : t[k] \in D
  BY <1>1
<1>4. s \in Seq(D) /\ \A k \in DOMAIN s : k \in DOMAIN t /\ s[k] = t[k]
  <2>1. CASE Len(t) = 0
    BY <1>2, <1>3, <2>1
  <2>2. CASE Len(t) > 0
    BY <1>1, <1>2, <1>3, <2>2, SubSeqProperties
  <2> QED BY <1>3, <2>1, <2>2
<1>5. Range(s) \subseteq Range(t)
  BY <1>4 DEF Range
<1> QED BY <1>1, <1>4, <1>5 DEF s

LEMMA AppendRange ==
    ASSUME NEW D, NEW lst \in Seq(D), NEW c \in D
    PROVE  Append(lst, c) \in Seq(D) /\ Range(Append(lst, c)) \subseteq Range(lst) \union {c}
<1>1. /\ Append(lst, c) \in Seq(D) /\ DOMAIN lst = 1 .. Len(lst)
      /\ DOMAIN Append(lst, c) = 1 .. Len(lst) + 1 /\ Len(lst) \in Nat
      /\ \A k \in 1 .. Len(lst) + 1 : Append(lst, c)[k] = IF k = Len(lst) + 1 THEN c ELSE lst[k]
  BY AppendProperties
<1>2. \A k \in 1 .. Len(lst) + 1 : k \in 1 .. Len(lst) \/ k = Len(lst) + 1
  BY <1>1
<1> QED BY <1>1, <1>2 DEF Range

\* A visit changes where a constraint is watched, not what the lists are of.
LEMMA RewatchKeeps ==
    ASSUME LiveInv, pc = "pb", NEW c \in DOMAIN pbs, NEW off, NEW on, on \subseteq clauses[c],
           Rewatch(c, off, on), DOMAIN pbs' = DOMAIN pbs,
           UNCHANGED <<clauses, trail, ptr, watched, wlist, wlistBin>>
    PROVE  /\ PBListsInv' /\ wlistPb' \in [Lits -> Seq(DOMAIN pbs)] /\ visiting' \in Seq(DOMAIN pbs)
           /\ \A d \in Range(visiting') : Negation(trail[ptr]) \in clauses[d]
<1>1. /\ wlistPb \in [Lits -> Seq(DOMAIN pbs)] /\ visiting \in Seq(DOMAIN pbs)
      /\ \A l \in Lits : \A d \in Range(wlistPb[l]) : Negation(l) \in clauses[d]
      /\ \A d \in Range(visiting) : Negation(trail[ptr]) \in clauses[d]
  BY DEF LiveInv, PBTypeOK, PBListsInv, PBVisitInv
<1>2. trail[ptr] \in Lits
  BY AtHand
<1>3. ASSUME NEW l \in Lits
      PROVE  wlistPb'[l] \in Seq(DOMAIN pbs) /\ \A d \in Range(wlistPb'[l]) : Negation(l) \in clauses[d]
  <2>1. wlistPb[l] \in Seq(DOMAIN pbs)
    BY <1>1
  <2>2. wlistPb'[l] = IF Negation(l) \in off THEN RemoveFrom(wlistPb[l], c)
                      ELSE IF Negation(l) \in on THEN Append(wlistPb[l], c) ELSE wlistPb[l]
    BY DEF Rewatch
  <2>3. CASE Negation(l) \in off
    BY <1>1, <2>1, <2>2, <2>3, RemoveFromFacts
  <2>4. CASE Negation(l) \notin off /\ Negation(l) \in on
    <3>1. Negation(l) \in clauses[c]
      BY <2>4
    <3>2. wlistPb'[l] = Append(wlistPb[l], c)
      BY <2>2, <2>4
    <3> QED BY <1>1, <2>1, <3>1, <3>2, AppendRange
  <2>5. CASE Negation(l) \notin off /\ Negation(l) \notin on
    BY <1>1, <2>1, <2>2, <2>5
  <2> QED BY <2>3, <2>4, <2>5
<1>4. wlistPb' \in [Lits -> Seq(DOMAIN pbs)]
  BY <1>3 DEF Rewatch
<1>5. visiting' \in Seq(DOMAIN pbs) /\ \A d \in Range(visiting') : Negation(trail[ptr]) \in clauses[d]
  <2>1. wlistPb[trail[ptr]] \in Seq(DOMAIN pbs)
    BY <1>1, <1>2
  <2>2. \A d \in Range(wlistPb[trail[ptr]]) : Negation(trail[ptr]) \in clauses[d]
    BY <1>1, <1>2
  <2>3. visiting' = IF Negation(trail[ptr]) \in off
                    THEN Overwritten(visiting, wlistPb[trail[ptr]], c) ELSE visiting
    BY DEF Rewatch
  <2> QED BY <1>1, <2>1, <2>2, <2>3, OverwrittenFacts
<1>6. PBListsInv'
  <2>1. ClauseIds' = ClauseIds
    BY DEF ClauseIds
  <2>2. \A l \in Lits : \A d \in Range(wlistPb'[l]) : Negation(l) \in clauses'[d]
    BY <1>3
  <2> QED BY <2>1, <2>2 DEF LiveInv, PBListsInv
<1> QED BY <1>4, <1>5, <1>6

-----------------------------------------------------------------------------
(* Visiting a constraint.                                                  *)

LEMMA PbFacts ==
    ASSUME LiveInv, NEW c \in DOMAIN pbs
    PROVE  /\ WellMade(pbs[c]) /\ clauses[c] = Range(pbs[c].lits) /\ c \in ClauseIds
           /\ Idx(c) = DOMAIN pbs[c].lits /\ Idx(c) = 1 .. Len(pbs[c].lits)
           /\ Len(pbs[c].lits) \in Nat /\ IsFiniteSet(Idx(c))
           /\ pbs[c].card \in Nat \ {0}
           /\ \A i \in Idx(c) : /\ LitAt(c, i) \in Lits /\ LitAt(c, i) \in clauses[c]
                                /\ VarOf(LitAt(c, i)) \in Vars
                                /\ pbs[c].weights[i] \in Nat \ {0}
           /\ \A i, j \in Idx(c) : VarOf(LitAt(c, i)) = VarOf(LitAt(c, j)) => i = j
           /\ TrueIdx(c) \subseteq NonFalse(c) /\ NonFalse(c) \subseteq Idx(c)
           /\ UnboundIdx(c) \subseteq NonFalse(c)
           /\ NonFalse(c) = {i \in Idx(c) : ~ IsFalse(LitAt(c, i))}
           /\ \A I \in SUBSET Idx(c) : IsFiniteSet(I) /\ Weight(c, I) \in Nat
<1>1. WellMade(pbs[c]) /\ clauses[c] = Range(pbs[c].lits) /\ c \in ClauseIds
  BY DEF LiveInv, DatabaseOK, PBTypeOK, WellMade
<1>2. /\ Idx(c) = DOMAIN pbs[c].lits /\ Idx(c) = 1 .. Len(pbs[c].lits)
      /\ Len(pbs[c].lits) \in Nat /\ IsFiniteSet(Idx(c))
      /\ pbs[c].card \in Nat \ {0}
      /\ \A i \in Idx(c) : LitAt(c, i) \in Lits /\ pbs[c].weights[i] \in Nat \ {0}
  BY <1>1, WellMadeFacts DEF Idx, LitAt
<1>3. \A i \in Idx(c) : LitAt(c, i) \in clauses[c]
  BY <1>1 DEF Idx, LitAt, Range
<1>4. \A i, j \in Idx(c) : VarOf(LitAt(c, i)) = VarOf(LitAt(c, j)) => i = j
  BY <1>1 DEF WellMade, Idx, LitAt
<1>5. /\ TrueIdx(c) \subseteq NonFalse(c) /\ NonFalse(c) \subseteq Idx(c)
      /\ UnboundIdx(c) \subseteq NonFalse(c)
      /\ NonFalse(c) = {i \in Idx(c) : ~ IsFalse(LitAt(c, i))}
  <2>1. \A i \in Idx(c) : LitStatus(LitAt(c, i)) \in {"Indet", "Sat", "Unsat"}
    BY DEF LitStatus
  <2> QED BY <2>1 DEF NonFalse, TrueIdx, UnboundIdx, IsFalse
<1>6. \A I \in SUBSET Idx(c) : IsFiniteSet(I) /\ Weight(c, I) \in Nat
  <2> SUFFICES ASSUME NEW I \in SUBSET Idx(c) PROVE IsFiniteSet(I) /\ Weight(c, I) \in Nat
    OBVIOUS
  <2>1. IsFiniteSet(I)
    BY <1>2, FS_Subset
  <2>2. \A i \in I : pbs[c].weights[i] \in Nat
    BY <1>2
  <2> QED BY <2>1, <2>2, SumFinite DEF Weight
<1>7. \A i \in Idx(c) : VarOf(LitAt(c, i)) \in Vars
  BY <1>2, LitFacts
<1> QED BY <1>1, <1>2, <1>3, <1>4, <1>5, <1>6, <1>7

\* The literals without which the others are not enough are implied.
LEMMA TooHeavyImplied ==
    ASSUME LiveInv, NEW c \in DOMAIN pbs, NEW i \in UnboundIdx(c), pbs[c].weights[i] > Slack(c)
    PROVE  ImpliedBy(c, LitAt(c, i), {l \in Lits : IsFalse(l)})
<1> DEFINE N == NonFalse(c)
           T == Lits \ ({l \in Lits : IsFalse(l)} \union {LitAt(c, i)})
           w == pbs[c].weights
<1>1. /\ i \in N /\ i \in Idx(c) /\ LitAt(c, i) \in clauses[c] /\ N \subseteq Idx(c)
      /\ N = {k \in Idx(c) : ~ IsFalse(LitAt(c, k))}
      /\ IsFiniteSet(N) /\ \A k \in N : w[k] \in Nat
      /\ pbs[c].card \in Nat
      /\ \A k \in Idx(c) : LitAt(c, k) \in Lits
      /\ \A k, j \in Idx(c) : VarOf(LitAt(c, k)) = VarOf(LitAt(c, j)) => k = j
  BY PbFacts
<1>2. {k \in Idx(c) : LitAt(c, k) \in T} = N \ {i}
  BY <1>1
<1> HIDE DEF N, w
<1>3. SumOf(w, N) = w[i] + SumOf(w, N \ {i}) /\ SumOf(w, N \ {i}) \in Nat /\ w[i] \in Nat
  BY <1>1, SumTerm
<1>4. w[i] > SumOf(w, N) - pbs[c].card
  BY DEF Slack, Weight, N, w
<1>5. ~ (SumOf(w, N \ {i}) >= pbs[c].card)
  BY <1>1, <1>3, <1>4
<1>6. ~ Enough(T, c)
  BY <1>2, <1>5 DEF Enough, Weight, w
<1> QED BY <1>1, <1>6 DEF ImpliedBy

\* Without slack the constraint is false.
LEMMA NoSlackFalse ==
    ASSUME LiveInv, NEW c \in DOMAIN pbs, Slack(c) < 0
    PROVE  ~ Enough({l \in Lits : ~ IsFalse(l)}, c)
<1>1. {k \in Idx(c) : LitAt(c, k) \in {l \in Lits : ~ IsFalse(l)}} = NonFalse(c)
  BY PbFacts
<1>2. Weight(c, NonFalse(c)) \in Nat /\ pbs[c].card \in Nat
  BY PbFacts
<1>3. ~ (Weight(c, NonFalse(c)) >= pbs[c].card)
  BY <1>2 DEF Slack
<1> QED BY <1>1, <1>3 DEF Enough

\* Binds some of the unbound literals of c because of it.
BindsOf(c, I) ==
    \E s \in Seq(Lits) :
        /\ BindsAll(s, c)
        /\ \A j \in DOMAIN s : \E i \in I : s[j] = LitAt(c, i)
        /\ \A j \in DOMAIN s : model[VarOf(s[j])] = 0
        /\ \A i, j \in DOMAIN s : VarOf(s[i]) = VarOf(s[j]) => i = j

\* propagateUnit on unbound literals.
LEMMA BindAllBinds ==
    ASSUME LiveInv, pc = "pb", NEW c \in DOMAIN pbs, NEW I, I \subseteq UnboundIdx(c), BindAll(c, I)
    PROVE  /\ BindsOf(c, I)
           /\ model' \in [Vars -> Int] /\ reason' \in [Vars -> {Nil} \union ClauseIds]
<1> DEFINE m == Cardinality(I)
           s == [k \in 1 .. m |-> LitAt(c, Nth(I, k))]
<1>1. /\ c \in ClauseIds
      /\ I \subseteq 1 .. Len(pbs[c].lits) /\ Len(pbs[c].lits) \in Nat
      /\ \A i \in I : /\ LitAt(c, i) \in Lits /\ VarOf(LitAt(c, i)) \in Vars
                      /\ model[VarOf(LitAt(c, i))] = 0
      /\ \A i, j \in I : VarOf(LitAt(c, i)) = VarOf(LitAt(c, j)) => i = j
  <2>1. \A i \in I : i \in Idx(c) /\ LitStatus(LitAt(c, i)) = "Indet"
    BY DEF UnboundIdx
  <2>2. model \in [Vars -> Int]
    BY DEF LiveInv, PBTypeOK
  <2> QED BY <2>1, <2>2, PbFacts, StatusFacts
<1>2. /\ m \in Nat /\ \A k \in 1 .. m : Nth(I, k) \in I
      /\ \A j, k \in 1 .. m : Nth(I, j) = Nth(I, k) => j = k
      /\ \A i \in I : \E k \in 1 .. m : Nth(I, k) = i
  <2>1. PICK n \in Nat : I \subseteq 1 .. n
    BY <1>1
  <2>2. IsFiniteSet(I) /\ m \in Nat
    BY <2>1, NthFacts
  <2>3. \A k \in 1 .. m : Nth(I, k) \in I
    BY <2>1, NthFacts, Zenon
  <2>4. \A j, k \in 1 .. m : Nth(I, j) = Nth(I, k) => j = k
    BY <2>1, NthFacts, Zenon
  <2>5. ASSUME NEW i \in I
        PROVE  \E k \in 1 .. m : Nth(I, k) = i
    <3>1. /\ Cardinality({j \in I : j <= i}) \in 1 .. Cardinality(I)
          /\ Nth(I, Cardinality({j \in I : j <= i})) = i
      BY <2>1, NthFacts, Zenon
    <3> QED BY <3>1
  <2> QED BY <2>2, <2>3, <2>4, <2>5
<1>3. s \in Seq(Lits) /\ DOMAIN s = 1 .. m
  <2>1. \A k \in 1 .. m : LitAt(c, Nth(I, k)) \in Lits
    BY <1>1, <1>2
  <2> HIDE DEF m
  <2> QED BY <1>2, <2>1
<1>4. \A j \in 1 .. m : /\ s[j] = LitAt(c, Nth(I, j)) /\ s[j] \in Lits /\ VarOf(s[j]) \in Vars
                        /\ model[VarOf(s[j])] = 0 /\ Nth(I, j) \in I
  BY <1>1, <1>2
<1>5. \A i, j \in 1 .. m : VarOf(s[i]) = VarOf(s[j]) => i = j
  BY <1>1, <1>2, <1>4
<1>6. \A i \in I : \E k \in 1 .. m : s[k] = LitAt(c, i)
  BY <1>2
<1>7. trail' = trail \o s
  BY DEF BindAll
<1> HIDE DEF s, m
<1>8. LitsAt(c, I) = {s[k] : k \in 1 .. m}
  BY <1>4, <1>6 DEF LitsAt
<1>9. /\ lvl \in Int /\ model \in [Vars -> Int] /\ reason \in [Vars -> {Nil} \union ClauseIds]
  BY DEF LiveInv, PBTypeOK
<1>10. \A v \in Vars :
        /\ reason'[v] = IF v \in VarsOf(LitsAt(c, I)) THEN c ELSE reason[v]
        /\ model'[v] = IF SignedLit(v, FALSE) \in LitsAt(c, I) THEN lvl
                       ELSE IF SignedLit(v, TRUE) \in LitsAt(c, I) THEN -lvl ELSE model[v]
  BY DEF BindAll
<1>11. ASSUME NEW j \in 1 .. m
       PROVE  model'[VarOf(s[j])] = LvlToSignedLvl(s[j], lvl) /\ reason'[VarOf(s[j])] = c
  <2> DEFINE v == VarOf(s[j])
  <2>1. s[j] \in LitsAt(c, I) /\ v \in Vars /\ s[j] \in Lits
    BY <1>4, <1>8
  <2>2. v \in VarsOf(LitsAt(c, I))
    BY <2>1 DEF VarsOf
  <2>3. \A k \in LitsAt(c, I) : VarOf(k) = v => k = s[j]
    BY <1>5, <1>8
  <2>4. /\ VarOf(SignedLit(v, FALSE)) = v /\ VarOf(SignedLit(v, TRUE)) = v
        /\ IsPositive(SignedLit(v, FALSE)) /\ ~ IsPositive(SignedLit(v, TRUE))
        /\ SignedLit(v, FALSE) \in Lits /\ SignedLit(v, TRUE) \in Lits
    BY <2>1, SignedLitFacts
  <2>5. CASE IsPositive(s[j])
    <3>1. SignedLit(v, FALSE) = s[j]
      BY <2>1, <2>4, <2>5, SameVar
    <3> QED BY <1>10, <2>1, <2>2, <2>5, <3>1 DEF LvlToSignedLvl
  <2>6. CASE ~ IsPositive(s[j])
    <3>1. SignedLit(v, TRUE) = s[j] /\ SignedLit(v, FALSE) \notin LitsAt(c, I)
      BY <2>1, <2>3, <2>4, <2>6, SameVar
    <3> QED BY <1>10, <2>1, <2>2, <2>6, <3>1 DEF LvlToSignedLvl
  <2> QED BY <2>5, <2>6
<1>12. ASSUME NEW v \in Vars, \A j \in 1 .. m : VarOf(s[j]) # v
       PROVE  model'[v] = model[v] /\ reason'[v] = reason[v]
  <2>1. \A k \in LitsAt(c, I) : VarOf(k) # v
    BY <1>8, <1>12
  <2>2. SignedLit(v, FALSE) \notin LitsAt(c, I) /\ SignedLit(v, TRUE) \notin LitsAt(c, I)
    BY <2>1, SignedLitFacts
  <2>3. v \notin VarsOf(LitsAt(c, I))
    BY <2>1 DEF VarsOf
  <2> QED BY <1>10, <2>2, <2>3
<1>13. BindsAll(s, c)
  BY <1>3, <1>7, <1>11, <1>12 DEF BindsAll
<1>14. model' \in [Vars -> Int]
  <2>1. -lvl \in Int
    BY <1>9
  <2> QED BY <1>9, <2>1 DEF BindAll
<1>15. reason' \in [Vars -> {Nil} \union ClauseIds]
  BY <1>1, <1>9 DEF BindAll
<1>16. BindsOf(c, I)
  <2>1. s \in Seq(Lits) /\ DOMAIN s = 1 .. m
    BY <1>3
  <2>2. \A j \in DOMAIN s : \E i \in I : s[j] = LitAt(c, i)
    BY <1>4, <2>1
  <2>3. \A j \in DOMAIN s : model[VarOf(s[j])] = 0
    BY <1>4, <2>1
  <2> QED BY <1>5, <1>13, <2>1, <2>2, <2>3 DEF BindsOf
<1> QED BY <1>14, <1>15, <1>16

\* The constraint being visited has the literal at hand.
LEMMA AtConstraint ==
    ASSUME LiveInv, pc = "pb", pos <= Len(visiting)
    PROVE  /\ Visited \in DOMAIN pbs /\ Negation(trail[ptr]) \in clauses[Visited]
           /\ pos + 1 \in Nat \ {0}
<1>1. visiting \in Seq(DOMAIN pbs) /\ pos \in Nat \ {0}
  BY DEF LiveInv, PBTypeOK
<1>2. pos \in DOMAIN visiting
  BY <1>1
<1>3. Visited \in DOMAIN pbs /\ Visited \in Range(visiting)
  BY <1>1, <1>2 DEF Visited, Range
<1>4. \A c \in Range(visiting) : Negation(trail[ptr]) \in clauses[c]
  BY DEF LiveInv, PBVisitInv
<1> QED BY <1>1, <1>3, <1>4

\* What it implies is bound.
LEMMA ConstraintBinds ==
    ASSUME LiveInv, pc = "pb", OnlyPropagates, VisitKeeps,
           NEW c \in DOMAIN pbs, NEW I, I \subseteq UnboundIdx(c), BindAll(c, I),
           \A i \in I : pbs[c].weights[i] > Slack(c),
           UNCHANGED <<pbs, wlistPb, visiting, confl, pc>>, pos' \in Nat \ {0}
    PROVE  LiveInv'
<1>1. /\ UNCHANGED <<clauses, pbs, problem, watched, wlistBin, wlist, wlistPb, todoBin, todo, lit,
                     pending, met, metLvl, lits, nbLvl, walk, assumptions, cut, cutPtr, ptr, lvl,
                     visiting, polarity, queue>>
      /\ pc' = "pb" /\ pc \in {"visit", "pb"} /\ pc' \in {"visit", "pb"}
  BY DEF VisitKeeps, BindAll, OnlyPropagates, dbVars, learnVars, ctlVars, cutVars, pbCtlVars
<1>2. c \in ClauseIds
  BY PbFacts
<1>3. model' \in [Vars -> Int] /\ reason' \in [Vars -> {Nil} \union ClauseIds] /\ BindsOf(c, I)
  BY BindAllBinds
<1>3a. PICK s \in Seq(Lits) :
        /\ BindsAll(s, c)
        /\ \A j \in DOMAIN s : \E i \in I : s[j] = LitAt(c, i)
        /\ \A j \in DOMAIN s : model[VarOf(s[j])] = 0
        /\ \A i, j \in DOMAIN s : VarOf(s[i]) = VarOf(s[j]) => i = j
  BY <1>3 DEF BindsOf
<1>4. \A j \in DOMAIN s : ImpliedBy(c, s[j], {l \in Lits : IsFalse(l)})
  <2>1. \A i \in I : ImpliedBy(c, LitAt(c, i), {l \in Lits : IsFalse(l)})
    BY TooHeavyImplied
  <2> QED BY <1>3a, <2>1
<1>5. /\ BindingsOK' /\ DatabaseOK' /\ trail' \in Seq(Lits)
      /\ PBUnifyInv' /\ PBLearnInv' /\ CutInv' /\ PBLevelsInv'
      /\ ptr \in DOMAIN trail' /\ trail'[ptr] = trail[ptr]
      /\ \A i \in DOMAIN trail' : i >= ptr => Level(VarOf(trail[i]))' = lvl
  BY <1>1, <1>2, <1>3a, <1>4, PropagateBinds
<1>6. PBTypeOK'
  BY <1>1, <1>3, <1>5 DEF LiveInv, PBTypeOK, Watchers, ClauseIds
<1>7. PBListsInv'
  BY <1>1 DEF LiveInv, PBListsInv, ClauseIds
<1>8. PBVisitInv'
  <2>1. \A d \in Range(visiting) : Negation(trail[ptr]) \in clauses[d]
    BY DEF LiveInv, PBVisitInv
  <2> QED BY <1>1, <1>5, <2>1 DEF PBVisitInv
<1> QED BY <1>5, <1>6, <1>7, <1>8 DEF LiveInv

\* Nothing is bound; it may be watched elsewhere.
LEMMA ConstraintKept ==
    ASSUME LiveInv, pc = "pb", pc' = "pb", OnlyPropagates, VisitKeeps, UNCHANGED bindingVars,
           KeepsAll, DatabaseOK', PBListsInv', Solutions' = Solutions,
           DOMAIN pbs' = DOMAIN pbs, pbs' \in [DOMAIN pbs -> Constraints],
           wlistPb' \in [Lits -> Seq(DOMAIN pbs)], visiting' \in Seq(DOMAIN pbs),
           \A d \in Range(visiting') : Negation(trail[ptr]) \in clauses[d], pos' \in Nat \ {0}
    PROVE  LiveInv'
<1>1. /\ UNCHANGED <<clauses, watched, wlistBin, wlist, todoBin, todo, lit,
                     pending, met, metLvl, lits, nbLvl, walk, assumptions, cut, cutPtr, ptr, lvl,
                     model, trail, reason, polarity, queue>>
      /\ pc \in {"visit", "pb"} /\ pc' \in {"visit", "pb"}
  BY DEF VisitKeeps, OnlyPropagates, bindingVars, dbVars, learnVars, ctlVars, cutVars, pbCtlVars
<1>2. /\ BindingsOK'
      /\ PBUnifyInv' /\ PBLearnInv' /\ CutInv' /\ PBLevelsInv'
      /\ \A i \in DOMAIN trail' : i >= ptr' => Level(VarOf(trail[i]))' = lvl'
  BY <1>1, PropagateGoesOn
<1>3. PBTypeOK'
  BY <1>1 DEF LiveInv, PBTypeOK, Watchers, ClauseIds
<1>4. PBVisitInv'
  <2>1. ptr \in DOMAIN trail
    BY AtHand
  <2> QED BY <1>1, <1>2, <2>1 DEF PBVisitInv
<1> QED BY <1>2, <1>3, <1>4 DEF LiveInv

\* It is false.
LEMMA ConstraintFails ==
    ASSUME LiveInv, pc = "pb", OnlyPropagates, VisitKeeps, pos <= Len(visiting),
           FalsifiedConstraint(Visited), Slack(Visited) < 0
    PROVE  LiveInv'
<1>1. /\ UNCHANGED <<clauses, pbs, problem, watched, wlistBin, wlist, wlistPb, todoBin, todo, lit,
                     pending, met, metLvl, lits, nbLvl, walk, assumptions, cut, cutPtr, ptr, lvl,
                     model, trail, reason, polarity, queue>>
      /\ visiting' = <<>> /\ pos' = 1 /\ pc' = "conflict" /\ confl' = Visited
      /\ pc \in {"visit", "pb"}
  BY DEF VisitKeeps, FalsifiedConstraint, OnlyPropagates, bindingVars, dbVars, learnVars, ctlVars,
         cutVars, pbCtlVars
<1>2. Visited \in DOMAIN pbs /\ Negation(trail[ptr]) \in clauses[Visited]
  BY AtConstraint
<1>3. Visited \in ClauseIds /\ ~ Enough({l \in Lits : ~ IsFalse(l)}, Visited)
  BY <1>2, PbFacts, NoSlackFalse
<1>4. /\ BindingsOK' /\ DatabaseOK'
      /\ PBUnifyInv' /\ PBLearnInv' /\ CutInv' /\ PBLevelsInv' /\ PBVisitInv'
  BY <1>1, <1>2, <1>3, PropagateFails
<1>5. PBTypeOK'
  <2>1. <<>> \in Seq(DOMAIN pbs) /\ 1 \in Nat \ {0}
    OBVIOUS
  <2>2. PBTypeOK
    BY DEF LiveInv
  <2> QED BY <1>1, <2>1, <2>2 DEF PBTypeOK, Watchers, ClauseIds
<1>6. PBListsInv'
  BY <1>1 DEF LiveInv, PBListsInv, ClauseIds
<1> QED BY <1>4, <1>5, <1>6 DEF LiveInv

\* A constraint may get other watched literals, or have its literals in another order.
LEMMA ConstraintRewritten ==
    ASSUME LiveInv, NEW c \in DOMAIN pbs, NEW b \in Constraints, pbs' = [pbs EXCEPT ![c] = b],
           UNCHANGED <<clauses, problem>>,
           b.card = pbs[c].card, b.weights = pbs[c].weights, b.pb = pbs[c].pb,
           Len(b.lits) = Len(pbs[c].lits), Range(b.lits) = Range(pbs[c].lits),
           \A i, j \in DOMAIN b.lits : VarOf(b.lits[i]) = VarOf(b.lits[j]) => i = j,
           \A T \in SUBSET Lits :
                SumOf(b.weights, {k \in DOMAIN b.lits : b.lits[k] \in T}) = Weight(c, {k \in Idx(c) : LitAt(c, k) \in T})
    PROVE  /\ KeepsAll /\ DatabaseOK' /\ Solutions' = Solutions
           /\ DOMAIN pbs' = DOMAIN pbs /\ pbs' \in [DOMAIN pbs -> Constraints]
<1>1. DOMAIN pbs' = DOMAIN pbs /\ pbs' \in [DOMAIN pbs -> Constraints]
  BY DEF LiveInv, PBTypeOK
<1>2. Solutions' = Solutions
  BY DEF Solutions, Meets
<1>3. ClauseIds' = ClauseIds
  BY DEF ClauseIds
<1>4. \A d \in DOMAIN pbs : pbs'[d] = IF d = c THEN b ELSE pbs[d]
  OBVIOUS
<1>5. \A d : \A T \in SUBSET Lits : Enough(T, d)' <=> Enough(T, d)
  <2> TAKE d
  <2> TAKE T \in SUBSET Lits
  <2>1. CASE d = c
    <3>1. d \in DOMAIN pbs /\ d \in DOMAIN pbs' /\ pbs'[d] = b
      BY <1>1, <1>4, <2>1
    <3>2. SumOf(b.weights, {k \in DOMAIN b.lits : b.lits[k] \in T}) =
            SumOf(pbs[d].weights, {k \in DOMAIN pbs[d].lits : pbs[d].lits[k] \in T})
      <4>1. /\ SumOf(b.weights, {k \in DOMAIN b.lits : b.lits[k] \in T}) =
                    Weight(c, {k \in Idx(c) : LitAt(c, k) \in T})
            /\ {k \in Idx(c) : LitAt(c, k) \in T} = {k \in DOMAIN pbs[c].lits : pbs[c].lits[k] \in T}
        BY DEF Idx, LitAt
      <4> QED BY <2>1, <4>1 DEF Weight
    <3>3. b.card = pbs[d].card
      BY <2>1
    <3>4. Enough(T, d)' <=> SumOf(b.weights, {k \in DOMAIN b.lits : b.lits[k] \in T}) >= b.card
      BY <3>1 DEF Enough, Weight, Idx, LitAt
    <3>5. Enough(T, d) <=>
            SumOf(pbs[d].weights, {k \in DOMAIN pbs[d].lits : pbs[d].lits[k] \in T}) >= pbs[d].card
      BY <3>1 DEF Enough, Weight, Idx, LitAt
    <3> QED BY <3>2, <3>3, <3>4, <3>5
  <2>2. CASE d \in DOMAIN pbs /\ d # c
    BY <1>1, <1>4, <2>2 DEF Enough, Weight, Idx, LitAt
  <2>3. CASE d \notin DOMAIN pbs
    BY <1>1, <2>3 DEF Enough
  <2> QED BY <2>1, <2>2, <2>3
<1>6. KeepsAll
  BY <1>2, <1>3, <1>5 DEF KeepsAll
<1>7. DatabaseOK'
  <2>1. ASSUME NEW d \in DOMAIN pbs
        PROVE  LET e == pbs'[d] IN
               /\ Len(e.weights) = Len(e.lits) /\ clauses[d] = Range(e.lits)
               /\ \A i, j \in DOMAIN e.lits : VarOf(e.lits[i]) = VarOf(e.lits[j]) => i = j
               /\ ~ e.pb => e.card + 1 <= Len(e.lits) /\ \A i \in DOMAIN e.weights : e.weights[i] = 1
    BY <1>4 DEF LiveInv, DatabaseOK
  <2>2. ASSUME NEW d \in ClauseIds, NEW a \in Solutions
        PROVE  Enough({l \in Lits : Holds(a, l)}, d)'
    <3>1. Enough({l \in Lits : Holds(a, l)}, d)
      BY DEF LiveInv, DatabaseOK
    <3> QED BY <3>1, <1>5
  <2> QED BY <1>1, <1>2, <1>3, <2>1, <2>2 DEF DatabaseOK
<1> QED BY <1>1, <1>2, <1>6, <1>7

\* updateWatchPB only changes where the constraint is watched.
LEMMA UpdateWatchKeeps ==
    ASSUME LiveInv, pc = "pb", pc' = "pb", OnlyPropagates, VisitKeeps, UNCHANGED bindingVars,
           NEW c \in DOMAIN pbs, UpdateWatchPB(c), pos' \in Nat \ {0}
    PROVE  LiveInv'
<1> DEFINE new == NeededUpTo(c) \intersect NonFalse(c)
           off == LitsAt(c, Watched(pbs[c]) \ new)
           on == LitsAt(c, new \ Watched(pbs[c]))
           flags == [i \in Idx(c) |-> i \in new]
           b == [pbs[c] EXCEPT !.watched = flags]
<1>1. pbs' = [pbs EXCEPT ![c] = b] /\ Rewatch(c, off, on)
  BY DEF UpdateWatchPB
<1>2. UNCHANGED <<clauses, trail, ptr, watched, wlist, wlistBin, problem>>
  BY DEF VisitKeeps, OnlyPropagates, bindingVars, dbVars, pbCtlVars
<1>3. flags \in Seq(BOOLEAN)
  <2>1. Idx(c) = 1 .. Len(pbs[c].lits) /\ Len(pbs[c].lits) \in Nat
    BY PbFacts
  <2>2. flags \in [1 .. Len(pbs[c].lits) -> BOOLEAN]
    BY <2>1
  <2> HIDE DEF flags
  <2> QED BY <2>1, <2>2, FunctionIsSeq
<1>4. b \in Constraints
  <2>1. pbs[c] \in Constraints
    BY DEF LiveInv, PBTypeOK
  <2> HIDE DEF flags
  <2> QED BY <1>3, <2>1 DEF Constraints
<1>5. /\ b.lits = pbs[c].lits /\ b.weights = pbs[c].weights /\ b.card = pbs[c].card
      /\ b.pb = pbs[c].pb
  <2>1. pbs[c] \in Constraints
    BY DEF LiveInv, PBTypeOK
  <2> HIDE DEF flags
  <2> QED BY <2>1 DEF Constraints
<1>6. on \subseteq clauses[c]
  <2>1. new \subseteq Idx(c)
    BY DEF NeededUpTo
  <2>2. \A i \in Idx(c) : LitAt(c, i) \in clauses[c]
    BY PbFacts
  <2> HIDE DEF new
  <2> QED BY <2>1, <2>2 DEF LitsAt
<1> HIDE DEF b, on, off
<1>7. \A i, j \in DOMAIN b.lits : VarOf(b.lits[i]) = VarOf(b.lits[j]) => i = j
  BY <1>5 DEF LiveInv, DatabaseOK
<1>8. \A T \in SUBSET Lits :
        SumOf(b.weights, {k \in DOMAIN b.lits : b.lits[k] \in T}) =
            Weight(c, {k \in Idx(c) : LitAt(c, k) \in T})
  BY <1>5 DEF Weight, Idx, LitAt
<1>9. /\ KeepsAll /\ DatabaseOK' /\ Solutions' = Solutions
      /\ DOMAIN pbs' = DOMAIN pbs /\ pbs' \in [DOMAIN pbs -> Constraints]
  BY <1>1, <1>2, <1>4, <1>5, <1>7, <1>8, ConstraintRewritten
<1>10. /\ PBListsInv' /\ wlistPb' \in [Lits -> Seq(DOMAIN pbs)] /\ visiting' \in Seq(DOMAIN pbs)
       /\ \A d \in Range(visiting') : Negation(trail[ptr]) \in clauses[d]
  BY <1>1, <1>2, <1>6, <1>9, RewatchKeeps
<1> QED BY <1>9, <1>10, ConstraintKept

LEMMA VisitPBLive ==
    ASSUME LiveInv, VisitPB(Visited), OnlyPropagates
    PROVE  LiveInv'
<1> DEFINE c == Visited
<1>1. /\ pc = "pb" /\ pos <= Len(visiting) /\ VisitKeeps
      /\ c \in DOMAIN pbs /\ pos + 1 \in Nat \ {0} /\ pos \in Nat \ {0}
  <2>1. pc = "pb" /\ pos <= Len(visiting) /\ VisitKeeps
    BY DEF VisitPB, Visiting
  <2> QED BY <2>1, AtConstraint DEF LiveInv, PBTypeOK
<1> HIDE DEF c
<1>2. CASE NextConstraint /\ UNCHANGED <<bindingVars, pbs, wlistPb, visiting>>
  <2>1. pc' = "pb" /\ pos' = pos + 1 /\ UNCHANGED <<bindingVars, pbs, wlistPb, visiting>>
    BY <1>1, <1>2 DEF NextConstraint
  <2>2. UNCHANGED <<clauses, watched, wlistBin, wlist, problem>>
    BY <1>1 DEF VisitKeeps, OnlyPropagates, dbVars, pbCtlVars
  <2>3. KeepsAll /\ DatabaseOK' /\ Solutions' = Solutions
    BY <2>1, <2>2, SameDatabase DEF LiveInv
  <2>4. PBListsInv'
    BY <2>1, <2>2, SameLists DEF LiveInv
  <2>5. /\ DOMAIN pbs' = DOMAIN pbs /\ pbs' \in [DOMAIN pbs -> Constraints]
        /\ wlistPb' \in [Lits -> Seq(DOMAIN pbs)] /\ visiting' \in Seq(DOMAIN pbs)
    BY <2>1 DEF LiveInv, PBTypeOK
  <2>6. \A d \in Range(visiting') : Negation(trail[ptr]) \in clauses[d]
    BY <1>1, <2>1 DEF LiveInv, PBVisitInv
  <2> QED BY <1>1, <2>1, <2>3, <2>4, <2>5, <2>6, ConstraintKept
<1>3. CASE Slack(c) < 0 /\ FalsifiedConstraint(c)
  BY <1>1, <1>3, ConstraintFails DEF c
<1>4. CASE /\ Slack(c) = 0 /\ BindAll(c, UnboundIdx(c)) /\ NextConstraint
           /\ UNCHANGED <<pbs, wlistPb, visiting>>
  <2>1. UNCHANGED <<pbs, wlistPb, visiting, confl, pc>> /\ pos' \in Nat \ {0}
    BY <1>1, <1>4 DEF NextConstraint
  <2>2. \A i \in UnboundIdx(c) : pbs[c].weights[i] > Slack(c)
    <3>1. \A i \in Idx(c) : pbs[c].weights[i] \in Nat \ {0}
      BY <1>1, PbFacts
    <3> QED BY <1>4, <3>1 DEF UnboundIdx
  <2> QED BY <1>1, <1>4, <2>1, <2>2, ConstraintBinds
<1>5. CASE BindAll(c, TooHeavy(c)) /\ UNCHANGED <<pbVars, confl, pc>>
  <2>1. UNCHANGED <<pbs, wlistPb, visiting, confl, pc>> /\ pos' \in Nat \ {0}
    BY <1>1, <1>5 DEF pbVars
  <2>2. TooHeavy(c) \subseteq UnboundIdx(c) /\ \A i \in TooHeavy(c) : pbs[c].weights[i] > Slack(c)
    BY DEF TooHeavy
  <2> QED BY <1>1, <1>5, <2>1, <2>2, ConstraintBinds
<1>6. CASE UpdateWatchPB(c) /\ NextConstraint /\ UNCHANGED bindingVars
  <2>1. pc' = "pb" /\ pos' \in Nat \ {0}
    BY <1>1, <1>6 DEF NextConstraint
  <2> QED BY <1>1, <1>6, <2>1, UpdateWatchKeeps
<1> QED BY <1>2, <1>3, <1>4, <1>5, <1>6 DEF VisitPB, c

\* What swapFalse exchanges: the false literals among those that are watched,
\* and as many of the others that are not false.
FalseWatched(c) == (1 .. pbs[c].card + 1) \ NonFalse(c)

Replacing(c) == {Nth(Others(c), k) : k \in 1 .. Cardinality(FalseWatched(c))}

SwappedAt(c, i) ==
    IF i \in FalseWatched(c)
    THEN Nth(Others(c), Cardinality({j \in FalseWatched(c) : j <= i}))
    ELSE IF i \in Replacing(c)
    THEN Nth(FalseWatched(c), Cardinality({j \in Replacing(c) : j <= i}))
    ELSE i

LEMMA SwappedFacts ==
    ASSUME LiveInv, NEW c \in DOMAIN pbs, ~ pbs[c].pb,
           ~ (Cardinality(Others(c)) < Cardinality(FalseWatched(c)))
    PROVE  /\ Replacing(c) \subseteq Idx(c)
           /\ \A i \in Idx(c) : SwappedAt(c, i) \in Idx(c) /\ SwappedAt(c, SwappedAt(c, i)) = i
<1> DEFINE n == Len(pbs[c].lits)
           F == FalseWatched(c)
           O == Others(c)
           R == Replacing(c)
           m == Cardinality(FalseWatched(c))
<1>1. /\ n \in Nat /\ Idx(c) = 1 .. n /\ NonFalse(c) \subseteq 1 .. n
      /\ pbs[c].card \in Nat /\ pbs[c].card + 1 <= n
  BY PbFacts DEF LiveInv, DatabaseOK
<1>2. F \subseteq 1 .. n /\ O \subseteq 1 .. n /\ \A i \in F, j \in O : i < j
  BY <1>1 DEF FalseWatched, Others
<1> HIDE DEF n, F, O
<1>3. /\ Cardinality(F) \in Nat /\ Cardinality(O) \in Nat
      /\ \A k \in 1 .. Cardinality(F) :
            Nth(F, k) \in F /\ Cardinality({j \in F : j <= Nth(F, k)}) = k
      /\ \A i \in F : /\ Cardinality({j \in F : j <= i}) \in 1 .. Cardinality(F)
                      /\ Nth(F, Cardinality({j \in F : j <= i})) = i
  BY <1>1, <1>2, NthFacts
<1>4. /\ \A k \in 1 .. Cardinality(O) :
            Nth(O, k) \in O /\ Cardinality({j \in O : j <= Nth(O, k)}) = k
      /\ \A i \in O : \E k \in 1 .. Cardinality(O) : Nth(O, k) = i
      /\ \A j, k \in 1 .. Cardinality(O) : j < k => Nth(O, j) < Nth(O, k)
  <2>1. \A k \in 1 .. Cardinality(O) :
            Nth(O, k) \in O /\ Cardinality({j \in O : j <= Nth(O, k)}) = k
    BY <1>1, <1>2, NthFacts
  <2>2. ASSUME NEW i \in O
        PROVE  \E k \in 1 .. Cardinality(O) : Nth(O, k) = i
    <3>1. /\ Cardinality({j \in O : j <= i}) \in 1 .. Cardinality(O)
          /\ Nth(O, Cardinality({j \in O : j <= i})) = i
      BY <1>1, <1>2, NthFacts
    <3> QED BY <3>1
  <2>3. \A j, k \in 1 .. Cardinality(O) : j < k => Nth(O, j) < Nth(O, k)
    BY <1>1, <1>2, NthFacts
  <2> QED BY <2>1, <2>2, <2>3
<1>5. m \in Nat /\ m <= Cardinality(O) /\ m = Cardinality(F)
  BY <1>3 DEF F, O
<1> HIDE DEF m
<1>6. R = {Nth(O, k) : k \in 1 .. m} /\ R \subseteq O
  <2>1. R = {Nth(O, k) : k \in 1 .. m}
    BY DEF Replacing, O, m
  <2>2. \A k \in 1 .. m : k \in 1 .. Cardinality(O)
    BY <1>3, <1>5
  <2> QED BY <1>4, <2>1, <2>2
<1> HIDE DEF R
<1>7. ASSUME NEW k \in 1 .. m
      PROVE  Cardinality({j \in R : j <= Nth(O, k)}) = k
  <2>1. k \in 1 .. Cardinality(O)
    BY <1>3, <1>5
  <2>2. ASSUME NEW j \in O, j <= Nth(O, k)
        PROVE  j \in R
    <3>1. PICK i \in 1 .. Cardinality(O) : Nth(O, i) = j
      BY <1>4
    <3>2. ~ (k < i)
      <4>1. k < i => Nth(O, k) < Nth(O, i)
        BY <1>4, <2>1
      <4>2. Nth(O, k) \in O
        BY <1>4, <2>1
      <4>3. Nth(O, k) \in Int /\ j \in Int
        <5>1. \A x \in O : x \in Int
          BY <1>2
        <5> QED BY <2>2, <4>2, <5>1
      <4> QED BY <2>2, <3>1, <4>1, <4>3
    <3>3. i \in 1 .. m
      BY <1>3, <1>5, <3>2
    <3> QED BY <1>6, <3>1, <3>3
  <2>3. {j \in R : j <= Nth(O, k)} = {j \in O : j <= Nth(O, k)}
    BY <1>6, <2>2
  <2> QED BY <1>4, <2>1, <2>3
<1>8. ASSUME NEW i \in F
      PROVE  /\ SwappedAt(c, i) \in R /\ SwappedAt(c, SwappedAt(c, i)) = i
  <2> DEFINE k == Cardinality({j \in F : j <= i})
  <2>1. k \in 1 .. m /\ Nth(F, k) = i
    BY <1>3, <1>5
  <2> HIDE DEF k
  <2>2. SwappedAt(c, i) = Nth(O, k)
    BY DEF SwappedAt, F, O, k
  <2>3. Nth(O, k) \in R
    BY <1>6, <2>1
  <2>4. Nth(O, k) \notin F
    <3>1. Nth(O, k) \in O
      BY <1>6, <2>3
    <3>2. Nth(O, k) \in 1 .. n
      BY <1>2, <3>1
    <3>3. Nth(O, k) \in Int
      BY <1>1, <3>2
    <3> QED BY <1>2, <3>1, <3>3
  <2>5. SwappedAt(c, Nth(O, k)) = Nth(F, Cardinality({j \in R : j <= Nth(O, k)}))
    BY <2>3, <2>4 DEF SwappedAt, F, R
  <2> QED BY <1>7, <2>1, <2>2, <2>3, <2>5
<1>9. ASSUME NEW i \in R
      PROVE  /\ SwappedAt(c, i) \in F /\ SwappedAt(c, SwappedAt(c, i)) = i
  <2>1. PICK k \in 1 .. m : i = Nth(O, k)
    BY <1>6
  <2>2. i \notin F
    <3>1. i \in O /\ i \in Int
      BY <1>1, <1>2, <1>6
    <3> QED BY <1>2, <3>1
  <2>3. SwappedAt(c, i) = Nth(F, k)
    <3>1. SwappedAt(c, i) = Nth(F, Cardinality({j \in R : j <= i}))
      BY <2>2 DEF SwappedAt, F, R
    <3> QED BY <1>7, <2>1, <3>1
  <2>4. Nth(F, k) \in F /\ Cardinality({j \in F : j <= Nth(F, k)}) = k
    BY <1>3, <1>5
  <2>5. SwappedAt(c, Nth(F, k)) = Nth(O, Cardinality({j \in F : j <= Nth(F, k)}))
    BY <2>4 DEF SwappedAt, F, O
  <2> QED BY <2>1, <2>3, <2>4, <2>5
<1>10. ASSUME NEW i, i \notin F, i \notin R
       PROVE  SwappedAt(c, i) = i
  BY <1>10 DEF SwappedAt, F, R
<1>11. R \subseteq 1 .. n
  BY <1>2, <1>6
<1>12. \A i \in 1 .. n : SwappedAt(c, i) \in 1 .. n /\ SwappedAt(c, SwappedAt(c, i)) = i
  <2> TAKE i \in 1 .. n
  <2>1. CASE i \in F
    BY <1>8, <1>11, <2>1
  <2>2. CASE i \in R
    BY <1>2, <1>9, <2>2
  <2>3. CASE i \notin F /\ i \notin R
    BY <1>10, <2>3
  <2> QED BY <2>1, <2>2, <2>3
<1> QED BY <1>1, <1>11, <1>12 DEF R

\* The weights of a cardinality constraint count its literals.
LEMMA CardWeight ==
    ASSUME LiveInv, NEW c \in DOMAIN pbs, ~ pbs[c].pb
    PROVE  /\ \A I \in SUBSET Idx(c) : Weight(c, I) = Cardinality(I)
           /\ pbs[c].card + 1 <= Len(pbs[c].lits)
<1>1. /\ DOMAIN pbs[c].weights = Idx(c) /\ \A i \in DOMAIN pbs[c].weights : pbs[c].weights[i] = 1
      /\ pbs[c].card + 1 <= Len(pbs[c].lits)
  <2>1. DOMAIN pbs[c].weights = DOMAIN pbs[c].lits
    BY PbFacts, WellMadeFacts
  <2> QED BY <2>1 DEF LiveInv, DatabaseOK, Idx
<1>2. ASSUME NEW I \in SUBSET Idx(c)
      PROVE  Weight(c, I) = Cardinality(I)
  <2>1. IsFiniteSet(I)
    BY PbFacts
  <2>2. \A i \in I : pbs[c].weights[i] = 1
    BY <1>1
  <2> QED BY <2>1, <2>2, SumOnes DEF Weight
<1> QED BY <1>1, <1>2

\* swapFalse exchanges literals of the constraint.
LEMMA SwapFalseKeeps ==
    ASSUME LiveInv, pc = "pb", OnlyPropagates, VisitKeeps, UNCHANGED bindingVars,
           NEW c \in DOMAIN pbs, ~ pbs[c].pb, SwapFalse(c), pc' # "panic", pos + 1 \in Nat \ {0}
    PROVE  LiveInv'
<1> DEFINE off == LitsAt(c, FalseWatched(c))
           on == LitsAt(c, Replacing(c))
           n == Len(pbs[c].lits)
           swapped == [i \in Idx(c) |-> LitAt(c, SwappedAt(c, i))]
           b == [pbs[c] EXCEPT !.lits = swapped]
<1>1. /\ ~ (Cardinality(Others(c)) < Cardinality(FalseWatched(c)))
      /\ pbs' = [pbs EXCEPT ![c] = b] /\ Rewatch(c, off, on)
      /\ pc' = "pb" /\ pos' = pos + 1
  BY DEF SwapFalse, NextConstraint, FalseWatched, Replacing, SwappedAt
<1>2. UNCHANGED <<clauses, trail, ptr, watched, wlist, wlistBin, problem>>
  BY DEF VisitKeeps, OnlyPropagates, bindingVars, dbVars, pbCtlVars
<1>3. /\ Replacing(c) \subseteq Idx(c)
      /\ \A i \in Idx(c) : SwappedAt(c, i) \in Idx(c) /\ SwappedAt(c, SwappedAt(c, i)) = i
  BY <1>1, SwappedFacts
<1>4. /\ Idx(c) = 1 .. n /\ n \in Nat /\ Idx(c) = DOMAIN pbs[c].lits
      /\ \A i \in Idx(c) : LitAt(c, i) \in Lits /\ LitAt(c, i) \in clauses[c]
      /\ \A i, j \in Idx(c) : VarOf(LitAt(c, i)) = VarOf(LitAt(c, j)) => i = j
      /\ \A I \in SUBSET Idx(c) : IsFiniteSet(I)
  BY PbFacts
<1> HIDE DEF n
<1>5. swapped \in Seq(Lits) /\ Len(swapped) = n /\ DOMAIN swapped = 1 .. n
  <2>1. swapped \in [1 .. n -> Lits]
    BY <1>3, <1>4
  <2> HIDE DEF swapped
  <2> QED BY <1>4, <2>1, FunctionIsSeq
<1>6. \A i \in Idx(c) : swapped[i] = LitAt(c, SwappedAt(c, i))
  OBVIOUS
<1> HIDE DEF swapped
<1>7. /\ b \in Constraints
      /\ b.lits = swapped /\ b.weights = pbs[c].weights /\ b.card = pbs[c].card
      /\ b.pb = pbs[c].pb
  <2>1. pbs[c] \in Constraints
    BY DEF LiveInv, PBTypeOK
  <2> QED BY <1>5, <2>1 DEF Constraints
<1> HIDE DEF b
<1>8. Range(b.lits) = Range(pbs[c].lits)
  <2>1. \A i \in Idx(c) : \E j \in Idx(c) : swapped[j] = LitAt(c, i)
    <3> TAKE i \in Idx(c)
    <3>1. SwappedAt(c, i) \in Idx(c) /\ SwappedAt(c, SwappedAt(c, i)) = i
      BY <1>3
    <3>2. swapped[SwappedAt(c, i)] = LitAt(c, SwappedAt(c, SwappedAt(c, i)))
      BY <1>6, <3>1
    <3>3. swapped[SwappedAt(c, i)] = LitAt(c, i)
      BY <3>1, <3>2, Zenon
    <3> QED BY <3>1, <3>3, Zenon
  <2>2. \A i \in Idx(c) : \E j \in Idx(c) : swapped[i] = LitAt(c, j)
    BY <1>3, <1>6
  <2>3. DOMAIN swapped = Idx(c) /\ DOMAIN pbs[c].lits = Idx(c)
    BY <1>4, <1>5
  <2>4. Range(swapped) = {swapped[x] : x \in Idx(c)} /\ Range(pbs[c].lits) = {LitAt(c, x) : x \in Idx(c)}
    BY <2>3 DEF Range, LitAt
  <2> QED BY <1>7, <2>1, <2>2, <2>4
<1>9. \A i, j \in DOMAIN b.lits : VarOf(b.lits[i]) = VarOf(b.lits[j]) => i = j
  <2>1. ASSUME NEW i \in Idx(c), NEW j \in Idx(c), VarOf(swapped[i]) = VarOf(swapped[j])
        PROVE  i = j
    <3>1. SwappedAt(c, i) = SwappedAt(c, j)
      BY <1>3, <1>4, <1>6, <2>1
    <3>2. SwappedAt(c, SwappedAt(c, i)) = i /\ SwappedAt(c, SwappedAt(c, j)) = j
      BY <1>3
    <3> QED BY <3>1, <3>2
  <2> QED BY <1>4, <1>5, <1>7, <2>1
<1>10. ASSUME NEW T \in SUBSET Lits
       PROVE  SumOf(b.weights, {k \in DOMAIN b.lits : b.lits[k] \in T}) =
                Weight(c, {k \in Idx(c) : LitAt(c, k) \in T})
  <2> DEFINE I == {k \in DOMAIN b.lits : b.lits[k] \in T}
             J == {k \in Idx(c) : LitAt(c, k) \in T}
             f == [k \in I |-> SwappedAt(c, k)]
  <2>1. I = {k \in Idx(c) : LitAt(c, SwappedAt(c, k)) \in T}
    BY <1>4, <1>5, <1>6, <1>7
  <2>2. SumOf(b.weights, I) = Cardinality(I) /\ Weight(c, J) = Cardinality(J)
    <3>1. I \in SUBSET Idx(c) /\ J \in SUBSET Idx(c)
      BY <2>1
    <3> QED BY <1>7, <3>1, CardWeight DEF Weight
  <2> HIDE DEF I
  <2>3. f \in Bijection(I, J)
    <3>1. \A k \in I : f[k] \in J
      BY <1>3, <2>1
    <3>2. \A j, k \in I : f[j] = f[k] => j = k
      <4>1. \A k \in I : k \in Idx(c) /\ f[k] = SwappedAt(c, k)
        BY <2>1
      <4>2. \A k \in I : SwappedAt(c, f[k]) = k
        BY <1>3, <4>1
      <4> HIDE DEF f
      <4> QED BY <4>2
    <3>3. \A j \in J : \E k \in I : f[k] = j
      <4> TAKE j \in J
      <4>1. SwappedAt(c, j) \in I
        BY <1>3, <2>1
      <4> WITNESS SwappedAt(c, j) \in I
      <4> QED BY <1>3, <4>1
    <3>4. f \in [I -> J]
      BY <3>1
    <3> HIDE DEF f, J
    <3> QED BY <3>2, <3>3, <3>4 DEF Bijection, Injection, Surjection, IsInjective
  <2>4. IsFiniteSet(I) /\ IsFiniteSet(J)
    BY <1>4, <2>1
  <2>5. Cardinality(I) = Cardinality(J)
    <3> HIDE DEF J, f
    <3>1. ExistsBijection(I, J)
      BY <2>3 DEF ExistsBijection
    <3> QED BY <2>4, <3>1, FS_Bijection
  <2> QED BY <2>2, <2>5 DEF I
<1>11. on \subseteq clauses[c]
  BY <1>3, <1>4 DEF LitsAt
<1> HIDE DEF on, off
<1>12. /\ KeepsAll /\ DatabaseOK' /\ Solutions' = Solutions
       /\ DOMAIN pbs' = DOMAIN pbs /\ pbs' \in [DOMAIN pbs -> Constraints]
  <2>1. n = Len(pbs[c].lits) /\ Len(b.lits) = n
    BY <1>5, <1>7 DEF n
  <2> QED BY <1>1, <1>2, <1>7, <1>8, <1>9, <1>10, <2>1, ConstraintRewritten
<1>13. /\ PBListsInv' /\ wlistPb' \in [Lits -> Seq(DOMAIN pbs)] /\ visiting' \in Seq(DOMAIN pbs)
       /\ \A d \in Range(visiting') : Negation(trail[ptr]) \in clauses[d]
  BY <1>1, <1>2, <1>11, <1>12, RewatchKeeps
<1> QED BY <1>1, <1>12, <1>13, ConstraintKept

LEMMA VisitCardLive ==
    ASSUME LiveInv, VisitCard(Visited), OnlyPropagates, pc' # "panic"
    PROVE  LiveInv'
<1> DEFINE c == Visited
<1>1. /\ pc = "pb" /\ pos <= Len(visiting) /\ VisitKeeps /\ ~ pbs[c].pb
      /\ c \in DOMAIN pbs /\ pos + 1 \in Nat \ {0} /\ pos \in Nat \ {0}
  <2>1. pc = "pb" /\ pos <= Len(visiting) /\ VisitKeeps /\ pbs[c].pb = FALSE
    BY DEF VisitCard, Visiting
  <2> QED BY <2>1, AtConstraint DEF LiveInv, PBTypeOK
<1> HIDE DEF c
<1>2. Slack(c) = Cardinality(NonFalse(c)) - pbs[c].card
  <2>1. NonFalse(c) \in SUBSET Idx(c)
    BY <1>1, PbFacts
  <2> QED BY <1>1, <2>1, CardWeight DEF Slack
<1>3. CASE NextConstraint /\ UNCHANGED <<bindingVars, pbs, wlistPb, visiting>>
  <2>1. pc' = "pb" /\ pos' = pos + 1 /\ UNCHANGED <<bindingVars, pbs, wlistPb, visiting>>
    BY <1>1, <1>3 DEF NextConstraint
  <2>2. UNCHANGED <<clauses, watched, wlistBin, wlist, problem>>
    BY <1>1 DEF VisitKeeps, OnlyPropagates, dbVars, pbCtlVars
  <2>3. KeepsAll /\ DatabaseOK' /\ Solutions' = Solutions
    BY <2>1, <2>2, SameDatabase DEF LiveInv
  <2>4. PBListsInv'
    BY <2>1, <2>2, SameLists DEF LiveInv
  <2>5. /\ DOMAIN pbs' = DOMAIN pbs /\ pbs' \in [DOMAIN pbs -> Constraints]
        /\ wlistPb' \in [Lits -> Seq(DOMAIN pbs)] /\ visiting' \in Seq(DOMAIN pbs)
    BY <2>1 DEF LiveInv, PBTypeOK
  <2>6. \A d \in Range(visiting') : Negation(trail[ptr]) \in clauses[d]
    BY <1>1, <2>1 DEF LiveInv, PBVisitInv
  <2> QED BY <1>1, <2>1, <2>3, <2>4, <2>5, <2>6, ConstraintKept
<1>4. CASE Cardinality(NonFalse(c)) < pbs[c].card /\ FalsifiedConstraint(c)
  <2>1. Slack(c) < 0
    <3>1. Cardinality(NonFalse(c)) \in Nat /\ pbs[c].card \in Nat
      BY <1>1, PbFacts, FS_CardinalityType
    <3> QED BY <1>2, <1>4, <3>1
  <2> QED BY <1>1, <1>4, <2>1, ConstraintFails DEF c
<1>5. CASE /\ Cardinality(NonFalse(c)) = pbs[c].card /\ BindAll(c, UnboundIdx(c))
           /\ NextConstraint /\ UNCHANGED <<pbs, wlistPb, visiting>>
  <2>1. UNCHANGED <<pbs, wlistPb, visiting, confl, pc>> /\ pos' \in Nat \ {0}
    BY <1>1, <1>5 DEF NextConstraint
  <2>2. \A i \in UnboundIdx(c) : pbs[c].weights[i] > Slack(c)
    <3>1. /\ \A i \in Idx(c) : pbs[c].weights[i] \in Nat \ {0}
          /\ pbs[c].card \in Nat
      BY <1>1, PbFacts
    <3>2. Slack(c) = 0
      BY <1>2, <1>5, <3>1
    <3> QED BY <3>1, <3>2 DEF UnboundIdx
  <2> QED BY <1>1, <1>5, <2>1, <2>2, ConstraintBinds
<1>6. CASE SwapFalse(c) /\ UNCHANGED bindingVars
  BY <1>1, <1>6, SwapFalseKeeps
<1> QED BY <1>3, <1>4, <1>5, <1>6 DEF VisitCard, c

\* Every step of propagate.
LEMMA PropagateLive ==
    ASSUME LiveInv, PBPropagate, pc' # "panic"
    PROVE  LiveInv'
<1>1. OnlyPropagates
  BY DEF PBPropagate, OnlyPropagates
<1> QED
  BY <1>1, StartLitLive, VisitBinaryLive, VisitLongLive, StartConstraintsLive, VisitPBLive,
     VisitCardLive, EndConstraintsLive DEF PBPropagate, PBPropagateStep

-----------------------------------------------------------------------------
(* Decisions.                                                              *)

\* chooseLit decides an unbound variable at a new level, or the search is over.
LEMMA ChooseLive ==
    ASSUME LiveInv, pc \in {"search", "propagate"},
           NEW q, q \subseteq Vars, NEW L \in Nat, ChooseLit(q, model, polarity, L),
           L > 1, q = {} \/ \A v \in Vars : Level(v) < L,
           UNCHANGED <<model, trail, reason, polarity, clauses, watched, wlistBin, pbs, problem>>,
           UNCHANGED <<ptr, todoBin, todo, learnVars, assumptions, visiting, pos, cutVars, pending>>,
           wlist' \in [Lits -> SUBSET Watchers], wlistPb' \in [Lits -> Seq(DOMAIN pbs)], PBListsInv'
    PROVE  LiveInv'
<1> DEFINE unbound == {v \in q : model[v] = 0}
<1>1. /\ UNCHANGED <<clauses, watched, wlistBin, pbs, problem, ptr, todoBin, todo, pending, met,
                     metLvl, lits, nbLvl, walk, assumptions, cut, cutPtr, visiting, pos,
                     model, trail, reason, polarity>>
      /\ pc \notin {"cut", "learned", "bind", "unify"} /\ pc' \in {"idle", "unify"}
  BY DEF ChooseLit, learnVars, cutVars
<1>2. KeepsAll /\ DatabaseOK' /\ Solutions' = Solutions /\ ClauseIds' = ClauseIds
  BY <1>1, SameDatabase DEF LiveInv
<1>3. /\ BindingsOK'
      /\ \A v \in Vars : Level(v)' = Level(v)
      /\ \A l : IsFalse(l)' <=> IsFalse(l)
  BY <1>1, <1>2, BindingsStay
<1>4. PBVisitInv' /\ PBLearnInv' /\ CutInv'
  BY <1>1 DEF PBVisitInv, PBLearnInv, CutInv
<1>5. \A k \in DOMAIN pending : Follows(pending[k])'
  BY <1>2 DEF LiveInv, PBUnifyInv, Follows
<1>6. CASE queue' = {} /\ pc' = "idle" /\ lit' = NoLit /\ ret' = "none" /\ UNCHANGED lvl
  <2>1. PBTypeOK'
    <3>1. PBTypeOK
      BY DEF LiveInv
    <3> QED BY <1>1, <1>2, <1>6, <3>1 DEF PBTypeOK, Watchers
  <2>2. PBLevelsInv' /\ PBUnifyInv'
    BY <1>1, <1>5, <1>6 DEF PBLevelsInv, PBUnifyInv
  <2> QED BY <1>2, <1>3, <1>4, <2>1, <2>2 DEF LiveInv
<1>7. ASSUME NEW v \in unbound, queue' = unbound \ {v}, lit' = SignedLit(v, ~ polarity[v]),
             lvl' = L, pc' = "unify", ret' = "branch"
      PROVE  LiveInv'
  <2>1. /\ v \in Vars /\ model[v] = 0 /\ lit' \in Lits /\ VarOf(lit') = v
        /\ \A u \in Vars : Level(u) < L
    <3>1. polarity \in [Vars -> BOOLEAN] /\ v \in Vars
      BY DEF LiveInv, PBTypeOK
    <3>2. (~ polarity[v]) \in BOOLEAN
      BY <3>1
    <3> QED BY <1>7, <3>1, <3>2, SignedLitFacts
  <2>2. reason[v] = Nil
    <3>1. PICK n : \A u \in Vars : model[u] = 0 /\ reason[u] # Nil => pc = "unify" /\ u = VarOf(lit)
      BY <1>1, BoundNow
    <3> QED BY <1>1, <2>1, <3>1
  <2>3. PBTypeOK'
    <3>1. PBTypeOK
      BY DEF LiveInv
    <3>2. queue' \subseteq Vars
      BY <1>7
    <3> QED BY <1>1, <1>2, <1>7, <2>1, <3>1, <3>2 DEF PBTypeOK, Watchers
  <2>4. PBLevelsInv'
    <3>1. \A u \in Vars : Level(u)' <= L
      <4>1. \A u \in Vars : Level(u) \in Nat
        BY TrailType DEF LiveInv
      <4> QED BY <1>3, <2>1, <4>1
    <3> QED BY <1>7, <3>1 DEF PBLevelsInv
  <2>5. PBUnifyInv'
    <3>1. reason'[VarOf(lit')] = Nil /\ model'[VarOf(lit')] = 0
      BY <1>1, <2>1, <2>2
    <3>2. \A u \in Vars : Level(u)' < lvl'
      BY <1>3, <1>7, <2>1
    <3> QED BY <1>1, <1>5, <1>7, <2>1, <3>1, <3>2 DEF PBUnifyInv
  <2> QED BY <1>2, <1>3, <1>4, <2>3, <2>4, <2>5 DEF LiveInv
<1> QED BY <1>6, <1>7 DEF ChooseLit

\* Lists that lose constraints or watchers are still right.
LEMMA ListsShrink ==
    ASSUME PBListsInv, UNCHANGED <<clauses, watched, wlistBin, pbs>>,
           \A l \in Lits : wlist'[l] \subseteq wlist[l],
           \A l \in Lits : Range(wlistPb'[l]) \subseteq Range(wlistPb[l])
    PROVE  PBListsInv'
<1>1. \A l \in Lits : \A w \in wlist'[l] :
        /\ w[1] \notin DOMAIN pbs
        /\ Negation(l) \in {watched[w[1]][1], watched[w[1]][2]}
        /\ \A x \in wlist'[l] : x[1] = w[1] => x = w
  BY DEF PBListsInv
<1>2. \A l \in Lits : \A c \in Range(wlistPb'[l]) : Negation(l) \in clauses[c]
  BY DEF PBListsInv
<1>3. /\ \A c \in ClauseIds \ DOMAIN pbs :
            /\ watched[c][1] \in clauses[c] /\ watched[c][2] \in clauses[c]
            /\ watched[c][1] # watched[c][2]
      /\ \A l \in Lits : \A w \in wlistBin[l] :
            w[1] \notin DOMAIN pbs /\ clauses[w[1]] = {Negation(l), w[2]}
  BY DEF PBListsInv
<1> QED BY <1>1, <1>2, <1>3 DEF PBListsInv, ClauseIds

\* The list before constraint number c is looked at, from the one before.
NextLeft(lst, S, g, c) ==
    IF c = 0 THEN lst ELSE IF c \in S THEN RemoveFrom(g[c - 1], c) ELSE g[c - 1]

\* unwatchPB takes constraints out of a list.
LEMMA WithoutFacts ==
    ASSUME Len(clauses) \in Nat, NEW D, NEW lst \in Seq(D), NEW S
    PROVE  Without(lst, S) \in Seq(D) /\ Range(Without(lst, S)) \subseteq Range(lst)
<1> DEFINE N == Len(clauses)
           T == {n \in Nat : ~ \E g : g = [c \in 0 .. n |-> NextLeft(lst, S, g, c)]}
           left == CHOOSE g : g = [c \in 0 .. N |-> NextLeft(lst, S, g, c)]
           R == Range(lst)
           B == {n \in 0 .. N : left[n] \notin Seq(R)}
<1>1. T = {}
  <2> SUFFICES ASSUME T # {} PROVE FALSE
    OBVIOUS
  <2>1. PICK x \in T : \A y \in T : x <= y
    <3>1. T \subseteq Nat
      OBVIOUS
    <3> HIDE DEF T
    <3> QED BY <3>1, NatMin
  <2>2. x \in Nat /\ ~ \E g : g = [c \in 0 .. x |-> NextLeft(lst, S, g, c)]
    OBVIOUS
  <2>3. CASE x = 0
    <3> DEFINE g == [c \in 0 .. x |-> lst]
    <3>1. \A h : [c \in 0 .. x |-> NextLeft(lst, S, h, c)] = g
      <4> TAKE h
      <4>1. \A c \in 0 .. x : NextLeft(lst, S, h, c) = lst
        BY <2>3 DEF NextLeft
      <4> QED BY <4>1
    <3> HIDE DEF g
    <3>2. g = [c \in 0 .. x |-> NextLeft(lst, S, g, c)]
      BY <3>1
    <3> QED BY <2>2, <3>2
  <2>4. CASE x > 0
    <3>1. x - 1 \in Nat /\ x - 1 \notin T
      BY <2>1, <2>2, <2>4
    <3>2. PICK g : g = [c \in 0 .. x - 1 |-> NextLeft(lst, S, g, c)]
      BY <3>1
    <3> DEFINE h == [c \in 0 .. x |-> IF c = x THEN NextLeft(lst, S, g, x) ELSE g[c]]
    <3>3. \A c \in 0 .. x : h[c] = IF c = x THEN NextLeft(lst, S, g, x) ELSE g[c]
      OBVIOUS
    <3>4. DOMAIN h = 0 .. x /\ h = [c \in 0 .. x |-> h[c]]
      OBVIOUS
    <3> HIDE DEF h
    <3>5. ASSUME NEW c \in 0 .. x
          PROVE  h[c] = NextLeft(lst, S, h, c)
      <4>1. c # 0 => c - 1 \in 0 .. x /\ c - 1 # x /\ h[c - 1] = g[c - 1]
        BY <2>2, <3>3
      <4>2. NextLeft(lst, S, h, c) = NextLeft(lst, S, g, c)
        BY <4>1 DEF NextLeft
      <4>3. c # x => c \in 0 .. x - 1
        BY <2>2
      <4>4. c # x => g[c] = NextLeft(lst, S, g, c)
        BY <3>2, <4>3
      <4> QED BY <3>3, <4>2, <4>4
    <3>6. h = [c \in 0 .. x |-> NextLeft(lst, S, h, c)]
      BY <3>4, <3>5
    <3> QED BY <2>2, <3>6
  <2> QED BY <2>2, <2>3, <2>4
<1>2. left = [c \in 0 .. N |-> NextLeft(lst, S, left, c)]
  <2>1. \E g : g = [c \in 0 .. N |-> NextLeft(lst, S, g, c)]
    BY <1>1
  <2> HIDE DEF T
  <2> QED BY <2>1
<1>3. Without(lst, S) = left[N]
  BY DEF Without, NextLeft
<1> HIDE DEF left, T
<1>4. \A c \in 0 .. N : left[c] = NextLeft(lst, S, left, c)
  BY <1>2
<1>5. lst \in Seq(R) /\ R \subseteq D
  BY FunctionIsSeq DEF Range
<1>6. B = {}
  <2> SUFFICES ASSUME B # {} PROVE FALSE
    OBVIOUS
  <2>1. PICK x \in B : \A y \in B : x <= y
    <3>1. B \subseteq Nat
      OBVIOUS
    <3> HIDE DEF B
    <3> QED BY <3>1, NatMin
  <2>2. x \in 0 .. N /\ left[x] \notin Seq(R)
    OBVIOUS
  <2> HIDE DEF R
  <2>3. x # 0
    BY <1>4, <1>5, <2>2 DEF NextLeft
  <2>4. x - 1 \in 0 .. N /\ x - 1 \notin B
    BY <2>1, <2>2, <2>3
  <2>5. left[x - 1] \in Seq(R)
    BY <2>4
  <2>6. RemoveFrom(left[x - 1], x) \in Seq(R)
    BY <2>5, RemoveFromFacts
  <2> QED BY <1>4, <2>2, <2>3, <2>5, <2>6 DEF NextLeft
<1>7. left[N] \in Seq(R)
  BY <1>6
<1> HIDE DEF R, B
<1>8. left[N] \in Seq(D)
  BY <1>5, <1>7
<1>9. Range(left[N]) \subseteq R
  BY <1>7 DEF Range
<1> QED BY <1>3, <1>8, <1>9 DEF R

\* unwatchPB on the constraints S.
LEMMA UnwatchedFacts ==
    ASSUME PBTypeOK, NEW S
    PROVE  /\ Unwatched(S) \in [Lits -> Seq(DOMAIN pbs)]
           /\ \A l \in Lits : Range(Unwatched(S)[l]) \subseteq Range(wlistPb[l])
<1>1. Len(clauses) \in Nat /\ wlistPb \in [Lits -> Seq(DOMAIN pbs)]
  BY DEF PBTypeOK
<1>2. ASSUME NEW l \in Lits
      PROVE  Unwatched(S)[l] \in Seq(DOMAIN pbs) /\ Range(Unwatched(S)[l]) \subseteq Range(wlistPb[l])
  <2> DEFINE T == {c \in S : \E i \in Watched(pbs[c]) : LitAt(c, i) = Negation(l)}
  <2>1. Unwatched(S)[l] = Without(wlistPb[l], T)
    BY DEF Unwatched
  <2> HIDE DEF T
  <2>2. wlistPb[l] \in Seq(DOMAIN pbs)
    BY <1>1
  <2> QED BY <1>1, <2>1, <2>2, WithoutFacts
<1>3. DOMAIN Unwatched(S) = Lits /\ Unwatched(S) = [l \in Lits |-> Unwatched(S)[l]]
  BY DEF Unwatched
<1> QED BY <1>2, <1>3

LEMMA SearchLive ==
    ASSUME LiveInv, Search, UNCHANGED <<pbVars, cutVars, pbCtlVars>>
    PROVE  LiveInv'
<1>1. /\ pc = "search" /\ ChooseLit(queue, model, polarity, 2)
      /\ UNCHANGED <<model, trail, reason, polarity, clauses, watched, wlistBin, wlist, pbs, problem,
                     wlistPb>>
      /\ UNCHANGED <<ptr, todoBin, todo, learnVars, assumptions, visiting, pos, cutVars, pending>>
  BY DEF Search, dbVars, propVars, pbVars, pbCtlVars
<1>2. /\ queue \subseteq Vars /\ wlist' \in [Lits -> SUBSET Watchers]
      /\ wlistPb' \in [Lits -> Seq(DOMAIN pbs)]
  BY <1>1 DEF LiveInv, PBTypeOK, Watchers, ClauseIds
<1>3. queue = {} \/ \A v \in Vars : Level(v) < 2
  <2>1. queue = {} \/ \A v \in Vars : Level(v) <= 1
    BY <1>1 DEF LiveInv, PBLevelsInv
  <2>2. \A v \in Vars : Level(v) \in Nat
    BY TrailType DEF LiveInv
  <2> QED BY <2>1, <2>2
<1>4. PBListsInv'
  BY <1>1, SameLists DEF LiveInv
<1> QED BY <1>1, <1>2, <1>3, <1>4, ChooseLive

\* Once what was bound at level 1 was propagated, level 2 is opened.
LEMMA TopPropagated ==
    ASSUME LiveInv, Propagated, ret \in {"unit", "units"}, ChooseLit(OrderHeap(model), model, polarity, 2),
           UNCHANGED <<model, trail, reason, polarity, dbVars, wlist, wlistBin, propVars, learnVars,
                       assumptions, pbVars, cutVars, pbCtlVars>>
    PROVE  LiveInv'
<1>1. /\ pc = "propagate"
      /\ UNCHANGED <<model, trail, reason, polarity, clauses, watched, wlistBin, wlist, pbs, problem,
                     wlistPb>>
      /\ UNCHANGED <<ptr, todoBin, todo, learnVars, assumptions, visiting, pos, cutVars, pending>>
  BY DEF Propagated, dbVars, propVars, pbVars, pbCtlVars
<1>2. /\ OrderHeap(model) \subseteq Vars /\ wlist' \in [Lits -> SUBSET Watchers]
      /\ wlistPb' \in [Lits -> Seq(DOMAIN pbs)]
  BY <1>1 DEF LiveInv, PBTypeOK, Watchers, ClauseIds, OrderHeap
<1>3. \A v \in Vars : Level(v) < 2
  <2>1. lvl = 1 /\ \A v \in Vars : Level(v) <= lvl
    BY <1>1 DEF LiveInv, PBLevelsInv
  <2>2. \A v \in Vars : Level(v) \in Nat
    BY TrailType DEF LiveInv
  <2> QED BY <2>1, <2>2
<1>4. PBListsInv'
  BY <1>1, SameLists DEF LiveInv
<1> QED BY <1>1, <1>2, <1>3, <1>4, ChooseLive

\* Another level is opened, and some of what was learned may be forgotten.
LEMMA NextLevel ==
    ASSUME LiveInv, pc = "propagate", ChooseLit(queue, model, polarity, lvl + 1),
           UNCHANGED <<model, trail, reason, polarity, clauses, watched, wlistBin, pbs, problem>>,
           UNCHANGED <<ptr, todoBin, todo, learnVars, assumptions, visiting, pos, cutVars, pending>>,
           wlist' = wlist \/ \E S : wlist' = Unwatch(S), 
           wlistPb' = wlistPb \/ \E S : wlistPb' = Unwatched(S)
    PROVE  LiveInv'
<1>1. /\ queue \subseteq Vars /\ wlist \in [Lits -> SUBSET Watchers]
      /\ wlistPb \in [Lits -> Seq(DOMAIN pbs)] /\ PBTypeOK
  BY DEF LiveInv, PBTypeOK
<1>2. wlist' \in [Lits -> SUBSET Watchers] /\ \A l \in Lits : wlist'[l] \subseteq wlist[l]
  <2>1. CASE wlist' = wlist
    BY <1>1, <2>1
  <2>2. ASSUME NEW S, wlist' = Unwatch(S)
        PROVE  wlist' \in [Lits -> SUBSET Watchers] /\ \A l \in Lits : wlist'[l] \subseteq wlist[l]
    BY <1>1, <2>2 DEF Unwatch
  <2> QED BY <2>1, <2>2
<1>3. /\ wlistPb' \in [Lits -> Seq(DOMAIN pbs)]
      /\ \A l \in Lits : Range(wlistPb'[l]) \subseteq Range(wlistPb[l])
  BY <1>1, UnwatchedFacts
<1>4. PBListsInv'
  BY <1>2, <1>3, ListsShrink DEF LiveInv
<1>5. lvl + 1 \in Nat /\ lvl + 1 > 1 /\ \A v \in Vars : Level(v) < lvl + 1
  <2>1. lvl \in Nat /\ lvl >= 1 /\ \A v \in Vars : Level(v) <= lvl
    BY DEF LiveInv, PBTypeOK, PBLevelsInv
  <2>2. \A v \in Vars : Level(v) \in Nat
    BY TrailType DEF LiveInv
  <2> QED BY <2>1, <2>2
<1> QED BY <1>1, <1>2, <1>3, <1>4, <1>5, ChooseLive

LEMMA BranchLive ==
    ASSUME LiveInv, Branch, UNCHANGED <<pbVars, cutVars, pbCtlVars>>, pc' # "panic"
    PROVE  LiveInv'
<1>1. /\ pc = "propagate" /\ ChooseLit(queue, model, polarity, lvl + 1)
      /\ wlist' = wlist \/ \E S : wlist' = Unwatch(S)
      /\ wlistPb' = wlistPb
  BY DEF Branch, Propagated, ReduceLearned, pbVars
<1>2. /\ UNCHANGED <<model, trail, reason, polarity, clauses, watched, wlistBin, pbs, problem>>
      /\ UNCHANGED <<ptr, todoBin, todo, learnVars, assumptions, visiting, pos, cutVars, pending>>
  BY DEF Branch, propVars, pbVars, pbCtlVars
<1> QED BY <1>1, <1>2, NextLevel

LEMMA CutBranchLive ==
    ASSUME LiveInv, CutBranch
    PROVE  LiveInv'
<1>1. /\ pc = "propagate" /\ ChooseLit(queue, model, polarity, lvl + 1)
      /\ wlistPb' = wlistPb \/ \E S : wlistPb' = Unwatched(S)
      /\ wlist' = wlist
  BY DEF CutBranch, Propagated
<1>2. /\ UNCHANGED <<model, trail, reason, polarity, clauses, watched, wlistBin, pbs, problem>>
      /\ UNCHANGED <<ptr, todoBin, todo, learnVars, assumptions, visiting, pos, cutVars, pending>>
  BY DEF CutBranch, propVars, pbCtlVars
<1> QED BY <1>1, <1>2, NextLevel

-----------------------------------------------------------------------------
(* unifyLiteral.                                                           *)

LEMMA UnifyLive ==
    ASSUME LiveInv, UnifyLiteral, UNCHANGED <<pbVars, cutVars, pbCtlVars>>, Solutions # {}
    PROVE  LiveInv'
<1> DEFINE r == reason[VarOf(lit)]
<1>1. /\ UNCHANGED <<clauses, watched, wlistBin, wlist, pbs, wlistPb, problem, visiting, pos,
                     todoBin, todo, lvl, pending, met, metLvl, lits, nbLvl, walk, assumptions, ret,
                     reason, polarity, queue, cut, cutPtr>>
      /\ model' = [model EXCEPT ![VarOf(lit)] = LvlToSignedLvl(lit, lvl)]
      /\ trail' = Append(trail, lit) /\ ptr' = Len(trail) + 1 /\ lit' = NoLit
      /\ pc = "unify" /\ pc' = "propagate"
  BY DEF UnifyLiteral, dbVars, learnVars, pbVars, cutVars, pbCtlVars
<1>2. /\ KeepsAll /\ DatabaseOK' /\ Solutions' = Solutions /\ ClauseIds' = ClauseIds
  BY <1>1, SameDatabase DEF LiveInv
<1>3. PBTypeOK /\ DatabaseOK /\ PBListsInv'
  BY <1>1, SameLists DEF LiveInv
<1>4. /\ lit \in Lits
      /\ model[VarOf(lit)] # 0 => lvl = 1
      /\ lvl = 1 /\ (r = Nil \/ model[VarOf(lit)] # 0) => Follows(lit)
      /\ lvl > 1 /\ r = Nil => \A v \in Vars : Level(v) < lvl
      /\ model[VarOf(lit)] = 0 /\ r # Nil => ImpliedBy(r, lit, {l \in Lits : IsFalse(l)})
      /\ \A k \in DOMAIN pending : Follows(pending[k])
  BY <1>1 DEF LiveInv, PBUnifyInv
<1>5. /\ lvl >= 1 /\ lvl \in Nat /\ \A v \in Vars : Level(v) <= lvl
      /\ ret \notin {"branch", "cut"} => lvl = 1
  BY <1>1 DEF LiveInv, PBLevelsInv, PBTypeOK
<1>6. PICK n : /\ n = Len(trail) /\ n \in Nat /\ Bound(n)
               /\ \A v \in Vars : model[v] = 0 /\ reason[v] # Nil => v = VarOf(lit)
  BY <1>1, BoundNow
<1>7. VarOf(lit) \in Vars /\ r \in {Nil} \union ClauseIds /\ LvlToSignedLvl(lit, lvl) \in Int
      /\ LvlToSignedLvl(lit, lvl) # 0
  <2>1. VarOf(lit) \in Vars
    BY <1>4, LitFacts
  <2>2. r \in {Nil} \union ClauseIds
    BY <1>3, <2>1 DEF PBTypeOK
  <2>3. LvlToSignedLvl(lit, lvl) \in Int /\ LvlToSignedLvl(lit, lvl) # 0
    BY <1>5 DEF LvlToSignedLvl
  <2> QED BY <2>1, <2>2, <2>3
<1> HIDE DEF r
<1>8. /\ TrailBound(Len(trail))' /\ FactsFollow' /\ ReasonsHold' /\ trail' \in Seq(Lits)
      /\ DOMAIN trail' = 1 .. n + 1
      /\ Level(VarOf(trail[n + 1]))' = lvl /\ \A v \in Vars : Level(v)' <= lvl
  <2>1. CASE model[VarOf(lit)] = 0
    <3> DEFINE s == <<lit>>
    <3>1. s \in Seq(Lits) /\ Len(s) = 1 /\ DOMAIN s = {1} /\ s[1] = lit
      BY <1>4
    <3>2. trail' = trail \o s
      BY <1>1, <1>3, <1>4 DEF PBTypeOK
    <3> HIDE DEF s
    <3>3. MayBind(s, r)
      BY <1>4, <1>5, <1>7, <2>1, <3>1 DEF MayBind
    <3>4. BindsAll(s, r)
      <4>1. model'[VarOf(lit)] = LvlToSignedLvl(lit, lvl) /\ reason'[VarOf(lit)] = r
        BY <1>1, <1>3, <1>7 DEF PBTypeOK, r
      <4>2. \A v \in Vars : v # VarOf(lit) => model'[v] = model[v] /\ reason'[v] = reason[v]
        BY <1>1, <1>3 DEF PBTypeOK
      <4> QED BY <3>1, <3>2, <4>1, <4>2 DEF BindsAll
    <3>5. /\ TrailBound(Len(trail))' /\ FactsFollow' /\ ReasonsHold' /\ trail' \in Seq(Lits)
          /\ DOMAIN trail' = 1 .. n + Len(s)
          /\ \A i \in n + 1 .. n + Len(s) : Level(VarOf(trail[i]))' = lvl
          /\ \A v \in Vars : Level(v)' <= lvl
      BY <1>2, <1>3, <1>6, <3>3, <3>4, BoundExtended
    <3>6. n + 1 \in n + 1 .. n + Len(s)
      BY <1>6, <3>1
    <3> QED BY <3>1, <3>5, <3>6
  <2>2. CASE model[VarOf(lit)] # 0
    <3>1. lvl = 1 /\ Follows(lit)
      BY <1>4, <2>2
    <3>2. /\ model' = model /\ TrailBound(Len(trail))' /\ FactsFollow' /\ ReasonsHold'
          /\ trail' \in Seq(Lits) /\ DOMAIN trail' = 1 .. n + 1
          /\ \A i \in 1 .. n + 1 : Level(VarOf(trail[i]))' = 1
      BY <1>1, <1>2, <1>3, <1>4, <1>5, <1>6, <2>2, <3>1, BoundAgain
    <3>3. n + 1 \in 1 .. n + 1
      BY <1>6
    <3>4. \A v \in Vars : Level(v)' = Level(v)
      BY <3>2 DEF Level
    <3> QED BY <1>5, <3>1, <3>2, <3>3, <3>4
  <2> QED BY <2>1, <2>2
<1>9. BindingsOK'
  <2>1. Len(trail') \in Nat
    BY <1>8
  <2>2. ASSUME NEW v \in Vars, model'[v] = 0, reason'[v] # Nil
        PROVE  FALSE
    <3>1. v # VarOf(lit)
      BY <1>1, <1>3, <1>7, <2>2 DEF PBTypeOK
    <3>2. model[v] = 0
      BY <1>1, <1>3, <2>2, <3>1 DEF PBTypeOK
    <3> QED BY <1>1, <1>6, <2>2, <3>1, <3>2
  <2> QED BY <1>1, <1>8, <2>1, <2>2, BindingsFrom
<1>10. PBTypeOK'
  <2>1. model' \in [Vars -> Int]
    BY <1>1, <1>3, <1>7 DEF PBTypeOK
  <2>2. ptr' \in Nat \ {0} /\ lit' \in {NoLit} \union Lits
    BY <1>1, <1>6
  <2> QED BY <1>1, <1>2, <1>3, <1>8, <2>1, <2>2 DEF PBTypeOK, Watchers
<1>11. PBVisitInv'
  <2>1. \A i \in DOMAIN trail' : i >= n + 1 => i = n + 1
    BY <1>6, <1>8
  <2>2. \A i \in DOMAIN trail' : i >= ptr' => Level(VarOf(trail[i]))' = lvl
    BY <1>1, <1>6, <1>8, <2>1
  <2> QED BY <1>1, <2>2 DEF PBVisitInv
<1>12. PBLevelsInv'
  BY <1>1, <1>5, <1>8 DEF PBLevelsInv
<1>13. PBUnifyInv' /\ PBLearnInv' /\ CutInv'
  BY <1>1, <1>2, <1>4 DEF PBUnifyInv, PBLearnInv, CutInv, Follows
<1> QED BY <1>2, <1>3, <1>9, <1>10, <1>11, <1>12, <1>13 DEF LiveInv

-----------------------------------------------------------------------------
(* Going back to level 1.                                                  *)

\* cleanupBindings(1) keeps the facts; no reason of what it undoes is left.
LEMMA CutToTop ==
    ASSUME LiveInv, pc # "unify", KeepsAll, CleanupBindings(1), reason' = CleanReason(1),
           pc' \notin {"cut", "learned"}
    PROVE  /\ BindingsOK' /\ model' \in [Vars -> Int] /\ trail' \in Seq(Lits)
           /\ reason' \in [Vars -> {Nil} \union ClauseIds] /\ polarity' \in [Vars -> BOOLEAN]
           /\ CleanQueue(1) \subseteq Vars
           /\ \A v \in Vars : Level(v)' <= 1
           /\ \A v \in Vars : model'[v] = 0 => reason'[v] = Nil
           /\ \A v \in Vars : model'[v] = IF Level(v) > 1 THEN 0 ELSE model[v]
           /\ \A i \in DOMAIN trail' : Level(VarOf(trail[i]))' <= 1
           /\ FactsFollow' /\ TrailBound(Len(trail))'
<1>1. PICK n \in 0 .. Len(trail) : TrailBound(n) /\ ReasonsBound(n)
  BY DEF LiveInv, BindingsOK
<1>2. PBTypeOK /\ Bound(n)
  BY <1>1 DEF LiveInv, Bound, BindingsOK
<1>3. n < Len(trail) => Level(VarOf(trail[n])) > 1
  BY <1>1 DEF TrailBound
<1>4. 1 \in Nat \ {0}
  OBVIOUS
<1>5. /\ KeptLen(1) \in 0 .. n /\ CleanTrail(1) \in Seq(Lits) /\ Len(CleanTrail(1)) = KeptLen(1)
      /\ \A v \in Vars : v \in Dropped(1) <=>
            Level(v) > 1 \/ \E i \in n + 1 .. Len(trail) : VarOf(trail[i]) = v
      /\ CleanModel(1) \in [Vars -> Int]
      /\ CleanReason(1) \in [Vars -> {Nil} \union ClauseIds]
      /\ CleanPolarity(1) \in [Vars -> BOOLEAN] /\ Dropped(1) \subseteq Vars
  BY <1>1, <1>2, <1>3, <1>4, CutBackFacts
<1>6. /\ trail' = CleanTrail(1) /\ model' = CleanModel(1) /\ polarity' = CleanPolarity(1)
  BY DEF CleanupBindings
<1>7. CutsBack(1)
  <2>1. ASSUME NEW v \in Vars, model[v] # 0, Level(v) <= 1
        PROVE  reason'[v] = reason[v]
    <3>1. v \notin Dropped(1)
      <4>1. \A i \in n + 1 .. Len(trail) : VarOf(trail[i]) # v
        BY <1>1, <2>1 DEF TrailBound
      <4>2. Level(v) \in Nat
        BY <1>2, TrailType
      <4> QED BY <1>5, <2>1, <4>1, <4>2
    <3> QED BY <3>1 DEF CleanReason
  <2> QED BY <1>6, <2>1 DEF CutsBack
<1>8. /\ TrailBound(Len(trail))' /\ FactsFollow' /\ ReasonsHold'
      /\ \A v \in Vars :
            /\ model'[v] = IF Level(v) > 1 THEN 0 ELSE model[v]
            /\ Level(v)' <= 1
  BY <1>2, <1>3, <1>4, <1>7, BoundCutBack
<1>9. ASSUME NEW v \in Vars, model'[v] = 0
      PROVE  reason'[v] = Nil
  <2>1. CASE v \in Dropped(1)
    BY <2>1 DEF CleanReason
  <2>2. CASE v \notin Dropped(1)
    <3>1. model[v] = 0 /\ reason'[v] = reason[v]
      BY <1>5, <1>8, <1>9, <2>2 DEF CleanReason
    <3>2. ~ \E i \in n + 1 .. Len(trail) : VarOf(trail[i]) = v
      BY <1>5, <2>2
    <3> QED BY <1>1, <3>1, <3>2 DEF ReasonsBound
  <2> QED BY <2>1, <2>2
<1>10. BindingsOK'
  <2>1. Len(trail') \in Nat
    BY <1>5, <1>6
  <2> QED BY <1>8, <1>9, <2>1, BindingsFrom
<1>11. \A i \in DOMAIN trail' : Level(VarOf(trail[i]))' <= 1
  <2>1. \A i \in DOMAIN trail' : VarOf(trail'[i]) \in Vars
    BY <1>5, <1>6, LitFacts
  <2> QED BY <1>8, <2>1
<1>12. CleanQueue(1) \subseteq Vars
  BY <1>2, <1>5 DEF CleanQueue, PBTypeOK
<1> QED BY <1>5, <1>6, <1>8, <1>9, <1>10, <1>11, <1>12

\* A restart goes back to the facts, and starts the search again.
LEMMA BackToSearch ==
    ASSUME LiveInv, pc = "propagate", CleanupBindings(1), reason' = CleanReason(1),
           queue' = OrderHeap(CleanModel(1)), pc' = "search",
           UNCHANGED <<dbVars, wlist, wlistBin, propVars, lvl, learnVars, assumptions, lit>>,
           UNCHANGED <<pbVars, cutVars, pending, problem>>
    PROVE  LiveInv'
<1>1. /\ UNCHANGED <<clauses, watched, wlistBin, wlist, pbs, wlistPb, problem, visiting, pos,
                     todoBin, todo, lvl, pending, met, metLvl, lits, nbLvl, walk, assumptions, ptr,
                     lit, cut, cutPtr>>
      /\ pc # "unify" /\ pc' \notin {"cut", "learned"}
  BY DEF dbVars, learnVars, propVars, pbVars, cutVars
<1>2. /\ KeepsAll /\ DatabaseOK' /\ Solutions' = Solutions /\ ClauseIds' = ClauseIds
  BY <1>1, SameDatabase DEF LiveInv
<1>3. PBTypeOK /\ DatabaseOK /\ PBListsInv' /\ \A k \in DOMAIN pending : Follows(pending[k])
  BY <1>1, SameLists DEF LiveInv, PBUnifyInv
<1>4. /\ BindingsOK' /\ model' \in [Vars -> Int] /\ trail' \in Seq(Lits)
      /\ reason' \in [Vars -> {Nil} \union ClauseIds] /\ polarity' \in [Vars -> BOOLEAN]
      /\ \A v \in Vars : Level(v)' <= 1
  BY <1>1, <1>2, CutToTop
<1>5. PBTypeOK'
  <2>1. queue' \subseteq Vars
    BY DEF OrderHeap
  <2> QED BY <1>1, <1>2, <1>3, <1>4, <2>1 DEF PBTypeOK, Watchers
<1>6. /\ PBVisitInv' /\ PBUnifyInv' /\ PBLearnInv' /\ CutInv' /\ PBLevelsInv'
  BY <1>1, <1>2, <1>3, <1>4 DEF PBVisitInv, PBUnifyInv, PBLearnInv, CutInv, PBLevelsInv, Follows
<1> QED BY <1>2, <1>3, <1>4, <1>5, <1>6 DEF LiveInv

LEMMA RestartLive ==
    ASSUME LiveInv, Restart, UNCHANGED <<pbVars, cutVars, pbCtlVars>>
    PROVE  LiveInv'
<1>1. /\ pc = "propagate" /\ CleanupBindings(1) /\ reason' = CleanReason(1)
      /\ queue' = OrderHeap(CleanModel(1)) /\ pc' = "search"
      /\ UNCHANGED <<dbVars, wlist, wlistBin, propVars, lvl, learnVars, assumptions, lit>>
      /\ UNCHANGED <<pbVars, cutVars, pending, problem>>
  BY DEF Restart, Restarted, Propagated, pbCtlVars
<1> QED BY <1>1, BackToSearch

LEMMA LubyRestartLive ==
    ASSUME LiveInv, LubyRestart
    PROVE  LiveInv'
<1>1. /\ pc = "propagate" /\ CleanupBindings(1) /\ reason' = CleanReason(1)
      /\ queue' = OrderHeap(CleanModel(1)) /\ pc' = "search"
      /\ UNCHANGED <<dbVars, wlist, wlistBin, propVars, lvl, learnVars, assumptions, lit>>
      /\ UNCHANGED <<pbVars, cutVars, pending, problem>>
  BY DEF LubyRestart, Propagated
<1> QED BY <1>1, BackToSearch

\* A fact is about to be bound at level 1.
LEMMA TopUnit ==
    ASSUME LiveInv, pc # "unify", CleanupBindings(1), reason' = CleanReason(1), queue' = CleanQueue(1),
           NEW u \in Lits, Follows(u), lit' = u, lvl' = 1, pc' = "unify",
           UNCHANGED <<clauses, watched, wlistBin, wlist, pbs, wlistPb, problem, visiting, pos,
                       todoBin, todo, assumptions, ptr, cut, cutPtr>>,
           met' \subseteq Vars, metLvl' \subseteq Vars, lits' \in Clauses, nbLvl' \in Int, walk' \in Int,
           pending' \in Seq(Lits), \A k \in DOMAIN pending' : Follows(pending'[k])
    PROVE  LiveInv'
<1>1. pc' \notin {"cut", "learned"}
  OBVIOUS
<1>2. /\ KeepsAll /\ DatabaseOK' /\ Solutions' = Solutions /\ ClauseIds' = ClauseIds
  BY SameDatabase DEF LiveInv
<1>3. PBTypeOK /\ PBListsInv'
  BY SameLists DEF LiveInv
<1>4. /\ BindingsOK' /\ model' \in [Vars -> Int] /\ trail' \in Seq(Lits)
      /\ reason' \in [Vars -> {Nil} \union ClauseIds] /\ polarity' \in [Vars -> BOOLEAN]
      /\ CleanQueue(1) \subseteq Vars
      /\ \A v \in Vars : Level(v)' <= 1
      /\ \A v \in Vars : model'[v] = 0 => reason'[v] = Nil
  BY <1>1, <1>2, CutToTop
<1>5. PBTypeOK'
  <2>1. lvl' \in Nat /\ lit' \in {NoLit} \union Lits
    OBVIOUS
  <2> QED BY <1>2, <1>3, <1>4, <2>1 DEF PBTypeOK, Watchers
<1>6. PBVisitInv' /\ PBLearnInv' /\ CutInv' /\ PBLevelsInv'
  BY <1>4 DEF PBVisitInv, PBLearnInv, CutInv, PBLevelsInv
<1>7. PBUnifyInv'
  <2>1. VarOf(u) \in Vars
    BY LitFacts
  <2>2. model'[VarOf(lit')] = 0 => reason'[VarOf(lit')] = Nil
    BY <1>4, <2>1
  <2>3. Follows(u)' /\ \A k \in DOMAIN pending' : Follows(pending[k])'
    BY <1>2 DEF Follows
  <2> QED BY <2>2, <2>3 DEF PBUnifyInv
<1> QED BY <1>2, <1>3, <1>4, <1>5, <1>6, <1>7 DEF LiveInv

\* propagateUnits and the learned units.
LEMMA BindUnitLive ==
    ASSUME LiveInv, BindUnit, status' # "Unsat"
    PROVE  LiveInv'
<1> DEFINE u == Head(pending)
<1>1. /\ pc # "unify" /\ CleanupBindings(1) /\ reason' = CleanReason(1) /\ queue' = CleanQueue(1)
      /\ lit' = u /\ lvl' = 1 /\ pc' = "unify" /\ pending' = Tail(pending)
      /\ UNCHANGED cutVars /\ BindKeeps
  BY DEF BindUnit, AnswerUnsat, Propagated
<1>2. /\ UNCHANGED <<clauses, watched, wlistBin, wlist, pbs, wlistPb, problem, visiting, pos,
                     todoBin, todo, assumptions, ptr, cut, cutPtr>>
      /\ UNCHANGED <<met, metLvl, lits, nbLvl, walk>>
  BY <1>1 DEF BindKeeps, dbVars, learnVars, pbVars, cutVars
<1>3. /\ met \subseteq Vars /\ metLvl \subseteq Vars /\ lits \in Clauses /\ nbLvl \in Int
      /\ walk \in Int /\ pending \in Seq(Lits) /\ \A k \in DOMAIN pending : Follows(pending[k])
      /\ pending # <<>>
  BY DEF LiveInv, PBTypeOK, PBUnifyInv, BindUnit
<1>4. /\ u \in Lits /\ Follows(u)
      /\ Tail(pending) \in Seq(Lits) /\ \A k \in DOMAIN Tail(pending) : Follows(Tail(pending)[k])
  <2>1. /\ Len(pending) \in Nat /\ Len(pending) > 0 /\ 1 \in DOMAIN pending /\ u = pending[1]
        /\ DOMAIN pending = 1 .. Len(pending)
    BY <1>3
  <2>2. /\ Tail(pending) \in Seq(Lits) /\ Len(Tail(pending)) = Len(pending) - 1
        /\ \A k \in 1 .. Len(Tail(pending)) : Tail(pending)[k] = pending[k + 1]
        /\ DOMAIN Tail(pending) = 1 .. Len(Tail(pending))
    BY <1>3, <2>1, HeadTailProperties
  <2>3. \A k \in 1 .. Len(Tail(pending)) : k + 1 \in DOMAIN pending
    BY <2>1, <2>2
  <2> QED BY <1>3, <2>1, <2>2, <2>3
<1> HIDE DEF u
<1> QED BY <1>1, <1>2, <1>3, <1>4, TopUnit

=============================================================================
