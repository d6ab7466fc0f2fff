--------------------------- MODULE VarQueueProofs ---------------------------
(***************************************************************************)
(* No unbound variable is ever missing from the heap, whatever the         *)
(* activities and although there are duplicates.                           *)
(***************************************************************************)
EXTENDS VarQueue, LitsProofs, SequenceTheorems

-----------------------------------------------------------------------------
(* Sequences.                                                              *)

\* The members of a sequence.
LEMMA MembersFacts ==
    ASSUME NEW S, NEW s \in Seq(S)
    PROVE  /\ ToSet(s) \subseteq S
           /\ \A x : x \in ToSet(s) <=> \E i \in 1 .. Len(s) : s[i] = x
           /\ DOMAIN s = 1 .. Len(s) /\ Len(s) \in Nat
<1>1. DOMAIN s = 1 .. Len(s) /\ Len(s) \in Nat /\ \A i \in 1 .. Len(s) : s[i] \in S
  BY LenProperties, ElementOfSeq
<1> QED BY <1>1 DEF ToSet

LEMMA NoMembers == ToSet(<<>>) = {}
BY DEF ToSet

\* The first element and the others are all there is.
LEMMA MembersSplit ==
    ASSUME NEW S, NEW s \in Seq(S), s # <<>>
    PROVE  /\ Head(s) \in S /\ Tail(s) \in Seq(S)
           /\ ToSet(s) = {Head(s)} \union ToSet(Tail(s))
<1>1. /\ Len(s) \in Nat \ {0} /\ Head(s) \in S /\ Head(s) = s[1] /\ Tail(s) \in Seq(S)
      /\ Len(Tail(s)) = Len(s) - 1
      /\ \A i \in 1 .. Len(s) - 1 : Tail(s)[i] = s[i + 1]
  <2>1. Len(s) \in Nat /\ Len(s) # 0
    BY LenProperties, EmptySeq
  <2>2. Head(s) = s[1] /\ s[1] \in S
    BY <2>1, ElementOfSeq
  <2> QED BY <2>1, <2>2, HeadTailProperties
<1>2. \A x : x \in ToSet(s) <=> \E i \in 1 .. Len(s) : s[i] = x
  BY MembersFacts
<1>3. \A x : x \in ToSet(Tail(s)) <=> \E i \in 1 .. Len(s) - 1 : s[i + 1] = x
  <2> DEFINE t == Tail(s)
  <2>1. t \in Seq(S) /\ Len(t) = Len(s) - 1 /\ \A i \in 1 .. Len(s) - 1 : t[i] = s[i + 1]
    BY <1>1
  <2> HIDE DEF t
  <2>2. \A x : x \in ToSet(t) <=> \E i \in 1 .. Len(t) : t[i] = x
    BY <2>1, MembersFacts
  <2>3. \A x : x \in ToSet(t) <=> \E i \in 1 .. Len(s) - 1 : s[i + 1] = x
    BY <2>1, <2>2
  <2> QED BY <2>3 DEF t
<1>4. ASSUME NEW x \in ToSet(s) PROVE x = Head(s) \/ x \in ToSet(Tail(s))
  <2>1. PICK i \in 1 .. Len(s) : s[i] = x
    BY <1>2
  <2>2. CASE i # 1
    <3>1. i - 1 \in 1 .. Len(s) - 1 /\ s[(i - 1) + 1] = x
      BY <1>1, <2>1, <2>2
    <3> QED BY <3>1, <1>3
  <2> QED BY <1>1, <2>1, <2>2
<1>5. ASSUME NEW x, x = Head(s) \/ x \in ToSet(Tail(s)) PROVE x \in ToSet(s)
  <2>1. CASE x = Head(s)
    BY <1>1, <1>2, <2>1
  <2>2. CASE x \in ToSet(Tail(s))
    <3>1. PICK i \in 1 .. Len(s) - 1 : s[i + 1] = x
      BY <1>3, <2>2
    <3>2. i + 1 \in 1 .. Len(s)
      BY <1>1
    <3> QED BY <3>1, <3>2, <1>2
  <2> QED BY <1>5, <2>1, <2>2
<1> QED BY <1>1, <1>4, <1>5

\* One more member.
LEMMA MembersAppend ==
    ASSUME NEW S, NEW s \in Seq(S), NEW e \in S
    PROVE  Append(s, e) \in Seq(S) /\ ToSet(Append(s, e)) = ToSet(s) \union {e}
<1>1. /\ Append(s, e) \in Seq(S) /\ Len(Append(s, e)) = Len(s) + 1 /\ Len(s) \in Nat
      /\ \A i \in 1 .. Len(s) : Append(s, e)[i] = s[i]
      /\ Append(s, e)[Len(s) + 1] = e
  BY AppendProperties, LenProperties
<1>2. \A x : x \in ToSet(s) <=> \E i \in 1 .. Len(s) : s[i] = x
  BY MembersFacts
<1>3. \A x : x \in ToSet(Append(s, e)) <=> \E i \in 1 .. Len(s) + 1 : Append(s, e)[i] = x
  <2> DEFINE t == Append(s, e)
  <2>1. t \in Seq(S) /\ Len(t) = Len(s) + 1
    BY <1>1
  <2> HIDE DEF t
  <2>2. \A x : x \in ToSet(t) <=> \E i \in 1 .. Len(t) : t[i] = x
    BY <2>1, MembersFacts
  <2> QED BY <2>1, <2>2 DEF t
<1>4. \A i \in 1 .. Len(s) + 1 : i \in 1 .. Len(s) \/ i = Len(s) + 1
  BY <1>1
<1>5. ToSet(Append(s, e)) \subseteq ToSet(s) \union {e}
  BY <1>1, <1>2, <1>3, <1>4
<1>6. ToSet(s) \union {e} \subseteq ToSet(Append(s, e))
  <2>1. \A i \in 1 .. Len(s) : i \in 1 .. Len(s) + 1
    BY <1>1
  <2>2. Len(s) + 1 \in 1 .. Len(s) + 1
    BY <1>1
  <2> QED BY <1>1, <1>2, <1>3, <2>1, <2>2
<1> QED BY <1>1, <1>5, <1>6

\* A sequence cut in two.
LEMMA MembersCut ==
    ASSUME NEW S, NEW s \in Seq(S), NEW k \in 0 .. Len(s)
    PROVE  /\ SubSeq(s, 1, k) \in Seq(S) /\ SubSeq(s, k + 1, Len(s)) \in Seq(S)
           /\ ToSet(s) \subseteq ToSet(SubSeq(s, 1, k)) \union ToSet(SubSeq(s, k + 1, Len(s)))
<1> DEFINE a == SubSeq(s, 1, k)
           b == SubSeq(s, k + 1, Len(s))
<1>1. Len(s) \in Nat /\ k \in Nat /\ k <= Len(s) /\ \A i \in 1 .. Len(s) : s[i] \in S
  BY LenProperties, ElementOfSeq
<1>2. a \in Seq(S) /\ Len(a) = k /\ \A i \in 1 .. k : a[i] = s[i]
  BY <1>1, SubSeqProperties
<1>3. b \in Seq(S) /\ Len(b) = Len(s) - k /\ \A i \in 1 .. Len(s) - k : b[i] = s[k + i]
  BY <1>1, SubSeqProperties
<1> HIDE DEF a, b
<1>4. ASSUME NEW x \in ToSet(s) PROVE x \in ToSet(a) \union ToSet(b)
  <2>1. PICK i \in 1 .. Len(s) : s[i] = x
    BY MembersFacts
  <2>2. CASE i <= k
    <3>1. i \in 1 .. Len(a) /\ a[i] = x
      BY <1>1, <1>2, <2>1, <2>2
    <3> QED BY <3>1, <1>2, MembersFacts
  <2>3. CASE i > k
    <3>1. i - k \in 1 .. Len(b) /\ k + (i - k) = i
      BY <1>1, <1>3, <2>1, <2>3
    <3>2. b[i - k] = x
      BY <3>1, <1>3, <2>1
    <3> QED BY <3>1, <3>2, <1>3, MembersFacts
  <2> QED BY <1>1, <2>2, <2>3
<1> QED BY <1>2, <1>3, <1>4 DEF a, b

\* A sequence in the opposite order.
LEMMA MembersReverse ==
    ASSUME NEW S, NEW s \in Seq(S)
    PROVE  Reverse(s) \in Seq(S)
<1>1. Len(s) \in Nat /\ \A i \in 1 .. Len(s) : s[i] \in S
  BY LenProperties, ElementOfSeq
<1>2. \A i \in 1 .. Len(s) : Len(s) - i + 1 \in 1 .. Len(s)
  BY <1>1
<1> QED BY <1>1, <1>2, IsASeq DEF Reverse

-----------------------------------------------------------------------------
(* Variables in order.                                                     *)

\* An increasing enumeration of V.
Enumerates(s, V) ==
    /\ s \in [1 .. Cardinality(V) -> V]
    /\ ToSet(s) = V
    /\ \A i, j \in DOMAIN s : i < j => s[i] < s[j]

\* There is one: the greatest member comes after those of the others.
LEMMA EnumerationExists ==
    ASSUME NEW V, V \subseteq Vars
    PROVE  \E s : Enumerates(s, V)
<1> DEFINE U(n) == {v \in V : v < n}
           T == {n \in 0 .. NbVars : ~ \E s : Enumerates(s, U(n))}
<1>1. NbVars \in Nat /\ \A v \in V : v \in Nat /\ v < NbVars
  BY NbVarsAssumption DEF Vars
<1>2. T = {}
  <2> SUFFICES ASSUME T # {} PROVE FALSE
    OBVIOUS
  <2>1. T \subseteq Nat
    BY <1>1
  <2>2. PICK n \in T : \A m \in T : n <= m
    <3> HIDE DEF T
    <3> QED BY <2>1, NatMin
  <2>3. n # 0
    <3> SUFFICES ASSUME n = 0 PROVE FALSE
      OBVIOUS
    <3>1. U(0) = {}
      BY <1>1
    <3>2. Cardinality(U(0)) = 0
      BY <3>1, FS_EmptySet
    <3>3. Enumerates([i \in 1 .. 0 |-> 0], U(0))
      <4>1. 1 .. 0 = {}
        OBVIOUS
      <4>2. [i \in 1 .. 0 |-> 0] \in [1 .. 0 -> {}]
        BY <4>1
      <4>3. ToSet([i \in 1 .. 0 |-> 0]) = {}
        BY <4>1 DEF ToSet
      <4>4. \A i, j \in DOMAIN [i \in 1 .. 0 |-> 0] : FALSE
        BY <4>1
      <4> HIDE DEF U
      <4> QED BY <3>1, <3>2, <4>2, <4>3, <4>4 DEF Enumerates
    <3> QED BY <3>3, <2>2
  <2>4. n - 1 \in 0 .. NbVars /\ n - 1 \notin T
    <3>1. n \in 0 .. NbVars /\ n - 1 \in 0 .. NbVars /\ ~ (n <= n - 1)
      BY <1>1, <2>2, <2>3
    <3> HIDE DEF T
    <3> QED BY <3>1, <2>2
  <2>5. PICK s : Enumerates(s, U(n - 1))
    BY <2>4
  <2> DEFINE c == Cardinality(U(n - 1))
             t == [i \in 1 .. c + 1 |-> IF i = c + 1 THEN n - 1 ELSE s[i]]
  <2>6. CASE n - 1 \notin V
    <3>1. U(n) = U(n - 1)
      BY <1>1, <2>2, <2>6
    <3> QED BY <3>1, <2>2, <2>5
  <2>7. CASE n - 1 \in V
    <3>1. U(n) = U(n - 1) \union {n - 1} /\ n - 1 \notin U(n - 1)
      BY <1>1, <2>2, <2>7
    <3>2. IsFiniteSet(U(n - 1))
      <4>1. IsFiniteSet(0 .. NbVars)
        BY <1>1, FS_Interval
      <4>2. U(n - 1) \subseteq 0 .. NbVars
        BY <1>1
      <4> QED BY <4>1, <4>2, FS_Subset
    <3>3. Cardinality(U(n)) = c + 1 /\ c \in Nat
      BY <3>1, <3>2, FS_AddElement, FS_CardinalityType
    <3>4. n - 1 \in U(n) /\ \A u \in U(n - 1) : u < n - 1 /\ u \in U(n)
      BY <3>1
    <3>5. s \in [1 .. c -> U(n - 1)] /\ ToSet(s) = U(n - 1)
          /\ \A i, j \in 1 .. c : i < j => s[i] < s[j]
      BY <2>5 DEF Enumerates
    <3> HIDE DEF c, U
    <3>6. /\ t \in [1 .. c + 1 -> U(n)] /\ t[c + 1] = n - 1
          /\ \A i \in 1 .. c : t[i] = s[i]
      <4>1. \A i \in 1 .. c + 1 : i = c + 1 \/ i \in 1 .. c
        BY <3>3
      <4>2. c + 1 \in 1 .. c + 1 /\ \A i \in 1 .. c : i \in 1 .. c + 1 /\ i # c + 1
        BY <3>3
      <4>3. \A i \in 1 .. c : s[i] \in U(n)
        BY <3>4, <3>5
      <4>4. \A i \in 1 .. c + 1 : (IF i = c + 1 THEN n - 1 ELSE s[i]) \in U(n)
        BY <4>1, <4>3, <3>4
      <4> QED BY <4>2, <4>4
    <3>7. \A i, j \in 1 .. c + 1 : i < j => t[i] < t[j]
      <4> SUFFICES ASSUME NEW i \in 1 .. c + 1, NEW j \in 1 .. c + 1, i < j
                   PROVE  t[i] < t[j]
        OBVIOUS
      <4>1. i \in 1 .. c /\ t[i] = s[i] /\ s[i] \in U(n - 1)
        BY <3>3, <3>5, <3>6
      <4>2. CASE j = c + 1
        BY <4>1, <4>2, <3>4, <3>6
      <4>3. CASE j \in 1 .. c
        BY <4>1, <4>3, <3>5, <3>6
      <4> QED BY <4>2, <4>3, <3>3
    <3>8. ToSet(t) = U(n)
      <4>1. \A v \in U(n - 1) : \E i \in 1 .. c : s[i] = v
        BY <3>5 DEF ToSet
      <4>2. \A v \in U(n) : \E i \in 1 .. c + 1 : t[i] = v
        BY <4>1, <3>1, <3>3, <3>6
      <4> HIDE DEF t
      <4> QED BY <4>2, <3>6 DEF ToSet
    <3> HIDE DEF t
    <3>9. Enumerates(t, U(n))
      BY <3>3, <3>6, <3>7, <3>8 DEF Enumerates
    <3> QED BY <3>9, <2>2
  <2> QED BY <2>6, <2>7
<1>3. U(NbVars) = V
  BY <1>1
<1>4. NbVars \in 0 .. NbVars
  BY <1>1
<1> QED BY <1>2, <1>3, <1>4

\* What rebuildOrderHeap and newQueue go through.
LEMMA InOrderFacts ==
    ASSUME NEW V, V \subseteq Vars
    PROVE  InOrder(V) \in Seq(V) /\ ToSet(InOrder(V)) = V
<1>1. Enumerates(InOrder(V), V)
  BY EnumerationExists DEF InOrder, Enumerates
<1>2. Cardinality(V) \in Nat
  <2>1. NbVars \in Nat
    BY NbVarsAssumption
  <2>2. IsFiniteSet(Vars)
    BY <2>1, FS_Interval DEF Vars
  <2> QED BY <2>2, FS_Subset, FS_CardinalityType
<1> QED BY <1>1, <1>2 DEF Enumerates

-----------------------------------------------------------------------------
(* The operations of the heap.                                             *)

\* The types, spelled out.
LEMMA HeapFacts ==
    ASSUME TypeOK
    PROVE  /\ Len(content) \in Nat /\ DOMAIN content = 1 .. Len(content)
           /\ \A i \in 1 .. Len(content) : content[i] \in Vars
           /\ ToSet(content) \subseteq Vars
           /\ \A x : x \in ToSet(content) <=> \E i \in 1 .. Len(content) : content[i] = x
           /\ content = <<>> <=> Len(content) = 0
<1>1. content \in Seq(Vars)
  BY DEF TypeOK
<1> QED BY <1>1, MembersFacts, ElementOfSeq, EmptySeq

\* Two items that trade places stay in the heap, and the reverse index follows.
LEMMA ExchangeFacts ==
    ASSUME TypeOK, IndicesAgree, NEW i \in 1 .. Len(content), NEW j \in 1 .. Len(content),
           content[i] # content[j], Exchange(i, j)
    PROVE  /\ content' \in Seq(Vars) /\ Len(content') = Len(content)
           /\ ToSet(content') = ToSet(content)
           /\ indices' \in [Vars -> Nat] /\ IndicesAgree'
<1>1. /\ content \in Seq(Vars) /\ indices \in [Vars -> Nat] /\ Len(content) \in Nat
      /\ \A k \in 1 .. Len(content) : content[k] \in Vars
      /\ DOMAIN content = 1 .. Len(content)
  BY HeapFacts DEF TypeOK
<1>2. content \in [1 .. Len(content) -> Vars]
  BY <1>1
<1>3. /\ content' \in [1 .. Len(content) -> Vars]
      /\ content'[i] = content[j] /\ content'[j] = content[i]
      /\ \A k \in 1 .. Len(content) : k # i /\ k # j => content'[k] = content[k]
  BY <1>1, <1>2 DEF Exchange
<1>4. content' \in Seq(Vars) /\ Len(content') = Len(content) /\ DOMAIN content' = 1 .. Len(content)
  BY <1>1, <1>3
<1>5. /\ indices' \in [Vars -> Nat]
      /\ indices'[content[i]] = j /\ indices'[content[j]] = i
      /\ \A v \in Vars : v # content[i] /\ v # content[j] => indices'[v] = indices[v]
  BY <1>1 DEF Exchange
<1>6. IndicesAgree'
  <2> SUFFICES ASSUME NEW v \in Vars, indices'[v] # 0
               PROVE  indices'[v] \in 1 .. Len(content) /\ content'[indices'[v]] = v
    BY <1>4 DEF IndicesAgree, InHeap
  <2>1. CASE v = content[i] \/ v = content[j]
    BY <1>3, <1>5, <2>1
  <2>2. CASE v # content[i] /\ v # content[j]
    <3>1. indices[v] \in 1 .. Len(content) /\ content[indices[v]] = v
      BY <1>1, <1>5, <2>2 DEF IndicesAgree, InHeap
    <3>2. indices[v] # i /\ indices[v] # j
      BY <3>1, <2>2
    <3> QED BY <1>3, <1>5, <2>2, <3>1, <3>2
  <2> QED BY <2>1, <2>2
<1>7. \A x : x \in ToSet(content) <=> \E k \in 1 .. Len(content) : content[k] = x
  BY HeapFacts
<1>8. \A x : x \in ToSet(content') <=> \E k \in 1 .. Len(content) : content'[k] = x
  BY <1>4, MembersFacts
<1>9. ToSet(content') = ToSet(content)
  <2>1. \A k \in 1 .. Len(content) : \E m \in 1 .. Len(content) : content'[k] = content[m]
    BY <1>3
  <2>2. \A k \in 1 .. Len(content) : \E m \in 1 .. Len(content) : content[k] = content'[m]
    BY <1>3
  <2>3. ASSUME NEW x \in ToSet(content) PROVE x \in ToSet(content')
    BY <1>7, <1>8, <2>2
  <2>4. ASSUME NEW x \in ToSet(content') PROVE x \in ToSet(content)
    BY <1>7, <1>8, <2>1
  <2> QED BY <2>3, <2>4
<1> QED BY <1>4, <1>5, <1>6, <1>9

\* The item that settles is where its index says.
LEMMA SettleFacts ==
    ASSUME TypeOK, IndicesAgree, NEW i \in 1 .. Len(content), Settle(i)
    PROVE  indices' \in [Vars -> Nat] /\ IndicesAgree'
<1>1. /\ indices \in [Vars -> Nat] /\ content[i] \in Vars /\ i \in Nat
      /\ content' = content /\ DOMAIN content = 1 .. Len(content)
  BY HeapFacts DEF TypeOK, Settle
<1>2. /\ indices' \in [Vars -> Nat] /\ indices'[content[i]] = i
      /\ \A v \in Vars : v # content[i] => indices'[v] = indices[v]
  BY <1>1 DEF Settle
<1>3. IndicesAgree'
  <2> SUFFICES ASSUME NEW v \in Vars, indices'[v] # 0
               PROVE  indices'[v] \in 1 .. Len(content) /\ content[indices'[v]] = v
    BY <1>1 DEF IndicesAgree, InHeap
  <2>1. CASE v = content[i]
    BY <1>2, <2>1
  <2>2. CASE v # content[i]
    BY <1>1, <1>2, <2>2 DEF IndicesAgree, InHeap
  <2> QED BY <2>1, <2>2
<1> QED BY <1>2, <1>3

\* An item added at the end.
LEMMA InsertFacts ==
    ASSUME TypeOK, IndicesAgree, NEW n \in Vars, Insert(n)
    PROVE  /\ content' \in Seq(Vars) /\ Len(content') = Len(content) + 1
           /\ ToSet(content') = ToSet(content) \union {n}
           /\ up' \in 0 .. Len(content') /\ down' = down
           /\ indices' \in [Vars -> Nat] /\ IndicesAgree'
<1>1. /\ content \in Seq(Vars) /\ indices \in [Vars -> Nat] /\ Len(content) \in Nat
      /\ DOMAIN content = 1 .. Len(content)
      /\ content' = Append(content, n) /\ up' = Len(content) + 1
      /\ indices' = [indices EXCEPT ![n] = Len(content) + 1] /\ down' = down
  BY HeapFacts DEF TypeOK, Insert
<1>2. /\ content' \in Seq(Vars) /\ Len(content') = Len(content) + 1
      /\ \A i \in 1 .. Len(content) : content'[i] = content[i]
      /\ content'[Len(content) + 1] = n
  BY <1>1, AppendProperties
<1>3. DOMAIN content' = 1 .. Len(content) + 1
  BY <1>2, LenProperties
<1>4. /\ indices' \in [Vars -> Nat] /\ indices'[n] = Len(content) + 1
      /\ \A v \in Vars : v # n => indices'[v] = indices[v]
  BY <1>1
<1>5. IndicesAgree'
  <2> SUFFICES ASSUME NEW v \in Vars, indices'[v] # 0
               PROVE  indices'[v] \in 1 .. Len(content) + 1 /\ content'[indices'[v]] = v
    BY <1>3 DEF IndicesAgree, InHeap
  <2>1. CASE v = n
    BY <1>1, <1>2, <1>4, <2>1
  <2>2. CASE v # n
    <3>1. indices[v] \in 1 .. Len(content) /\ content[indices[v]] = v
      BY <1>1, <1>4, <2>2 DEF IndicesAgree, InHeap
    <3> QED BY <1>1, <1>2, <1>4, <2>2, <3>1
  <2> QED BY <2>1, <2>2
<1>6. ToSet(content') = ToSet(content) \union {n}
  BY <1>1, MembersAppend
<1> QED BY <1>1, <1>2, <1>4, <1>5, <1>6

\* One copy of the first item is removed, all others stay.
LEMMA RemoveMinFacts ==
    ASSUME TypeOK, IndicesAgree, content # <<>>, RemoveMin
    PROVE  /\ content' \in Seq(Vars) /\ Len(content') = Len(content) - 1
           /\ Head(content) \in Vars
           /\ ToSet(content) \subseteq ToSet(content') \union {Head(content)}
           /\ up' = up /\ down' \in 0 .. Len(content')
           /\ indices' \in [Vars -> Nat] /\ IndicesAgree'
<1> DEFINE n == Len(content)
<1>1. /\ content \in Seq(Vars) /\ indices \in [Vars -> Nat] /\ n \in Nat \ {0}
      /\ DOMAIN content = 1 .. n /\ \A i \in 1 .. n : content[i] \in Vars
  BY HeapFacts DEF TypeOK
<1>2. Head(content) = content[1] /\ Last(content) = content[n]
  BY <1>1 DEF Last
<1>3. /\ Rest \in Seq(Vars) /\ Len(Rest) = n - 1 /\ DOMAIN Rest = 1 .. n - 1
      /\ \A i \in 1 .. n - 1 : Rest[i] = content[IF i = 1 THEN n ELSE i]
  <2>1. \A i \in 1 .. n - 1 : content[IF i = 1 THEN n ELSE i] \in Vars
    BY <1>1
  <2>2. n - 1 \in Nat
    BY <1>1
  <2> HIDE DEF n
  <2>3. Rest = [i \in 1 .. n - 1 |-> content[IF i = 1 THEN n ELSE i]]
    BY DEF Rest, n
  <2> QED BY <2>1, <2>2, <2>3
<1>4. /\ content' = Rest /\ up' = up /\ down' = IF n - 1 > 1 THEN 1 ELSE 0
      /\ indices' = [indices EXCEPT ![content[n]] = 1, ![content[1]] = 0]
  BY <1>2, <1>3 DEF RemoveMin
<1> HIDE DEF n
<1>5. content[1] \in Vars /\ content[n] \in Vars
  BY <1>1
<1>6. /\ indices' \in [Vars -> Nat] /\ indices'[content[1]] = 0
      /\ content[n] # content[1] => indices'[content[n]] = 1
      /\ \A v \in Vars : v # content[1] /\ v # content[n] => indices'[v] = indices[v]
  BY <1>1, <1>4, <1>5
<1>7. IndicesAgree'
  <2> SUFFICES ASSUME NEW v \in Vars, indices'[v] # 0
               PROVE  indices'[v] \in 1 .. n - 1 /\ Rest[indices'[v]] = v
    BY <1>3, <1>4 DEF IndicesAgree, InHeap
  <2>1. v # content[1]
    BY <1>6
  <2>2. CASE v = content[n]
    <3>1. indices'[v] = 1 /\ n # 1
      BY <1>6, <2>1, <2>2
    <3> QED BY <1>1, <1>3, <2>2, <3>1
  <2>3. CASE v # content[n]
    <3>1. indices'[v] = indices[v]
      BY <1>6, <2>1, <2>3
    <3>2. indices[v] \in 1 .. n /\ content[indices[v]] = v
      BY <1>1, <3>1 DEF IndicesAgree, InHeap
    <3>3. indices[v] # 1 /\ indices[v] # n
      BY <2>1, <2>3, <3>2
    <3> QED BY <1>1, <1>3, <3>1, <3>2, <3>3
  <2> QED BY <2>2, <2>3
<1>8. ASSUME NEW x \in ToSet(content), x # content[1] PROVE x \in ToSet(Rest)
  <2>1. PICK i \in 1 .. n : content[i] = x
    BY HeapFacts DEF n
  <2>2. \E k \in 1 .. n - 1 : Rest[k] = x
    <3>1. i # 1 /\ n # 1
      BY <1>1, <1>8, <2>1
    <3>2. CASE i = n
      <4>1. 1 \in 1 .. n - 1 /\ Rest[1] = content[n]
        BY <1>1, <1>3, <3>1
      <4> QED BY <4>1, <2>1, <3>2
    <3>3. CASE i # n
      <4>1. i \in 1 .. n - 1 /\ Rest[i] = content[i]
        BY <1>1, <1>3, <3>1, <3>3
      <4> QED BY <4>1, <2>1
    <3> QED BY <3>2, <3>3
  <2> QED BY <2>2, <1>3 DEF ToSet
<1>9. down' \in 0 .. n - 1
  BY <1>1, <1>4
<1> QED BY <1>2, <1>3, <1>4, <1>5, <1>6, <1>7, <1>8, <1>9 DEF n

-----------------------------------------------------------------------------
(* The actions.                                                            *)

LEMMA QueueInit == Init => Inv
<1> SUFFICES ASSUME Init PROVE Inv
  OBVIOUS
<1>1. todo \in Seq(Vars) /\ ToSet(todo) = Vars
  BY InOrderFacts DEF Init
<1>2. <<>> \in Seq(Vars) /\ Len(<<>>) = 0
  BY EmptySeq
<1>3. activity \in [Vars -> Nat]
  BY BoundsAssumption DEF Init
<1>4. TypeOK
  BY <1>1, <1>2, <1>3 DEF TypeOK, Init
<1>5. IndicesAgree
  BY DEF IndicesAgree, InHeap, Init
<1>6. NoneMissing
  BY <1>1 DEF NoneMissing, Coming, Init
<1> QED BY <1>4, <1>5, <1>6 DEF Inv, Init

\* A parent is above its child, and neither is out of bounds.
LEMMA UpInv == Inv /\ PercolateUp => Inv'
<1> SUFFICES ASSUME Inv, PercolateUp PROVE Inv'
  OBVIOUS
<1>0. TypeOK /\ IndicesAgree /\ NoneMissing
  BY DEF Inv
<1>1. /\ Len(content) \in Nat /\ up \in 1 .. Len(content) /\ down \in 0 .. Len(content)
      /\ activity' = activity /\ down' = down /\ trail' = trail /\ pc' = pc
      /\ todo' = todo /\ missed' = missed
  BY HeapFacts DEF Inv, TypeOK, PercolateUp
<1>2. /\ content' \in Seq(Vars) /\ Len(content') = Len(content)
      /\ ToSet(content') = ToSet(content) /\ up' \in 0 .. Len(content')
      /\ indices' \in [Vars -> Nat] /\ IndicesAgree'
  <2>1. CASE up > 1 /\ Lt(content[up], content[up \div 2])
    <3>1. up \div 2 \in 1 .. Len(content)
      BY <1>1, <2>1
    <3>2. content[up] # content[up \div 2]
      <4>1. content[up] \in Vars /\ activity[content[up]] \in Nat
        BY <1>0, <1>1, HeapFacts DEF TypeOK
      <4> QED BY <2>1, <4>1 DEF Lt
    <3>3. Exchange(up, up \div 2) /\ up' = up \div 2
      BY <2>1 DEF PercolateUp
    <3> QED BY <1>0, <1>1, <3>1, <3>2, <3>3, ExchangeFacts
  <2>2. CASE ~ (up > 1 /\ Lt(content[up], content[up \div 2]))
    <3>1. Settle(up) /\ up' = 0 /\ content' = content
      BY <2>2 DEF PercolateUp, Settle
    <3> QED BY <1>0, <1>1, <3>1, SettleFacts DEF TypeOK
  <2> QED BY <2>1, <2>2
<1>3. DOMAIN content' = DOMAIN content
  BY <1>0, <1>2, HeapFacts, LenProperties
<1>4. TypeOK'
  BY <1>0, <1>1, <1>2, <1>3 DEF TypeOK
<1>5. NoneMissing'
  BY <1>0, <1>1, <1>2 DEF NoneMissing, Bound, Coming
<1>6. pc' = "sat" => content' = <<>>
  BY <1>1, HeapFacts, <1>0 DEF Inv
<1> QED BY <1>2, <1>4, <1>5, <1>6 DEF Inv

LEMMA DownInv == Inv /\ PercolateDown => Inv'
<1> SUFFICES ASSUME Inv, PercolateDown PROVE Inv'
  OBVIOUS
<1>0. TypeOK /\ IndicesAgree /\ NoneMissing
  BY DEF Inv
<1>1. /\ Len(content) \in Nat /\ down \in 1 .. Len(content) /\ up \in 0 .. Len(content)
      /\ activity' = activity /\ up' = up /\ trail' = trail /\ pc' = pc
      /\ todo' = todo /\ missed' = missed
  BY HeapFacts DEF Inv, TypeOK, PercolateDown
<1>2. /\ content' \in Seq(Vars) /\ Len(content') = Len(content)
      /\ ToSet(content') = ToSet(content) /\ down' \in 0 .. Len(content')
      /\ indices' \in [Vars -> Nat] /\ IndicesAgree'
  <2> DEFINE c == Child(down)
  <2>1. CASE 2 * down <= Len(content) /\ Lt(content[c], content[down])
    <3>1. c \in 1 .. Len(content)
      BY <1>1, <2>1 DEF Child
    <3>2. content[down] # content[c]
      <4>1. content[down] \in Vars /\ activity[content[down]] \in Nat
        BY <1>0, <1>1, HeapFacts DEF TypeOK
      <4> QED BY <2>1, <4>1 DEF Lt
    <3>3. Exchange(down, c) /\ down' = c
      BY <2>1 DEF PercolateDown
    <3> HIDE DEF c
    <3> QED BY <1>0, <1>1, <3>1, <3>2, <3>3, ExchangeFacts
  <2>2. CASE ~ (2 * down <= Len(content) /\ Lt(content[c], content[down]))
    <3>1. Settle(down) /\ down' = 0 /\ content' = content
      BY <2>2 DEF PercolateDown, Settle
    <3> QED BY <1>0, <1>1, <3>1, SettleFacts DEF TypeOK
  <2> QED BY <2>1, <2>2
<1>3. DOMAIN content' = DOMAIN content
  BY <1>0, <1>2, HeapFacts, LenProperties
<1>4. TypeOK'
  BY <1>0, <1>1, <1>2, <1>3 DEF TypeOK
<1>5. NoneMissing'
  BY <1>0, <1>1, <1>2 DEF NoneMissing, Bound, Coming
<1>6. pc' = "sat" => content' = <<>>
  BY <1>1, HeapFacts, <1>0 DEF Inv
<1> QED BY <1>2, <1>4, <1>5, <1>6 DEF Inv

\* The first item is bound, before or by this step.
LEMMA ChooseInv == Inv /\ ChooseLit => Inv'
<1> SUFFICES ASSUME Inv, ChooseLit PROVE Inv'
  OBVIOUS
<1>0. TypeOK /\ IndicesAgree /\ NoneMissing
  BY DEF Inv
<1>1. /\ pc = "choose" /\ up = 0 /\ content # <<>> /\ RemoveMin
      /\ activity' = activity /\ todo' = todo /\ missed' = missed
  BY DEF ChooseLit, Still
<1>2. /\ content' \in Seq(Vars) /\ Len(content') = Len(content) - 1
      /\ Head(content) \in Vars
      /\ ToSet(content) \subseteq ToSet(content') \union {Head(content)}
      /\ up' = up /\ down' \in 0 .. Len(content')
      /\ indices' \in [Vars -> Nat] /\ IndicesAgree'
  BY <1>0, <1>1, RemoveMinFacts
<1>3. /\ trail' \in Seq(Vars) /\ pc' \in {"choose", "search"}
      /\ ToSet(trail) \union {Head(content)} \subseteq ToSet(trail')
  <2>1. CASE Head(content) \in Bound
    BY <1>0, <1>1, <2>1 DEF ChooseLit, TypeOK, Bound
  <2>2. CASE Head(content) \notin Bound
    <3>1. trail' = Append(trail, Head(content)) /\ pc' = "search"
      BY <2>2 DEF ChooseLit
    <3> QED BY <1>0, <1>2, <3>1, MembersAppend DEF TypeOK
  <2> QED BY <2>1, <2>2
<1>4. TypeOK'
  <2>1. up' \in 0 .. Len(content')
    BY <1>1, <1>2, LenProperties
  <2> QED BY <1>0, <1>1, <1>2, <1>3, <2>1 DEF TypeOK
<1>5. NoneMissing'
  BY <1>0, <1>1, <1>2, <1>3 DEF NoneMissing, Bound, Coming
<1> QED BY <1>2, <1>3, <1>4, <1>5 DEF Inv

LEMMA NoneLeftInv == Inv /\ NoneLeft => Inv'
<1> SUFFICES ASSUME Inv, NoneLeft PROVE Inv'
  OBVIOUS
<1>1. TypeOK'
  BY DEF Inv, NoneLeft, TypeOK, heapVars
<1>2. IndicesAgree'
  BY DEF Inv, NoneLeft, IndicesAgree, InHeap, heapVars
<1>3. NoneMissing'
  BY DEF Inv, NoneLeft, NoneMissing, Bound, Coming, heapVars
<1> QED BY <1>1, <1>2, <1>3 DEF Inv, NoneLeft, heapVars

\* More variables are bound.
LEMMA BindInv == ASSUME NEW v \in Vars PROVE Inv /\ Bind(v) => Inv'
<1> SUFFICES ASSUME Inv, Bind(v) PROVE Inv'
  OBVIOUS
<1>1. trail \in Seq(Vars) /\ trail' = Append(trail, v)
  BY DEF Inv, TypeOK, Bind
<1>2. trail' \in Seq(Vars) /\ ToSet(trail) \subseteq ToSet(trail')
  BY <1>1, MembersAppend
<1>3. TypeOK'
  BY <1>2 DEF Inv, Bind, TypeOK, heapVars
<1>4. IndicesAgree'
  BY DEF Inv, Bind, IndicesAgree, InHeap, heapVars
<1>5. NoneMissing'
  BY <1>2 DEF Inv, Bind, NoneMissing, Bound, Coming, heapVars
<1> QED BY <1>3, <1>4, <1>5 DEF Inv, Bind, heapVars

LEMMA DecideInv == Inv /\ (Decide \/ Conflict) => Inv'
<1> SUFFICES ASSUME Inv, Decide \/ Conflict PROVE Inv'
  OBVIOUS
<1>1. TypeOK'
  BY DEF Inv, Decide, Conflict, TypeOK, heapVars
<1>2. IndicesAgree'
  BY DEF Inv, Decide, Conflict, IndicesAgree, InHeap, heapVars
<1>3. NoneMissing'
  BY DEF Inv, Decide, Conflict, NoneMissing, Bound, Coming, heapVars
<1> QED BY <1>1, <1>2, <1>3 DEF Inv, Decide, Conflict, heapVars

\* The variable bumped is where its index says.
LEMMA BumpInv == ASSUME NEW v \in Vars PROVE Inv /\ Bump(v) => Inv'
<1> SUFFICES ASSUME Inv, Bump(v) PROVE Inv'
  OBVIOUS
<1>1. activity' \in [Vars -> Nat]
  BY DEF Inv, TypeOK, Bump
<1>2. /\ content' = content /\ indices' = indices /\ down' = down
      /\ up' \in 0 .. Len(content)
  BY HeapFacts DEF Inv, TypeOK, IndicesAgree, Bump, Decrease, InHeap, heapVars
<1>3. TypeOK'
  BY <1>1, <1>2 DEF Inv, Bump, TypeOK
<1>4. IndicesAgree'
  BY <1>2 DEF Inv, IndicesAgree, InHeap
<1>5. NoneMissing'
  BY <1>2 DEF Inv, Bump, NoneMissing, Bound, Coming
<1> QED BY <1>2, <1>3, <1>4, <1>5 DEF Inv, Bump

\* The variables unbound are those to look at.
LEMMA CleanupInv ==
    ASSUME NEW k \in 0 .. Len(trail) - 1
    PROVE  Inv /\ CleanupBindings(k) => Inv'
<1> SUFFICES ASSUME Inv, CleanupBindings(k) PROVE Inv'
  OBVIOUS
<1>1. /\ trail' \in Seq(Vars) /\ todo' \in Seq(Vars)
      /\ ToSet(trail) \subseteq ToSet(trail') \union ToSet(todo')
  <2>1. trail \in Seq(Vars) /\ Len(trail) \in Nat
    BY LenProperties DEF Inv, TypeOK
  <2>2. k \in 0 .. Len(trail)
    BY <2>1
  <2> QED BY <2>1, <2>2, MembersCut DEF CleanupBindings
<1>2. missed' \in Seq(Vars)
  BY EmptySeq DEF CleanupBindings
<1>3. TypeOK'
  BY <1>1, <1>2 DEF Inv, CleanupBindings, TypeOK, heapVars
<1>4. IndicesAgree'
  BY DEF Inv, CleanupBindings, IndicesAgree, InHeap, heapVars
<1>5. NoneMissing'
  BY <1>1 DEF Inv, CleanupBindings, NoneMissing, Bound, Coming, heapVars
<1> QED BY <1>3, <1>4, <1>5 DEF Inv, CleanupBindings

\* What insert leaves, for both loops.
LEMMA InsertHead ==
    ASSUME Inv, pc \in {"missing", "insert"}, todo # <<>>, Insert(Head(todo)),
           todo' = Tail(todo), missed' \in Seq(Vars),
           UNCHANGED <<activity, trail, pc>>
    PROVE  Inv'
<1>1. /\ Head(todo) \in Vars /\ Tail(todo) \in Seq(Vars)
      /\ ToSet(todo) = {Head(todo)} \union ToSet(Tail(todo))
  BY MembersSplit DEF Inv, TypeOK
<1>2. /\ content' \in Seq(Vars) /\ Len(content') = Len(content) + 1
      /\ ToSet(content') = ToSet(content) \union {Head(todo)}
      /\ up' \in 0 .. Len(content') /\ down' = down
      /\ indices' \in [Vars -> Nat] /\ IndicesAgree'
  BY <1>1, InsertFacts DEF Inv
<1>3. down' \in 0 .. Len(content')
  BY <1>2, HeapFacts DEF Inv, TypeOK
<1>4. TypeOK'
  BY <1>1, <1>2, <1>3 DEF Inv, TypeOK
<1>5. NoneMissing'
  BY <1>1, <1>2 DEF Inv, NoneMissing, Bound, Coming
<1> QED BY <1>2, <1>4, <1>5 DEF Inv

\* A variable that is not inserted has an index, hence is in the heap.
LEMMA InsertMissingInv == Inv /\ InsertMissing => Inv'
<1> SUFFICES ASSUME Inv, InsertMissing PROVE Inv'
  OBVIOUS
<1>1. /\ Head(todo) \in Vars /\ Tail(todo) \in Seq(Vars)
      /\ ToSet(todo) = {Head(todo)} \union ToSet(Tail(todo))
  BY MembersSplit DEF Inv, TypeOK, InsertMissing
<1>2. CASE InHeap(Head(todo))
  <2>1. /\ UNCHANGED <<activity, content, indices, up, down, trail, pc, missed>>
        /\ todo' = Tail(todo) /\ pc = "missing"
    BY <1>2 DEF InsertMissing, heapVars
  <2>2. Head(todo) \in ToSet(content)
    BY <1>1, <1>2 DEF Inv, IndicesAgree, ToSet
  <2>3. TypeOK'
    BY <1>1, <2>1 DEF Inv, TypeOK
  <2>4. IndicesAgree'
    BY <2>1 DEF Inv, IndicesAgree, InHeap
  <2>5. NoneMissing'
    BY <1>1, <2>1, <2>2 DEF Inv, NoneMissing, Bound, Coming
  <2> QED BY <2>1, <2>3, <2>4, <2>5 DEF Inv
<1>3. CASE ~ InHeap(Head(todo))
  <2>1. Insert(Head(todo)) /\ missed' = Append(missed, Head(todo))
    BY <1>3 DEF InsertMissing
  <2>2. missed' \in Seq(Vars)
    BY <1>1, <2>1, MembersAppend DEF Inv, TypeOK
  <2> QED BY <2>1, <2>2, InsertHead DEF InsertMissing
<1> QED BY <1>2, <1>3

LEMMA MissingInsertedInv == Inv /\ MissingInserted => Inv'
<1> SUFFICES ASSUME Inv, MissingInserted PROVE Inv'
  OBVIOUS
<1>1. todo' \in Seq(Vars) /\ missed' \in Seq(Vars) /\ ToSet(todo) = {}
  <2>1. Reverse(missed) \in Seq(Vars)
    BY MembersReverse DEF Inv, TypeOK
  <2>2. todo = <<>> /\ <<>> \in Seq(Vars)
    BY EmptySeq DEF MissingInserted
  <2>3. ToSet(todo) = {}
    BY <2>2, NoMembers
  <2> QED BY <2>1, <2>2, <2>3 DEF MissingInserted
<1>2. TypeOK'
  BY <1>1 DEF Inv, MissingInserted, TypeOK, heapVars
<1>3. IndicesAgree'
  BY DEF Inv, MissingInserted, IndicesAgree, InHeap, heapVars
<1>4. NoneMissing'
  BY <1>1 DEF Inv, MissingInserted, NoneMissing, Bound, Coming, heapVars
<1> QED BY <1>2, <1>3, <1>4 DEF Inv, MissingInserted

LEMMA InsertNextInv == Inv /\ InsertNext => Inv'
BY InsertHead DEF Inv, TypeOK, InsertNext

LEMMA LoopEndsInv == Inv /\ LoopEnds => Inv'
<1> SUFFICES ASSUME Inv, LoopEnds PROVE Inv'
  OBVIOUS
<1>1. ToSet(todo) = {}
  BY NoMembers DEF LoopEnds
<1>2. TypeOK'
  BY DEF Inv, LoopEnds, TypeOK, heapVars
<1>3. IndicesAgree'
  BY DEF Inv, LoopEnds, IndicesAgree, InHeap, heapVars
<1>4. NoneMissing'
  BY <1>1 DEF Inv, LoopEnds, NoneMissing, Bound, Coming, heapVars
<1> QED BY <1>2, <1>3, <1>4 DEF Inv, LoopEnds

\* Every unbound variable is in the new heap, and the last copy of each
\* variable is the one its index tells.
LEMMA RebuildInv == Inv /\ RebuildOrderHeap => Inv'
<1> SUFFICES ASSUME Inv, RebuildOrderHeap PROVE Inv'
  OBVIOUS
<1> DEFINE zeroes == [i \in 1 .. NbVars |-> 0]
           free == InOrder(Vars \ Bound)
           ns == zeroes \o free
<1>1. /\ pc = "search" /\ Build(ns)
      /\ activity' = activity /\ trail' = trail /\ missed' = missed
  BY DEF RebuildOrderHeap
<1>2. free \in Seq(Vars) /\ ToSet(free) = Vars \ Bound
  <2>1. free \in Seq(Vars \ Bound) /\ ToSet(free) = Vars \ Bound
    BY InOrderFacts
  <2> QED BY <2>1, SeqMonotonic
<1>3. zeroes \in Seq(Vars) /\ Len(zeroes) = NbVars
  BY NbVarsAssumption DEF Vars
<1>4. /\ ns \in Seq(Vars) /\ Len(ns) = NbVars + Len(free)
      /\ \A i \in 1 .. NbVars + Len(free) :
            ns[i] = IF i <= NbVars THEN zeroes[i] ELSE free[i - NbVars]
  <2> HIDE DEF zeroes, free
  <2> QED BY <1>2, <1>3, ConcatProperties
<1> HIDE DEF zeroes
<1>5. Len(free) \in Nat /\ NbVars \in Nat
  BY <1>2, LenProperties, NbVarsAssumption
<1> HIDE DEF free, ns
<1>6. Len(ns) \in Nat /\ DOMAIN ns = 1 .. Len(ns) /\ \A i \in 1 .. Len(ns) : ns[i] \in Vars
  BY <1>4, LenProperties, ElementOfSeq
<1>7. Vars \ Bound \subseteq ToSet(ns)
  <2> SUFFICES ASSUME NEW v \in Vars \ Bound PROVE v \in ToSet(ns)
    OBVIOUS
  <2>1. PICK i \in 1 .. Len(free) : free[i] = v
    BY <1>2, MembersFacts
  <2>2. NbVars + i \in 1 .. Len(ns) /\ ns[NbVars + i] = free[i]
    BY <1>4, <1>5
  <2> QED BY <2>1, <2>2, <1>6 DEF ToSet
<1> DEFINE Places(v) == {i \in DOMAIN ns : ns[i] = v}
<1>8. \A v \in ToSet(ns) : Max(Places(v)) \in 1 .. Len(ns) /\ ns[Max(Places(v))] = v
  <2> SUFFICES ASSUME NEW v \in ToSet(ns) PROVE Max(Places(v)) \in Places(v)
    BY <1>6
  <2>1. Places(v) # {} /\ Places(v) \subseteq 0 .. Len(ns)
    BY <1>6 DEF ToSet
  <2> HIDE DEF Places
  <2> QED BY <1>6, <2>1, MaxOfNats
<1>9. /\ content' = ns /\ up' = up /\ down' = down /\ pc' = "build"
      /\ indices' = [n \in Vars |->
                       IF n \in ToSet(ns) THEN Max(Places(n))
                       ELSE IF n \in ToSet(content) THEN 0 ELSE indices[n]]
      /\ todo' = [i \in 1 .. Len(ns) \div 2 |-> Len(ns) \div 2 + 1 - i]
  BY <1>1 DEF Build
<1> HIDE DEF Places
<1>10. \A v \in Vars : v \notin ToSet(content) => indices[v] = 0
  BY DEF Inv, IndicesAgree, InHeap, ToSet
<1>11. indices' \in [Vars -> Nat]
  BY <1>6, <1>8, <1>9, <1>10
<1>12. IndicesAgree'
  BY <1>6, <1>8, <1>9, <1>10 DEF IndicesAgree, InHeap
<1>13. todo' \in Seq(DOMAIN content')
  <2>1. \A i \in 1 .. Len(ns) \div 2 : Len(ns) \div 2 + 1 - i \in 1 .. Len(ns)
    BY <1>6
  <2>2. Len(ns) \div 2 \in Nat
    BY <1>6
  <2> QED BY <1>6, <1>9, <2>1, <2>2, IsASeq
<1>14. TypeOK'
  BY <1>1, <1>4, <1>6, <1>9, <1>11, <1>13 DEF Inv, TypeOK, RebuildOrderHeap, Still
<1>15. NoneMissing'
  BY <1>1, <1>7, <1>9 DEF NoneMissing, Bound, Coming
<1> QED BY <1>9, <1>12, <1>14, <1>15 DEF Inv

LEMMA BuildNextInv == Inv /\ BuildNext => Inv'
<1> SUFFICES ASSUME Inv, BuildNext PROVE Inv'
  OBVIOUS
<1>1. Head(todo) \in DOMAIN content /\ Tail(todo) \in Seq(DOMAIN content)
  BY MembersSplit DEF Inv, TypeOK, BuildNext
<1>2. TypeOK'
  <2>1. Head(todo) \in 0 .. Len(content)
    BY <1>1, HeapFacts DEF Inv
  <2> QED BY <1>1, <2>1 DEF Inv, BuildNext, TypeOK
<1>3. IndicesAgree'
  BY DEF Inv, BuildNext, IndicesAgree, InHeap
<1>4. NoneMissing'
  BY DEF Inv, BuildNext, NoneMissing, Bound, Coming
<1> QED BY <1>2, <1>3, <1>4 DEF Inv, BuildNext

-----------------------------------------------------------------------------
(* The theorems.                                                           *)

\* The reverse index agrees with the heap, and every unbound variable is in it
\* or about to be inserted, however variables are bound, bumped and unbound.
THEOREM HeapInvariance == Spec => []Inv
<1>1. Inv /\ [Next]_vars => Inv'
  <2> SUFFICES ASSUME Inv, [Next]_vars PROVE Inv'
    OBVIOUS
  <2>1. CASE Next
    BY <2>1, UpInv, DownInv, DecideInv, ChooseInv, NoneLeftInv, InsertMissingInv,
       MissingInsertedInv, InsertNextInv, RebuildInv, BuildNextInv, LoopEndsInv,
       BindInv, BumpInv, CleanupInv DEF Next
  <2>2. CASE UNCHANGED vars
    BY <2>2 DEF Inv, TypeOK, IndicesAgree, InHeap, NoneMissing, Bound, Coming, vars, heapVars
  <2> QED BY <2>1, <2>2
<1> QED BY <1>1, QueueInit, PTL DEF Spec

\* chooseLit never overlooks an unbound variable.
THEOREM NothingOverlooked == Spec => []UnboundInHeap
<1>1. Inv => UnboundInHeap
  <2> SUFFICES ASSUME Inv PROVE UnboundInHeap
    OBVIOUS
  <2>1. pc \notin {"missing", "insert"} => Vars \subseteq Bound \union ToSet(content)
    BY DEF Inv, NoneMissing, Coming
  <2>2. pc = "sat" => Vars \subseteq Bound
    BY <2>1, HeapFacts DEF Inv
  <2> QED BY <2>1, <2>2 DEF UnboundInHeap
<1> QED BY <1>1, HeapInvariance, PTL
=============================================================================
