---------------------------- MODULE ExplainProofs ----------------------------
(***************************************************************************)
(* The checker is sound: what it accepts follows from the clauses it tags. *)
(* It misses no line that follows by unit propagation, so that UnsatSubset *)
(* never takes an unsatisfiable problem for a satisfiable one; and the     *)
(* subsets returned are unsatisfiable, minimal for MUSDeletion and         *)
(* MUSInsertion.                                                           *)
(***************************************************************************)
EXTENDS Explain, LitsProofs

-----------------------------------------------------------------------------
(* Bindings and assignments.                                               *)

\* The sign of a literal is 1 or -1, that of its negation the other one.
LEMMA SignFacts ==
    ASSUME NEW l \in Lits
    PROVE  /\ Sign(l) = IF IsPositive(l) THEN 1 ELSE -1
           /\ Sign(Negation(l)) = IF IsPositive(l) THEN -1 ELSE 1
BY LitFacts DEF Sign

\* A literal is made true, or false, by the assignment its variable has.
LEMMA SignHolds ==
    ASSUME NEW a \in Assignments, NEW l \in Lits, NEW us, Agrees(a, us)
    PROVE  us[VarOf(l)] = Sign(l) => Holds(a, l)
<1>1. VarOf(l) \in Vars /\ IsPositive(l) \in BOOLEAN
  BY LitFacts
<1>2. a[VarOf(l)] \in BOOLEAN
  BY <1>1 DEF Assignments
<1>3. CASE IsPositive(l)
  BY <1>1, <1>2, <1>3 DEF Sign, Holds, Agrees
<1>4. CASE ~ IsPositive(l)
  BY <1>1, <1>2, <1>4 DEF Sign, Holds, Agrees
<1> QED BY <1>1, <1>3, <1>4

\* Binding the variable of a literal that holds.
LEMMA SignAgrees ==
    ASSUME NEW a \in Assignments, NEW l \in Lits, Holds(a, l)
    PROVE  /\ Sign(l) \in {-1, 1}
           /\ Sign(l) = 1 => a[VarOf(l)] = TRUE
           /\ Sign(l) = -1 => a[VarOf(l)] = FALSE
<1>1. VarOf(l) \in Vars /\ IsPositive(l) \in BOOLEAN
  BY LitFacts
<1>2. a[VarOf(l)] \in BOOLEAN
  BY <1>1 DEF Assignments
<1>3. 1 # -1
  OBVIOUS
<1>4. CASE IsPositive(l)
  BY <1>1, <1>2, <1>3, <1>4 DEF Sign, Holds
<1>5. CASE ~ IsPositive(l)
  BY <1>1, <1>2, <1>3, <1>5 DEF Sign, Holds
<1> QED BY <1>1, <1>4, <1>5

\* The literals of a clause are literals.
LEMMA ClauseLits ==
    ASSUME NEW c \in Seq(Lits)
    PROVE  /\ Range(c) \subseteq Lits
           /\ \A k \in DOMAIN c : c[k] \in Lits /\ c[k] \in Range(c)
           /\ \A k \in DOMAIN c : k \in Nat \ {0} /\ k <= Len(c)
BY DEF Range

\* LastOn is a position of the variable, if there is one.
LEMMA LastOnFacts ==
    ASSUME NEW c \in Seq(Lits), NEW v
    PROVE  /\ LastOn(v, c) \in Nat
           /\ LastOn(v, c) # 0 => LastOn(v, c) \in DOMAIN c /\ VarOf(c[LastOn(v, c)]) = v
<1> DEFINE K == {k \in DOMAIN c : VarOf(c[k]) = v}
           T == {0} \union K
<1>1. Len(c) \in Nat /\ T \subseteq 0 .. Len(c) /\ T # {}
  OBVIOUS
<1>2. Max(T) \in T
  <2> HIDE DEF T
  <2> QED BY <1>1, MaxOfNats
<1>3. LastOn(v, c) = Max(T)
  BY DEF LastOn
<1> QED BY <1>1, <1>2, <1>3

\* The negation of a line holds where the line does not.
LEMMA FalsifiedAgrees ==
    ASSUME NEW a \in Assignments, NEW us \in [Vars -> {-1, 0, 1}], Agrees(a, us),
           NEW l \in Seq(Lits), ~ SatClause(a, Range(l))
    PROVE  Falsified(us, l) \in [Vars -> {-1, 0, 1}] /\ Agrees(a, Falsified(us, l))
<1> DEFINE fs == Falsified(us, l)
<1>1. ASSUME NEW v \in Vars, LastOn(v, l) = 0 PROVE fs[v] = us[v]
  BY <1>1 DEF Falsified
<1>2. ASSUME NEW v \in Vars, LastOn(v, l) # 0
      PROVE  /\ fs[v] \in {-1, 1}
             /\ fs[v] = 1 => a[v] = TRUE
             /\ fs[v] = -1 => a[v] = FALSE
  <2> DEFINE k == l[LastOn(v, l)]
  <2>1. k \in Lits /\ k \in Range(l) /\ VarOf(k) = v
    BY <1>2, LastOnFacts, ClauseLits
  <2>2. ~ Holds(a, k)
    BY <2>1 DEF SatClause
  <2>3. Negation(k) \in Lits /\ VarOf(Negation(k)) = v /\ Holds(a, Negation(k))
    BY <2>1, <2>2, LitFacts, HoldsNegation
  <2>4. fs[v] = Sign(Negation(k))
    BY <1>2 DEF Falsified
  <2> HIDE DEF k, fs
  <2> QED BY <2>3, <2>4, SignAgrees
<1>3. fs \in [Vars -> {-1, 0, 1}]
  <2>1. fs = [v \in Vars |-> fs[v]]
    BY DEF Falsified
  <2>2. \A v \in Vars : fs[v] \in {-1, 0, 1}
    <3> HIDE DEF fs
    <3> QED BY <1>1, <1>2
  <2> HIDE DEF fs
  <2> QED BY <2>1, <2>2
<1>4. Agrees(a, fs)
  <2> HIDE DEF fs
  <2> QED BY <1>1, <1>2 DEF Agrees
<1> QED BY <1>3, <1>4

\* Whatever the assignment, the negation of a line gives bindings.
LEMMA FalsifiedType ==
    ASSUME NEW us \in [Vars -> {-1, 0, 1}], NEW l \in Seq(Lits)
    PROVE  Falsified(us, l) \in [Vars -> {-1, 0, 1}]
<1>1. \A k : Sign(k) \in {-1, 0, 1}
  BY DEF Sign
<1> QED BY <1>1 DEF Falsified

\* The unit clauses of the problem give its bindings.
LEMMA ParsedAgrees ==
    ASSUME NEW p \in Seq(Seq(Lits)), NEW a \in Assignments,
           \A i \in UnitsIn(p) : SatClause(a, Range(p[i]))
    PROVE  Agrees(a, ParsedUnits(p))
<1> SUFFICES ASSUME NEW v \in Vars
             PROVE  /\ ParsedUnits(p)[v] = 1 => a[v] = TRUE
                    /\ ParsedUnits(p)[v] = -1 => a[v] = FALSE
  BY DEF Agrees
<1> DEFINE K == {k \in UnitsIn(p) : VarOf(p[k][1]) = v}
<1>1. CASE K = {}
  <2>1. ParsedUnits(p)[v] = 0
    BY <1>1 DEF ParsedUnits
  <2> QED BY <2>1
<1>2. CASE K # {}
  <2>1. Len(p) \in Nat /\ K \subseteq 0 .. Len(p)
    BY DEF UnitsIn
  <2>2. Max(K) \in K
    <3> HIDE DEF K
    <3> QED BY <1>2, <2>1, MaxOfNats
  <2> DEFINE k == p[Max(K)][1]
  <2>3. /\ Max(K) \in UnitsIn(p) /\ Max(K) \in DOMAIN p
        /\ Len(p[Max(K)]) = 1 /\ VarOf(k) = v
    BY <2>2 DEF UnitsIn
  <2>4. p[Max(K)] \in Seq(Lits)
    BY <2>3
  <2>5. DOMAIN p[Max(K)] = {1}
    BY <2>3, <2>4
  <2>6. k \in Lits /\ Range(p[Max(K)]) = {k}
    BY <2>4, <2>5, ClauseLits DEF Range
  <2>7. Holds(a, k)
    BY <2>3, <2>6 DEF SatClause
  <2>8. ParsedUnits(p)[v] = Sign(k)
    BY <1>2 DEF ParsedUnits
  <2> HIDE DEF k, K
  <2> QED BY <2>3, <2>6, <2>7, <2>8, SignAgrees
<1> QED BY <1>1, <1>2

\* The bindings of the problem are bindings.
LEMMA ParsedType ==
    ASSUME NEW p PROVE ParsedUnits(p) \in [Vars -> {-1, 0, 1}]
<1>1. \A l : Sign(l) \in {-1, 0, 1}
  BY DEF Sign
<1> QED BY <1>1 DEF ParsedUnits

-----------------------------------------------------------------------------
(* One clause under bindings that a model has.                             *)

\* The set of unbound positions has fewer than two elements when it is empty
\* or has one.
LEMMA FewUnbound ==
    ASSUME NEW S, NEW k, S \subseteq {k}
    PROVE  Cardinality(S) < 2
<1>1. IsFiniteSet({k}) /\ Cardinality({k}) = 1
  BY FS_Singleton
<1>2. Cardinality(S) <= 1 /\ IsFiniteSet(S)
  BY <1>1, FS_Subset
<1>3. Cardinality(S) \in Nat
  BY <1>2, FS_CardinalityType
<1> QED BY <1>2, <1>3

\* A literal that is not unbound and not true is false, in a clause that is not
\* satisfied and has at most the position k unbound.
LEMMA RestFalse ==
    ASSUME NEW a \in Assignments, Agrees(a, units), units \in [Vars -> {-1, 0, 1}],
           NEW c \in Seq(Lits), NEW k, Unbound(c) \subseteq {k}, ~ IsSat(c),
           NEW j \in DOMAIN c, j \notin Unbound(c)
    PROVE  ~ Holds(a, c[j])
<1>1. Cardinality(Unbound(c) \intersect 1 .. j) < 2
  BY FewUnbound
<1>2. ~ IsTrue(c[j])
  BY <1>1 DEF IsSat
<1> DEFINE l == c[j]
<1>3. l \in Lits /\ VarOf(l) \in Vars /\ Negation(l) \in Lits /\ VarOf(Negation(l)) = VarOf(l)
  BY ClauseLits, LitFacts
<1>4. units[VarOf(l)] # 0 /\ units[VarOf(l)] # Sign(l)
  BY <1>2 DEF Unbound, IsTrue
<1>5. units[VarOf(l)] \in {-1, 1}
  BY <1>3, <1>4
<1>6. units[VarOf(l)] = Sign(Negation(l))
  <2> HIDE DEF l
  <2> QED BY <1>3, <1>4, <1>5, SignFacts
<1>7. Holds(a, Negation(l))
  BY <1>3, <1>6, SignHolds
<1> QED BY <1>3, <1>7, HoldsNegation

\* A falsified clause does not hold.
LEMMA ConflictFalse ==
    ASSUME NEW a \in Assignments, Agrees(a, units), units \in [Vars -> {-1, 0, 1}],
           NEW c \in Seq(Lits), Unbound(c) = {}, ~ IsSat(c)
    PROVE  ~ SatClause(a, Range(c))
<1>1. \A j \in DOMAIN c : ~ Holds(a, c[j])
  BY RestFalse
<1> QED BY <1>1 DEF SatClause, Range

\* The one literal that is unbound holds if the clause does.
LEMMA UnitHolds ==
    ASSUME NEW a \in Assignments, Agrees(a, units), units \in [Vars -> {-1, 0, 1}],
           NEW c \in Seq(Lits), NEW k \in DOMAIN c, Unbound(c) = {k}, ~ IsSat(c),
           SatClause(a, Range(c))
    PROVE  /\ [units EXCEPT ![VarOf(c[k])] = Sign(c[k])] \in [Vars -> {-1, 0, 1}]
           /\ Agrees(a, [units EXCEPT ![VarOf(c[k])] = Sign(c[k])])
<1>1. PICK j \in DOMAIN c : Holds(a, c[j])
  BY DEF SatClause, Range
<1>2. j = k
  BY <1>1, RestFalse
<1> DEFINE l == c[k]
<1>3. l \in Lits /\ VarOf(l) \in Vars /\ Holds(a, l)
  BY <1>1, <1>2, ClauseLits, LitFacts
<1>4. /\ Sign(l) \in {-1, 1}
      /\ Sign(l) = 1 => a[VarOf(l)] = TRUE
      /\ Sign(l) = -1 => a[VarOf(l)] = FALSE
  <2> HIDE DEF l
  <2> QED BY <1>3, SignAgrees
<1> DEFINE us == [units EXCEPT ![VarOf(l)] = Sign(l)]
<1>5. us \in [Vars -> {-1, 0, 1}]
  BY <1>3, <1>4
<1>6. \A v \in Vars : us[v] = IF v = VarOf(l) THEN Sign(l) ELSE units[v]
  BY <1>3
<1>7. Agrees(a, us)
  <2> HIDE DEF us, l
  <2> QED BY <1>4, <1>6 DEF Agrees
<1> QED BY <1>5, <1>7

-----------------------------------------------------------------------------
(* Every step of the checker.                                              *)

\* Facts of any state of the invariant.
LEMMA InputFacts ==
    ASSUME TypeOK
    PROVE  /\ given \in Seq(Seq(Lits)) /\ NbClauses \in Nat /\ DOMAIN given = 1 .. NbClauses
           /\ saved \in [Vars -> {-1, 0, 1}]
BY CheckerAssumption, ParsedType DEF TypeOK, NbClauses

\* A model of more clauses is a model of fewer.
LEMMA FewerClauses ==
    ASSUME NEW a, NEW I, NEW J, I \subseteq J, SatAll(a, ClausesAt(J))
    PROVE  SatAll(a, ClausesAt(I))
BY DEF SatAll, ClausesAt

\* The first state.
LEMMA InitInv == Init => CheckerInv
<1> SUFFICES ASSUME Init PROVE CheckerInv
  OBVIOUS
<1>1. given \in Seq(Seq(Lits)) /\ DOMAIN given = 1 .. Len(given) /\ <<>> \in Seq(Lits)
  BY CheckerAssumption DEF Init
<1>2. TypeOK
  <2>1. units \in [Vars -> {-1, 0, 1}] /\ saved = ParsedUnits(given)
    BY ParsedType DEF Init
  <2>2. at \in Nat \ {0} /\ line \in Seq(Lits)
    BY <1>1 DEF Init
  <2> QED BY <2>1, <2>2 DEF Init, TypeOK
<1>3. LinesAppended
  BY <1>1 DEF Init, LinesAppended, NbClauses
<1>4. LinesFollow
  BY <1>1 DEF Init, LinesFollow, NbClauses
<1> QED BY <1>2, <1>3, <1>4 DEF Init, CheckerInv, BindingsFollow, RefutedFollows

\* A call starts on the problem as it was given.
LEMMA StartInv ==
    ASSUME CheckerInv, clauses = given, NEW b \in BOOLEAN, Start(b)
    PROVE  CheckerInv'
<1> USE DEF CheckerInv
<1>1. given \in Seq(Seq(Lits)) /\ NbClauses \in Nat /\ DOMAIN given = 1 .. NbClauses
  BY InputFacts
<1>2. /\ pc = "idle" /\ pc' = "read" /\ tagged' = UnitsIn(given) /\ verdict' = "none"
      /\ channel' = b
      /\ given' = given /\ clauses' = clauses /\ units' = units /\ UNCHANGED scanning
  BY DEF Start
<1>3. tagged' \in SUBSET (1 .. NbClauses)
  BY <1>1, <1>2 DEF UnitsIn
<1>4. TypeOK'
  BY <1>2, <1>3 DEF TypeOK, scanning, NbClauses
<1>5. LinesAppended'
  BY <1>1, <1>2 DEF LinesAppended, scanning, NbClauses
<1>6. LinesFollow'
  BY <1>1, <1>2 DEF LinesFollow, NbClauses
<1> QED BY <1>2, <1>4, <1>5, <1>6 DEF BindingsFollow, RefutedFollows

\* A line is read: its negation is added to the bindings of the problem.
LEMMA ReadLineInv ==
    ASSUME CheckerInv, NEW l \in Seq(Lits), ReadLine(l)
    PROVE  CheckerInv'
<1> USE DEF CheckerInv
<1>1. /\ pc = "read" /\ pc' = "scan" /\ line' = l /\ saved' = units /\ units' = Falsified(units, l)
      /\ at' = 1 /\ modified' = FALSE /\ refuted' = refuted
      /\ given' = given /\ clauses' = clauses /\ tagged' = tagged
      /\ channel' = channel /\ verdict' = verdict
  BY DEF ReadLine
<1>2. units = saved /\ units = ParsedUnits(given) /\ units \in [Vars -> {-1, 0, 1}]
  BY <1>1 DEF TypeOK, LinesAppended
<1>3. given \in Seq(Seq(Lits)) /\ UnitsIn(given) \subseteq tagged /\ UnitsIn(given) \subseteq DOMAIN given
  BY <1>1, InputFacts DEF LinesAppended, UnitsIn
<1>4. Falsified(units, l) \in [Vars -> {-1, 0, 1}]
  BY <1>2, FalsifiedType
<1>5. TypeOK'
  <2>1. units' \in [Vars -> {-1, 0, 1}] /\ saved' = ParsedUnits(given')
    BY <1>1, <1>2, <1>4
  <2>2. at' \in Nat \ {0} /\ line' \in Seq(Lits)
    BY <1>1
  <2> QED BY <1>1, <2>1, <2>2 DEF TypeOK, NbClauses
<1>6. LinesAppended'
  BY <1>1, <1>2 DEF LinesAppended, NbClauses
<1>7. BindingsFollow'
  <2> SUFFICES ASSUME NEW a \in Assignments, SatAll(a, ClausesAt(tagged)), ~ SatClause(a, Range(l))
               PROVE  Agrees(a, Falsified(units, l))
    BY <1>1 DEF BindingsFollow, ClausesAt
  <2>1. SatAll(a, ClausesAt(UnitsIn(given)))
    BY <1>3, FewerClauses
  <2>2. \A i \in UnitsIn(given) : SatClause(a, Range(given[i]))
    BY <2>1 DEF SatAll, ClausesAt
  <2>3. Agrees(a, units)
    BY <1>2, <1>3, <2>2, ParsedAgrees
  <2> QED BY <1>2, <2>3, FalsifiedAgrees
<1>8. LinesFollow'
  BY <1>1 DEF LinesFollow, NbClauses, ClausesAt
<1> QED BY <1>1, <1>5, <1>6, <1>7, <1>8 DEF RefutedFollows

\* A call that returns leaves the problem without lines.
LEMMA ReturnInv ==
    ASSUME CheckerInv, NEW v \in {"ended", "refused", "refuted", "error"}, Return(v),
           pc # "idle", units' = saved, UNCHANGED <<given, tagged, channel>>,
           v = "refuted" => ~ Satisfiable(ClausesAt(tagged))
    PROVE  CheckerInv'
<1> USE DEF CheckerInv
<1>1. /\ pc' = "idle" /\ verdict' = v /\ clauses' = SubSeq(clauses, 1, NbClauses)
      /\ line' = <<>> /\ at' = 1 /\ modified' = FALSE /\ refuted' = FALSE /\ saved' = saved
  BY DEF Return
<1>2. /\ NbClauses \in Nat /\ clauses \in Seq(Seq(Lits)) /\ NbClauses <= Len(clauses)
      /\ saved \in [Vars -> {-1, 0, 1}] /\ <<>> \in Seq(Lits)
  BY InputFacts DEF LinesAppended
<1>3. DOMAIN clauses' = 1 .. NbClauses /\ Len(clauses') = NbClauses
  BY <1>1, <1>2
<1>4. TypeOK'
  <2>1. units' \in [Vars -> {-1, 0, 1}] /\ saved' = ParsedUnits(given')
    BY <1>1, <1>2 DEF TypeOK
  <2>2. at' \in Nat \ {0} /\ line' \in Seq(Lits)
    BY <1>1, <1>2
  <2> QED BY <1>1, <2>1, <2>2 DEF TypeOK, NbClauses
<1>5. LinesAppended'
  BY <1>1, <1>3 DEF LinesAppended, NbClauses
<1>6. LinesFollow'
  BY <1>1, <1>2, <1>3 DEF LinesFollow, NbClauses, ClausesAt
<1> QED BY <1>1, <1>4, <1>5, <1>6 DEF BindingsFollow, RefutedFollows

\* While unsat runs, a model of what is tagged satisfies the clause looked at,
\* if it is a line, or once it is tagged too.
LEMMA ClauseAtHolds ==
    ASSUME TypeOK, LinesAppended, LinesFollow, pc # "idle", at <= Len(clauses),
           NEW a \in Assignments, SatAll(a, ClausesAt(tagged)),
           at <= NbClauses => SatAll(a, ClausesAt({at}))
    PROVE  clauses[at] \in Seq(Lits) /\ SatClause(a, Range(clauses[at]))
<1>1. /\ clauses \in Seq(Seq(Lits)) /\ NbClauses \in Nat /\ NbClauses <= Len(clauses)
      /\ at \in Nat \ {0}
  BY InputFacts DEF LinesAppended, TypeOK
<1>2. clauses[at] \in Seq(Lits)
  BY <1>1
<1>3. CASE at <= NbClauses
  <2>1. clauses[at] = given[at]
    BY <1>1, <1>3 DEF LinesAppended
  <2> QED BY <1>2, <1>3, <2>1 DEF SatAll, ClausesAt
<1>4. CASE at > NbClauses
  <2>1. Entails(ClausesAt(tagged), Range(clauses[at]))
    BY <1>1, <1>4 DEF LinesFollow
  <2> QED BY <1>2, <2>1 DEF Entails
<1> QED BY <1>1, <1>3, <1>4

\* Nothing is found in the clause: the position moves on.
LEMMA MoveInv ==
    ASSUME CheckerInv, pc = "scan", pc' \in {"scan", "judge"},
           at' \in Nat \ {0}, modified' \in BOOLEAN, refuted' \in BOOLEAN,
           pc' = "judge" => ~ refuted',
           UNCHANGED <<problem, line, saved, channel, verdict>>
    PROVE  CheckerInv'
<1> USE DEF CheckerInv, problem
<1>1. TypeOK'
  BY DEF TypeOK, NbClauses
<1>2. LinesAppended'
  BY DEF LinesAppended, NbClauses
<1>3. BindingsFollow'
  BY DEF BindingsFollow, ClausesAt
<1>4. LinesFollow'
  BY DEF LinesFollow, NbClauses, ClausesAt
<1> QED BY <1>1, <1>2, <1>3, <1>4 DEF RefutedFollows

\* Tagging a clause keeps what was known to follow.
LEMMA TagFacts ==
    ASSUME TypeOK, tagged' = Tag(at)
    PROVE  /\ tagged \subseteq tagged' /\ tagged' \in SUBSET (1 .. NbClauses)
           /\ at <= NbClauses => at \in tagged'
BY InputFacts DEF TypeOK, Tag

\* The lines still follow when more clauses are tagged.
LEMMA LinesFollowMore ==
    ASSUME LinesFollow, tagged \subseteq tagged', UNCHANGED <<given, clauses, verdict>>
    PROVE  LinesFollow'
<1>1. ClausesAt(tagged) \subseteq ClausesAt(tagged')
  BY DEF ClausesAt
<1>2. \A C : Entails(ClausesAt(tagged), C) => Entails(ClausesAt(tagged'), C)
  BY <1>1, EntailsWeaken
<1>3. Satisfiable(ClausesAt(tagged')) => Satisfiable(ClausesAt(tagged))
  BY <1>1 DEF Satisfiable, SatAll
<1>4. ClausesAt(tagged') = ClausesAt(tagged)' /\ NbClauses' = NbClauses
  BY DEF ClausesAt, NbClauses
<1> QED BY <1>2, <1>3, <1>4 DEF LinesFollow

\* A unit is found.
LEMMA UnitInv ==
    ASSUME CheckerInv, Unit
    PROVE  CheckerInv'
<1> USE DEF CheckerInv
<1>1. PICK k \in DOMAIN clauses[at] :
        /\ Unbound(clauses[at]) = {k}
        /\ units' = [units EXCEPT ![VarOf(clauses[at][k])] = Sign(clauses[at][k])]
  BY DEF Unit
<1>2. /\ pc = "scan" /\ pc' = "scan" /\ at <= Len(clauses) /\ at \notin SatClauses
      /\ tagged' = Tag(at) /\ at' = at + 1 /\ modified' = TRUE /\ refuted' = refuted
      /\ given' = given /\ clauses' = clauses /\ line' = line /\ saved' = saved
      /\ channel' = channel /\ verdict' = verdict
  BY DEF Unit, Scanning
<1>3. /\ clauses \in Seq(Seq(Lits)) /\ at \in Nat \ {0} /\ at \in DOMAIN clauses
      /\ units \in [Vars -> {-1, 0, 1}]
  BY <1>2 DEF LinesAppended, TypeOK
<1>4. clauses[at] \in Seq(Lits) /\ ~ IsSat(clauses[at])
  BY <1>2, <1>3 DEF SatClauses
<1>5. tagged \subseteq tagged' /\ tagged' \in SUBSET (1 .. NbClauses) /\ (at <= NbClauses => at \in tagged')
  BY <1>2, TagFacts
<1>6. TypeOK'
  <2>1. \A c : Sign(c) \in {-1, 0, 1}
    BY DEF Sign
  <2>2. units' \in [Vars -> {-1, 0, 1}]
    BY <1>1, <1>3, <2>1
  <2>3. at' \in Nat \ {0}
    BY <1>2, <1>3
  <2> QED BY <1>2, <1>5, <2>2, <2>3 DEF TypeOK, NbClauses
<1>7. LinesAppended'
  BY <1>2, <1>5 DEF LinesAppended, NbClauses
<1>8. BindingsFollow'
  <2> SUFFICES ASSUME NEW a \in Assignments, SatAll(a, ClausesAt(tagged')), ~ SatClause(a, Range(line))
               PROVE  Agrees(a, units')
    BY <1>2 DEF BindingsFollow, ClausesAt
  <2>1. SatAll(a, ClausesAt(tagged)) /\ (at <= NbClauses => SatAll(a, ClausesAt({at})))
    BY <1>5, FewerClauses
  <2>2. Agrees(a, units)
    BY <1>2, <2>1 DEF BindingsFollow
  <2>3. SatClause(a, Range(clauses[at]))
    BY <1>2, <2>1, ClauseAtHolds
  <2> QED BY <1>1, <1>3, <1>4, <2>2, <2>3, UnitHolds
<1>9. LinesFollow'
  BY <1>2, <1>5, LinesFollowMore
<1> QED BY <1>2, <1>6, <1>7, <1>8, <1>9 DEF RefutedFollows

\* A clause is falsified: no model of what is tagged falsifies the line.
LEMMA ConflictInv ==
    ASSUME CheckerInv, Conflict
    PROVE  CheckerInv'
<1> USE DEF CheckerInv
<1>2. /\ pc = "scan" /\ pc' = "judge" /\ at <= Len(clauses) /\ at \notin SatClauses
      /\ Unbound(clauses[at]) = {}
      /\ tagged' = Tag(at) /\ at' = at /\ modified' = modified /\ refuted' = TRUE
      /\ given' = given /\ clauses' = clauses /\ units' = units /\ line' = line /\ saved' = saved
      /\ channel' = channel /\ verdict' = verdict
  BY DEF Conflict, Scanning
<1>3. /\ clauses \in Seq(Seq(Lits)) /\ at \in Nat \ {0} /\ at \in DOMAIN clauses
      /\ units \in [Vars -> {-1, 0, 1}]
  BY <1>2 DEF LinesAppended, TypeOK
<1>4. clauses[at] \in Seq(Lits) /\ ~ IsSat(clauses[at])
  BY <1>2, <1>3 DEF SatClauses
<1>5. tagged \subseteq tagged' /\ tagged' \in SUBSET (1 .. NbClauses) /\ (at <= NbClauses => at \in tagged')
  BY <1>2, TagFacts
<1>6. TypeOK'
  BY <1>2, <1>5 DEF TypeOK, NbClauses
<1>7. LinesAppended'
  BY <1>2, <1>5 DEF LinesAppended, NbClauses
<1>8. \A a \in Assignments : SatAll(a, ClausesAt(tagged')) => SatClause(a, Range(line))
  <2> SUFFICES ASSUME NEW a \in Assignments, SatAll(a, ClausesAt(tagged')), ~ SatClause(a, Range(line))
               PROVE  FALSE
    OBVIOUS
  <2>1. SatAll(a, ClausesAt(tagged)) /\ (at <= NbClauses => SatAll(a, ClausesAt({at})))
    BY <1>5, FewerClauses
  <2>2. Agrees(a, units)
    BY <1>2, <2>1 DEF BindingsFollow
  <2>3. SatClause(a, Range(clauses[at]))
    BY <1>2, <2>1, ClauseAtHolds
  <2> QED BY <1>2, <1>3, <1>4, <2>2, <2>3, ConflictFalse
<1>9. ClausesAt(tagged') = ClausesAt(tagged)'
  BY <1>2 DEF ClausesAt
<1>10. BindingsFollow' /\ RefutedFollows'
  BY <1>2, <1>8, <1>9 DEF BindingsFollow, RefutedFollows, Entails
<1>11. LinesFollow'
  BY <1>2, <1>5, LinesFollowMore
<1> QED BY <1>6, <1>7, <1>10, <1>11

\* The line is refused, ends the call, or is one more clause.
LEMMA JudgeInv ==
    ASSUME CheckerInv, Judge
    PROVE  CheckerInv'
<1> USE DEF CheckerInv
<1>1. pc = "judge" /\ units' = saved /\ given' = given /\ tagged' = tagged /\ channel' = channel
  BY DEF Judge, Restored
<1>2. CASE ~ refuted /\ Return("refused")
  BY <1>1, <1>2, ReturnInv
<1>3. CASE refuted /\ line = <<>> /\ channel /\ Return("refuted")
  <2>1. Entails(ClausesAt(tagged), Range(line))
    BY <1>1, <1>3 DEF RefutedFollows
  <2>2. Range(line) = {}
    BY <1>3 DEF Range
  <2>3. ~ Satisfiable(ClausesAt(tagged))
    BY <2>1, <2>2 DEF Entails, Satisfiable, SatClause
  <2> QED BY <1>1, <1>3, <2>3, ReturnInv
<1>4. CASE /\ refuted /\ clauses' = Append(clauses, line)
           /\ pc' = "read" /\ UNCHANGED <<scanning, verdict>>
  <2>1. /\ line' = line /\ saved' = saved /\ at' = at /\ modified' = modified /\ refuted' = refuted
        /\ done' = done /\ verdict' = verdict
    BY <1>4 DEF scanning
  <2>2. /\ clauses \in Seq(Seq(Lits)) /\ NbClauses \in Nat /\ NbClauses <= Len(clauses)
        /\ line \in Seq(Lits) /\ saved \in [Vars -> {-1, 0, 1}]
    BY <1>1, InputFacts DEF LinesAppended, TypeOK
  <2>3. /\ clauses' \in Seq(Seq(Lits)) /\ Len(clauses') = Len(clauses) + 1
        /\ \A i \in 1 .. Len(clauses) : clauses'[i] = clauses[i]
        /\ clauses'[Len(clauses) + 1] = line
    BY <1>4, <2>2
  <2>4. TypeOK'
    BY <1>1, <1>4, <2>1, <2>2 DEF TypeOK, NbClauses
  <2>5. LinesAppended'
    <3>1. \A i \in 1 .. NbClauses : clauses'[i] = given[i]
      BY <1>1, <2>2, <2>3 DEF LinesAppended
    <3>2. pc' # "idle" /\ NbClauses <= Len(clauses') /\ UnitsIn(given) \subseteq tagged
      BY <1>1, <1>4, <2>2, <2>3 DEF LinesAppended
    <3> QED BY <1>1, <2>1, <2>3, <3>1, <3>2 DEF LinesAppended, NbClauses
  <2>6. LinesFollow'
    <3>1. Entails(ClausesAt(tagged), Range(line))
      BY <1>1, <1>4 DEF RefutedFollows
    <3>2. \A k \in NbClauses + 1 .. Len(clauses') : Entails(ClausesAt(tagged), Range(clauses'[k]))
      <4> SUFFICES ASSUME NEW k \in NbClauses + 1 .. Len(clauses')
                   PROVE  Entails(ClausesAt(tagged), Range(clauses'[k]))
        OBVIOUS
      <4>1. CASE k = Len(clauses) + 1
        BY <2>3, <3>1, <4>1
      <4>2. CASE k # Len(clauses) + 1
        <5>1. k \in NbClauses + 1 .. Len(clauses) /\ k \in 1 .. Len(clauses)
          BY <2>2, <2>3, <4>2
        <5> QED BY <2>3, <5>1 DEF LinesFollow
      <4> QED BY <4>1, <4>2
    <3>3. ClausesAt(tagged)' = ClausesAt(tagged) /\ NbClauses' = NbClauses
      BY <1>1 DEF ClausesAt, NbClauses
    <3> QED BY <2>1, <3>2, <3>3 DEF LinesFollow
  <2> QED BY <1>4, <2>4, <2>5, <2>6 DEF BindingsFollow, RefutedFollows
<1> QED BY <1>2, <1>3, <1>4 DEF Judge

\* unsat and what follows it.
LEMMA ScanInv ==
    ASSUME CheckerInv, Scan
    PROVE  CheckerInv'
<1>1. at \in Nat \ {0} /\ modified \in BOOLEAN /\ refuted \in BOOLEAN
  BY DEF CheckerInv, TypeOK
<1>2. CASE Skip
  BY <1>1, <1>2, MoveInv DEF Skip, Scanning
<1>3. CASE Open
  BY <1>1, <1>3, MoveInv DEF Open, Scanning
<1>4. CASE EndPass
  <2>1. CASE AnotherPass(modified)
    <3>1. /\ pc = "scan" /\ pc' = "scan" /\ at' = 1 /\ modified' = FALSE /\ refuted' = refuted
          /\ UNCHANGED <<problem, line, saved, channel, verdict>>
      BY <1>4, <2>1 DEF EndPass
    <3>2. at' \in Nat \ {0}
      BY <3>1
    <3>3. pc' \in {"scan", "judge"} /\ pc' # "judge"
      BY <3>1
    <3>4. modified' \in BOOLEAN /\ refuted' \in BOOLEAN
      BY <1>1, <3>1
    <3> QED BY <3>1, <3>2, <3>3, <3>4, MoveInv
  <2>2. CASE ~ AnotherPass(modified)
    BY <1>1, <1>4, <2>2, MoveInv DEF EndPass
  <2> QED BY <2>1, <2>2
<1> QED BY <1>2, <1>3, <1>4, UnitInv, ConflictInv, JudgeInv DEF Scan

\* The end of the lines, and an error.
LEMMA EndInv ==
    ASSUME CheckerInv, EndOfLines \/ ReadError
    PROVE  CheckerInv'
<1>1. pc = "read" /\ units' = units /\ UNCHANGED <<given, tagged, channel>>
  BY DEF EndOfLines, ReadError
<1>2. units = saved
  BY <1>1 DEF CheckerInv, LinesAppended
<1>3. Return("ended") \/ Return("error")
  BY DEF EndOfLines, ReadError
<1> QED BY <1>1, <1>2, <1>3, ReturnInv

\* Nothing changes.
LEMMA StutterInv ==
    ASSUME CheckerInv, UNCHANGED checkerVars
    PROVE  CheckerInv'
<1> USE DEF checkerVars, problem, scanning, CheckerInv
<1>1. TypeOK'
  BY DEF TypeOK, NbClauses
<1>2. LinesAppended' /\ BindingsFollow' /\ RefutedFollows'
  BY DEF LinesAppended, BindingsFollow, RefutedFollows, NbClauses, ClausesAt
<1>3. LinesFollow'
  BY DEF LinesFollow, NbClauses, ClausesAt
<1> QED BY <1>1, <1>2, <1>3

-----------------------------------------------------------------------------
\* Between calls the problem is the one given.
IdleGiven == pc = "idle" => clauses = given

\* Only ReadLine, Judge and the returns change the clauses; returns drop what
\* was appended.
LEMMA IdleGivenStep ==
    ASSUME CheckerInv, IdleGiven, CheckerNext
    PROVE  IdleGiven'
<1>1. ASSUME NEW v, Return(v), pc # "idle", given' = given
      PROVE  clauses' = given'
  <2>1. /\ clauses \in Seq(Seq(Lits)) /\ given \in Seq(Seq(Lits)) /\ NbClauses \in Nat
        /\ NbClauses <= Len(clauses) /\ NbClauses = Len(given)
        /\ \A i \in 1 .. NbClauses : clauses[i] = given[i]
    BY <1>1, InputFacts DEF CheckerInv, LinesAppended, NbClauses
  <2>2. SubSeq(clauses, 1, NbClauses) = given
    <3>1. /\ SubSeq(clauses, 1, NbClauses) \in Seq(Seq(Lits))
          /\ Len(SubSeq(clauses, 1, NbClauses)) = NbClauses
          /\ \A i \in 1 .. NbClauses : SubSeq(clauses, 1, NbClauses)[i] = clauses[i]
      BY <2>1
    <3> QED BY <2>1, <3>1
  <2> QED BY <1>1, <2>2 DEF Return
<1>2. CASE \E b \in BOOLEAN : Start(b)
  BY <1>2 DEF Start, IdleGiven
<1>3. CASE AnyLine
  BY <1>3 DEF AnyLine, ReadLine, IdleGiven
<1>4. CASE EndOfLines \/ ReadError
  BY <1>1, <1>4 DEF EndOfLines, ReadError, IdleGiven
<1>5. CASE Skip \/ Open \/ Unit \/ Conflict \/ EndPass
  BY <1>5 DEF Skip, Open, Unit, Conflict, EndPass, Scanning, IdleGiven
<1>6. CASE Judge
  BY <1>1, <1>6 DEF Judge, IdleGiven
<1> QED BY <1>2, <1>3, <1>4, <1>5, <1>6 DEF CheckerNext, Scan

\* The invariant holds whatever certificates the checker is given: what it
\* accepts follows from the clauses it tags.
THEOREM CheckerInvariance == CheckerSpec => [](CheckerInv /\ IdleGiven)
<1>1. Init => CheckerInv /\ IdleGiven
  BY InitInv DEF Init, IdleGiven
<1>2. CheckerInv /\ IdleGiven /\ [CheckerNext]_checkerVars => (CheckerInv /\ IdleGiven)'
  <2> SUFFICES ASSUME CheckerInv, IdleGiven, [CheckerNext]_checkerVars
               PROVE  CheckerInv' /\ IdleGiven'
    OBVIOUS
  <2>1. CASE UNCHANGED checkerVars
    BY <2>1, StutterInv DEF checkerVars, problem, IdleGiven
  <2>2. CASE CheckerNext
    <3>1. (\E b \in BOOLEAN : Start(b)) => CheckerInv'
      BY StartInv DEF IdleGiven, Start
    <3>2. AnyLine => CheckerInv'
      BY CheckerAssumption, ReadLineInv DEF AnyLine
    <3>3. EndOfLines \/ ReadError => CheckerInv'
      BY EndInv
    <3>4. Scan => CheckerInv'
      BY ScanInv
    <3>5. CheckerInv'
      BY <2>2, <3>1, <3>2, <3>3, <3>4 DEF CheckerNext
    <3> QED BY <2>2, <3>5, IdleGivenStep
  <2> QED BY <2>1, <2>2
<1> QED BY <1>1, <1>2, PTL DEF CheckerSpec

\* UnsatChan and Unsat: every line that was accepted follows from the clauses
\* tagged so far, and when the empty one is accepted these are unsatisfiable.
THEOREM CheckerSoundness == CheckerSpec => []LinesFollow
<1>1. CheckerInv => LinesFollow
  BY DEF CheckerInv
<1> QED BY <1>1, CheckerInvariance, PTL


-----------------------------------------------------------------------------
(* The passes of unsat.                                                    *)

\* Clauses and bindings that do not change have as much to tell as before.
LEMMA SettledSame ==
    ASSUME UNCHANGED <<clauses, units>>
    PROVE  /\ DOMAIN clauses' = DOMAIN clauses
           /\ \A i : HasTrue(clauses[i])' <=> HasTrue(clauses[i])
           /\ \A i : Settled(clauses[i])' <=> Settled(clauses[i])
BY DEF Settled, HasTrue, IsTrue, Unbound

\* A true literal stays so when a variable that was unbound is bound.
LEMMA TrueStays ==
    ASSUME units \in [Vars -> {-1, 0, 1}], NEW k \in Lits, NEW l \in Lits,
           units[VarOf(k)] = 0, units' = [units EXCEPT ![VarOf(k)] = Sign(k)], IsTrue(l)
    PROVE  IsTrue(l)'
<1>1. VarOf(l) \in Vars /\ VarOf(k) \in Vars
  BY LitFacts
<1>2. Sign(l) # 0
  BY DEF Sign
<1>3. units[VarOf(l)] = Sign(l)
  BY DEF IsTrue
<1>4. VarOf(l) # VarOf(k)
  BY <1>2, <1>3
<1>5. units'[VarOf(l)] = Sign(l)
  BY <1>1, <1>3, <1>4
<1> QED BY <1>5 DEF IsTrue

LEMMA SkipMisses ==
    ASSUME CheckerInv, PassesMissNothing, Skip
    PROVE  PassesMissNothing'
<1>1. /\ pc = "scan" /\ pc' = "scan" /\ at <= Len(clauses) /\ at' = at + 1 /\ at \in Nat \ {0}
      /\ UNCHANGED <<clauses, units, modified, line>>
  BY DEF Skip, Scanning, problem, CheckerInv, TypeOK
<1>2. clauses \in Seq(Seq(Lits)) /\ at \in DOMAIN clauses
  BY <1>1 DEF CheckerInv, LinesAppended
<1>3. HasTrue(clauses[at])
  BY <1>1 DEF Skip, PassesMissNothing, SatClauses, IsSat, HasTrue
<1>4. \A i \in done' : i \in DOMAIN clauses /\ HasTrue(clauses[i])
  BY <1>1, <1>2, <1>3 DEF Skip, PassesMissNothing
<1>5. ~ modified => \A i \in 1 .. at : Settled(clauses[i])
  <2> SUFFICES ASSUME ~ modified, NEW i \in 1 .. at PROVE Settled(clauses[i])
    OBVIOUS
  <2>1. CASE i = at
    BY <1>3, <2>1 DEF Settled
  <2>2. CASE i # at
    <3>1. i \in 1 .. at - 1
      BY <1>1, <2>2
    <3> QED BY <1>1, <3>1 DEF PassesMissNothing
  <2> QED BY <2>1, <2>2
<1>6. ~ Tautology(Range(line)) => \A l \in Range(line) : IsTrue(Negation(l))
  BY <1>1 DEF PassesMissNothing
<1>7. ~ Tautology(Range(line')) => \A l \in Range(line') : IsTrue(Negation(l))'
  BY <1>1, <1>6 DEF IsTrue
<1>8. at' - 1 = at
  BY <1>1
<1> QED BY <1>1, <1>4, <1>5, <1>7, <1>8, SettledSame DEF PassesMissNothing

LEMMA OpenMisses ==
    ASSUME CheckerInv, PassesMissNothing, Open
    PROVE  PassesMissNothing'
<1>1. /\ pc = "scan" /\ pc' = "scan" /\ at <= Len(clauses) /\ at' = at + 1 /\ at \in Nat \ {0}
      /\ UNCHANGED <<clauses, units, modified, line, done>>
  BY DEF Open, Scanning, problem, CheckerInv, TypeOK
<1>2. Settled(clauses[at])
  BY DEF Open, Settled
<1>3. ~ modified => \A i \in 1 .. at : Settled(clauses[i])
  <2> SUFFICES ASSUME ~ modified, NEW i \in 1 .. at PROVE Settled(clauses[i])
    OBVIOUS
  <2>1. i = at \/ i \in 1 .. at - 1
    BY <1>1
  <2> QED BY <1>1, <1>2, <2>1 DEF PassesMissNothing
<1>4. ~ Tautology(Range(line')) => \A l \in Range(line') : IsTrue(Negation(l))'
  BY <1>1 DEF PassesMissNothing, IsTrue
<1>5. at' - 1 = at
  BY <1>1
<1>6. \A i \in done' : i \in DOMAIN clauses /\ HasTrue(clauses[i])
  BY <1>1 DEF PassesMissNothing
<1> QED BY <1>1, <1>3, <1>4, <1>5, <1>6, SettledSame DEF PassesMissNothing

LEMMA UnitMisses ==
    ASSUME CheckerInv, PassesMissNothing, Unit
    PROVE  PassesMissNothing'
<1>1. /\ pc = "scan" /\ pc' = "scan" /\ at <= Len(clauses) /\ at \in Nat \ {0}
      /\ modified' = TRUE /\ done' = done \union {at}
      /\ UNCHANGED <<clauses, line>>
  BY DEF Unit, Scanning, CheckerInv, TypeOK
<1>2. PICK k \in DOMAIN clauses[at] :
        /\ Unbound(clauses[at]) = {k}
        /\ units' = [units EXCEPT ![VarOf(clauses[at][k])] = Sign(clauses[at][k])]
  BY DEF Unit
<1>3. clauses \in Seq(Seq(Lits)) /\ at \in DOMAIN clauses /\ units \in [Vars -> {-1, 0, 1}]
  BY <1>1 DEF CheckerInv, LinesAppended, TypeOK
<1> DEFINE u == clauses[at][k]
<1>4. u \in Lits /\ VarOf(u) \in Vars /\ units[VarOf(u)] = 0
  BY <1>2, <1>3, LitFacts DEF Unbound
<1>5. \A l \in Lits : IsTrue(l) => IsTrue(l)'
  <2> HIDE DEF u
  <2>1. units' = [units EXCEPT ![VarOf(u)] = Sign(u)]
    BY <1>2 DEF u
  <2> QED BY <1>3, <1>4, <2>1, TrueStays
<1>6. ASSUME NEW i \in done' PROVE i \in DOMAIN clauses' /\ HasTrue(clauses[i])'
  <2>1. CASE i = at
    <3>1. units'[VarOf(u)] = Sign(u)
      BY <1>2, <1>3, <1>4
    <3> QED BY <1>1, <1>2, <1>3, <2>1, <3>1 DEF HasTrue, IsTrue
  <2>2. CASE i \in done
    <3>1. i \in DOMAIN clauses /\ HasTrue(clauses[i])
      BY <1>1, <2>2 DEF PassesMissNothing
    <3>2. PICK j \in DOMAIN clauses[i] : IsTrue(clauses[i][j])
      BY <3>1 DEF HasTrue
    <3>3. clauses[i][j] \in Lits
      BY <1>3, <3>1
    <3>4. units'[VarOf(clauses[i][j])] = Sign(clauses[i][j])
      BY <1>5, <3>2, <3>3 DEF IsTrue
    <3> QED BY <1>1, <3>1, <3>4 DEF HasTrue, IsTrue
  <2> QED BY <1>1, <2>1, <2>2
<1>7. ~ Tautology(Range(line')) => \A l \in Range(line') : IsTrue(Negation(l))'
  <2>1. line \in Seq(Lits)
    BY DEF CheckerInv, TypeOK
  <2>2. \A l \in Range(line) : Negation(l) \in Lits
    BY <2>1, ClauseLits, LitFacts
  <2>3. ~ Tautology(Range(line)) => \A l \in Range(line) : IsTrue(Negation(l))
    BY <1>1 DEF PassesMissNothing
  <2>4. ~ Tautology(Range(line)) =>
            \A l \in Range(line) : units'[VarOf(Negation(l))] = Sign(Negation(l))
    BY <1>5, <2>2, <2>3 DEF IsTrue
  <2> QED BY <1>1, <2>4 DEF IsTrue
<1> QED BY <1>1, <1>6, <1>7 DEF PassesMissNothing

LEMMA EndPassMisses ==
    ASSUME CheckerInv, PassesMissNothing, EndPass
    PROVE  PassesMissNothing'
<1>1. /\ pc = "scan" /\ at > Len(clauses) /\ at \in Nat \ {0} /\ modified \in BOOLEAN
      /\ UNCHANGED <<clauses, units, line, done>>
      /\ \/ modified /\ at' = 1 /\ pc' = "scan"
         \/ ~ modified /\ pc' = "judge"
  BY DEF EndPass, AnotherPass, problem, CheckerInv, TypeOK
<1>2. ~ Tautology(Range(line')) => \A l \in Range(line') : IsTrue(Negation(l))'
  BY <1>1 DEF PassesMissNothing, IsTrue
<1>3. CASE modified /\ at' = 1 /\ pc' = "scan"
  <2>1. \A i \in done' : i \in DOMAIN clauses /\ HasTrue(clauses[i])
    BY <1>1 DEF PassesMissNothing
  <2>2. 1 .. at' - 1 = {}
    BY <1>3
  <2> QED BY <1>1, <1>2, <1>3, <2>1, <2>2, SettledSame DEF PassesMissNothing
<1>4. CASE ~ modified /\ pc' = "judge"
  <2>1. clauses \in Seq(Seq(Lits))
    BY <1>1 DEF CheckerInv, LinesAppended
  <2>2. \A i \in DOMAIN clauses : i \in 1 .. at - 1
    BY <1>1, <2>1
  <2>3. \A i \in DOMAIN clauses : Settled(clauses[i])
    BY <1>1, <1>4, <2>2 DEF PassesMissNothing
  <2> QED BY <1>1, <1>2, <1>4, <2>3, SettledSame DEF PassesMissNothing
<1> QED BY <1>1, <1>3, <1>4

\* The literals of a line that is no tautology are all made false.
LEMMA FalsifiedFalse ==
    ASSUME NEW us, NEW c \in Seq(Lits), ~ Tautology(Range(c)), NEW l \in Range(c)
    PROVE  Falsified(us, c)[VarOf(l)] = Sign(Negation(l))
<1>1. PICK k \in DOMAIN c : c[k] = l
  BY DEF Range
<1>2. l \in Lits /\ VarOf(l) \in Vars
  BY ClauseLits, LitFacts
<1> DEFINE v == VarOf(l)
           K == {j \in DOMAIN c : VarOf(c[j]) = v}
           T == {0} \union K
<1>3. Len(c) \in Nat /\ T \subseteq 0 .. Len(c) /\ T # {}
  OBVIOUS
<1>4. Max(T) \in T /\ \A y \in T : y <= Max(T)
  <2> HIDE DEF T
  <2> QED BY <1>3, MaxOfNats
<1>5. k \in T /\ k >= 1
  BY <1>1
<1>6. LastOn(v, c) = Max(T)
  BY DEF LastOn
<1>7. LastOn(v, c) # 0 /\ LastOn(v, c) \in K
  BY <1>3, <1>4, <1>5, <1>6
<1> DEFINE m == c[LastOn(v, c)]
<1>8. m \in Lits /\ m \in Range(c) /\ VarOf(m) = v
  BY <1>7, ClauseLits
<1>9. m = l
  <2>1. m = l \/ m = Negation(l)
    BY <1>2, <1>8, SameVar
  <2>2. Negation(l) \notin Range(c)
    BY DEF Tautology
  <2> QED BY <1>8, <2>1, <2>2
<1> QED BY <1>2, <1>7, <1>9 DEF Falsified

LEMMA ReadLineMisses ==
    ASSUME CheckerInv, PassesMissNothing, NEW l \in Seq(Lits), ReadLine(l)
    PROVE  PassesMissNothing'
<1>1. /\ pc' = "scan" /\ line' = l /\ units' = Falsified(units, l) /\ done' = {} /\ at' = 1
      /\ clauses' = clauses
  BY DEF ReadLine
<1>2. 1 .. at' - 1 = {}
  BY <1>1
<1>3. \A k \in Range(l) : VarOf(Negation(k)) = VarOf(k)
  BY ClauseLits, LitFacts
<1>4. ~ Tautology(Range(l)) => \A k \in Range(l) : units'[VarOf(Negation(k))] = Sign(Negation(k))
  BY <1>1, <1>3, FalsifiedFalse
<1> QED BY <1>1, <1>2, <1>4 DEF PassesMissNothing, IsTrue

\* Whatever the checker does, its passes miss nothing.
LEMMA ScanMisses ==
    ASSUME CheckerInv, PassesMissNothing, Scan
    PROVE  PassesMissNothing'
<1>1. CASE Conflict
  <2>1. /\ pc = "scan" /\ pc' = "judge" /\ refuted' = TRUE /\ UNCHANGED <<clauses, units, line>>
    BY <1>1 DEF Conflict, Scanning
  <2> QED BY <2>1 DEF PassesMissNothing, IsTrue
<1>2. CASE Judge
  <2>1. pc' \in {"idle", "read"}
    BY <1>2 DEF Judge, Return
  <2> QED BY <2>1 DEF PassesMissNothing
<1> QED BY <1>1, <1>2, SkipMisses, OpenMisses, UnitMisses, EndPassMisses DEF Scan

LEMMA ElsewhereMisses ==
    ASSUME pc' \notin {"scan", "judge"}
    PROVE  PassesMissNothing'
BY DEF PassesMissNothing

LEMMA StutterMisses ==
    ASSUME PassesMissNothing, UNCHANGED checkerVars
    PROVE  PassesMissNothing'
BY SettledSame DEF checkerVars, problem, scanning, PassesMissNothing, IsTrue

-----------------------------------------------------------------------------
(* What is not refuted is not RUP.                                         *)

\* Two elements of a set of two or more.
LEMMA TwoElements ==
    ASSUME NEW S, Cardinality(S) >= 2
    PROVE  \E j, k \in S : j # k
<1> SUFFICES ASSUME \A j, k \in S : j = k PROVE FALSE
  OBVIOUS
<1>1. \E x : S \subseteq {x}
  <2>1. CASE S = {}
    BY <2>1
  <2>2. CASE S # {}
    <3>1. PICK x \in S : TRUE
      BY <2>2
    <3> QED BY <3>1
  <2> QED BY <2>1, <2>2
<1>2. PICK x : S \subseteq {x}
  BY <1>1
<1>3. Cardinality(S) < 2 /\ Cardinality(S) \in Nat
  <2>1. IsFiniteSet({x})
    BY FS_Singleton
  <2> QED BY <1>2, <2>1, FewUnbound, FS_Subset, FS_CardinalityType
<1> QED BY <1>3

\* What is true when all clauses are settled is closed under unit propagation,
\* and falsifies none of them.
LEMMA SettledClosed ==
    ASSUME units \in [Vars -> {-1, 0, 1}], clauses \in Seq(Seq(Lits)),
           \A i \in DOMAIN clauses : Settled(clauses[i]) /\ IsInjective(clauses[i])
    PROVE  LET T == {l \in Lits : IsTrue(l)} IN Closed(Checked, T) /\ ~ Contradicts(Checked, T)
<1> DEFINE T == {l \in Lits : IsTrue(l)}
<1>1. ASSUME NEW l \in Lits, IsTrue(l), IsTrue(Negation(l)) PROVE FALSE
  <2>1. VarOf(Negation(l)) = VarOf(l)
    BY LitFacts
  <2>2. Sign(Negation(l)) # Sign(l)
    BY SignFacts
  <2> QED BY <1>1, <2>1, <2>2 DEF IsTrue
<1>2. ASSUME NEW C \in Checked, NEW l,
             \A k \in C \ {l} : Negation(k) \in T
      PROVE  l \in C /\ l \in T
  <2>1. PICK i \in DOMAIN clauses : C = Range(clauses[i])
    BY <1>2 DEF Checked
  <2> DEFINE c == clauses[i]
  <2>2. c \in Seq(Lits) /\ Settled(c) /\ IsInjective(c)
    OBVIOUS
  <2>3. CASE HasTrue(c)
    <3>1. PICK k \in DOMAIN c : IsTrue(c[k])
      BY <2>3 DEF HasTrue
    <3>2. c[k] \in Lits /\ c[k] \in C
      BY <2>1, <2>2, ClauseLits
    <3>3. c[k] = l
      BY <1>1, <1>2, <3>1, <3>2
    <3> QED BY <3>1, <3>2, <3>3
  <2>4. CASE Cardinality(Unbound(c)) >= 2
    <3>1. \E j \in Unbound(c) : c[j] # l
      <4>1. PICK j, k \in Unbound(c) : j # k
        BY <2>4, TwoElements
      <4>3. c[j] # c[k]
        BY <2>2, <4>1 DEF Unbound, IsInjective
      <4> QED BY <4>1, <4>3
    <3>2. PICK j \in Unbound(c) : c[j] # l
      BY <3>1
    <3>3. c[j] \in Lits /\ c[j] \in C /\ units[VarOf(c[j])] = 0
      BY <2>1, <2>2, <3>2, ClauseLits DEF Unbound
    <3>4. IsTrue(Negation(c[j])) /\ VarOf(Negation(c[j])) = VarOf(c[j])
      BY <1>2, <3>2, <3>3, LitFacts
    <3> QED BY <3>3, <3>4 DEF IsTrue, Sign
  <2> QED BY <2>2, <2>3, <2>4 DEF Settled
<1>3. Closed(Checked, T)
  BY <1>2 DEF Closed
<1>4. ~ Contradicts(Checked, T)
  <2>1. ~ \E l \in T : Negation(l) \in T
    BY <1>1
  <2>2. ASSUME NEW C \in Checked, \A k \in C : Negation(k) \in T PROVE FALSE
    <3>1. -1 \in T
      BY <1>2, <2>2
    <3> QED BY <3>1, NbVarsAssumption DEF Lits
  <2> QED BY <2>1, <2>2 DEF Contradicts
<1> QED BY <1>3, <1>4

LEMMA RefusedIsNotRup == CheckerInv /\ PassesMissNothing => RefusedNotRup
<1> SUFFICES ASSUME CheckerInv, PassesMissNothing, pc = "judge", ~ refuted,
                    ~ Tautology(Range(line)), \A k \in DOMAIN clauses : IsInjective(clauses[k])
             PROVE  ~ IsRup(Checked, Range(line))
  BY DEF RefusedNotRup
<1> DEFINE T == {l \in Lits : IsTrue(l)}
<1>1. units \in [Vars -> {-1, 0, 1}] /\ clauses \in Seq(Seq(Lits)) /\ line \in Seq(Lits)
  BY DEF CheckerInv, TypeOK, LinesAppended
<1>2. \A i \in DOMAIN clauses : Settled(clauses[i]) /\ IsInjective(clauses[i])
  BY DEF PassesMissNothing
<1>3. Closed(Checked, T) /\ ~ Contradicts(Checked, T)
  BY <1>1, <1>2, SettledClosed
<1>4. {Negation(l) : l \in Range(line)} \subseteq T
  <2>1. \A l \in Range(line) : IsTrue(Negation(l))
    BY DEF PassesMissNothing
  <2> QED BY <1>1, <2>1, ClauseLits, LitFacts
<1>5. T \in SUBSET Lits
  OBVIOUS
<1> HIDE DEF T
<1> QED BY <1>3, <1>4, <1>5 DEF IsRup, Refutes

-----------------------------------------------------------------------------
(* The checker, called from UnsatSubset or by the client.                  *)

\* What each step does to the checker.
LEMMA CheckerSteps ==
    ASSUME Inv, Next
    PROVE  \/ UNCHANGED checkerVars
           \/ clauses = given /\ \E b \in BOOLEAN : Start(b)
           \/ \E l \in Lines : ReadLine(l)
           \/ EndOfLines \/ ReadError
           \/ Scan
           \/ StartDeletion
BY DEF Next, CallCheck, CallSubset, CallMaxSat, OwnLine, AnyLine, Idle, SolverStep, SolverSends,
       SolverProves, NewLines, SolverReturns, SolverCloses, CallStep, ScanLine, ChannelClosed,
       SubsetReturns, ReturnSubset, DeletionTurn, ReturnDeletion, StartInsertion, InsertionTurn,
       InsertionAdd, MaxSatTurn, Overwritten, vars

\* MUSDeletion writes relax literals into clauses nothing checks any more.
LEMMA RelaxInv ==
    ASSUME CheckerInv, pc = "idle", StartDeletion
    PROVE  CheckerInv'
<1> USE DEF CheckerInv
<1>1. /\ UNCHANGED <<given, units, tagged, scanning, channel, verdict, pc>>
      /\ clauses' = IF shared THEN [i \in DOMAIN clauses |-> Append(clauses[i], Relax(i))]
                    ELSE clauses
  BY DEF StartDeletion, scanning
<1>2. NbClauses \in Nat /\ DOMAIN clauses = 1 .. NbClauses /\ units = saved
  BY InputFacts DEF LinesAppended
<1>3. TypeOK'
  BY <1>1 DEF TypeOK, NbClauses, scanning
<1>4. LinesAppended'
  BY <1>1, <1>2 DEF LinesAppended, NbClauses, scanning
<1>5. (BindingsFollow /\ RefutedFollows)'
  BY <1>1 DEF BindingsFollow, RefutedFollows
<1>6. LinesFollow'
  <2>1. CASE shared
    <3> DEFINE e(i) == Append(clauses[i], Relax(i))
    <3>1. clauses' = [i \in 1 .. NbClauses |-> e(i)]
      BY <1>1, <1>2, <2>1
    <3>2. [i \in 1 .. NbClauses |-> e(i)] \in Seq({e(i) : i \in 1 .. NbClauses})
      <4> HIDE DEF e
      <4> QED BY <1>2
    <3>3. Len(clauses') = NbClauses
      <4> HIDE DEF e
      <4> QED BY <1>2, <3>1, <3>2
    <3>4. NbClauses + 1 .. Len(clauses') = {}
      BY <1>2, <3>3
    <3> QED BY <1>1, <3>4 DEF LinesFollow, NbClauses, ClausesAt
  <2>2. CASE ~ shared
    BY <1>1, <2>2 DEF LinesFollow, NbClauses, ClausesAt
  <2> QED BY <2>1, <2>2
<1> QED BY <1>3, <1>4, <1>5, <1>6

\* The lines appended to the clauses are those of a certificate.
LEMMA LinesKnownStep ==
    ASSUME Inv, Next
    PROVE  LinesKnown'
<1>1. CASE UNCHANGED checkerVars
  BY <1>1 DEF checkerVars, problem, scanning, Inv, CheckerPart, LinesKnown, NbClauses
<1>2. CASE clauses = given /\ \E b \in BOOLEAN : Start(b)
  <2>1. clauses' = given /\ given' = given /\ pc' = "read"
    BY <1>2 DEF Start
  <2>2. Len(given) \in Nat
    BY InputFacts DEF Inv, CheckerPart, CheckerInv, NbClauses
  <2> QED BY <2>1, <2>2 DEF LinesKnown, NbClauses
<1>3. CASE \E l \in Lines : ReadLine(l)
  BY <1>3 DEF ReadLine, Inv, CheckerPart, LinesKnown, NbClauses
<1>4. CASE EndOfLines \/ ReadError
  BY <1>4 DEF EndOfLines, ReadError, Return, LinesKnown
<1>5. CASE StartDeletion
  <2>1. pc' = "idle"
    BY <1>5 DEF StartDeletion, Inv, ExplainPart, StagesAgree
  <2> QED BY <2>1 DEF LinesKnown
<1>6. CASE Skip \/ Open \/ Unit \/ Conflict \/ EndPass
  <2>1. /\ UNCHANGED <<given, clauses, line>> /\ pc = "scan"
    BY <1>6 DEF Skip, Open, Unit, Conflict, EndPass, Scanning, problem
  <2> QED BY <2>1 DEF Inv, CheckerPart, LinesKnown, NbClauses
<1>7. CASE Judge
  <2>1. CASE pc' = "idle"
    BY <2>1 DEF LinesKnown
  <2>2. CASE pc' # "idle"
    <3>1. pc = "judge" /\ pc' = "read" /\ clauses' = Append(clauses, line) /\ given' = given
      BY <1>7, <2>2 DEF Judge, Return
    <3>2. clauses \in Seq(Seq(Lits)) /\ line \in Seq(Lits) /\ line \in Lines /\ NbClauses \in Nat
      BY <3>1, InputFacts DEF Inv, CheckerPart, CheckerInv, LinesAppended, TypeOK, LinesKnown
    <3>3. \A k \in NbClauses + 1 .. Len(clauses) + 1 : clauses'[k] \in Lines
      <4> SUFFICES ASSUME NEW k \in NbClauses + 1 .. Len(clauses) + 1 PROVE clauses'[k] \in Lines
        OBVIOUS
      <4>1. CASE k = Len(clauses) + 1
        BY <3>1, <3>2, <4>1
      <4>2. CASE k # Len(clauses) + 1
        <5>1. k \in NbClauses + 1 .. Len(clauses) /\ k \in 1 .. Len(clauses)
          BY <3>2, <4>2
        <5>2. clauses'[k] = clauses[k]
          BY <3>1, <3>2, <5>1
        <5> QED BY <3>1, <5>1, <5>2 DEF Inv, CheckerPart, LinesKnown
      <4> QED BY <4>1, <4>2
    <3>4. Len(clauses') = Len(clauses) + 1
      BY <3>1, <3>2
    <3> QED BY <3>1, <3>3, <3>4 DEF LinesKnown, NbClauses
  <2> QED BY <2>1, <2>2
<1> QED BY <1>1, <1>2, <1>3, <1>4, <1>5, <1>6, <1>7, CheckerSteps DEF Scan

LEMMA CheckerPartStep ==
    ASSUME Inv, Next
    PROVE  CheckerPart'
<1>0. CheckerInv /\ PassesMissNothing
  BY DEF Inv, CheckerPart
<1>1. CASE UNCHANGED checkerVars
  BY <1>0, <1>1, StutterInv, StutterMisses, LinesKnownStep DEF CheckerPart
<1>2. ASSUME clauses = given, NEW b \in BOOLEAN, Start(b) PROVE CheckerPart'
  <2>1. CheckerInv'
    BY <1>0, <1>2, StartInv
  <2> QED BY <1>2, <2>1, ElsewhereMisses, LinesKnownStep DEF CheckerPart, Start
<1>3. ASSUME NEW l \in Lines, ReadLine(l) PROVE CheckerPart'
  <2>1. l \in Seq(Lits)
    BY CheckerAssumption
  <2> QED BY <1>0, <1>3, <2>1, ReadLineInv, ReadLineMisses, LinesKnownStep DEF CheckerPart
<1>4. CASE EndOfLines \/ ReadError
  <2>1. pc' = "idle"
    BY <1>4 DEF EndOfLines, ReadError, Return
  <2> QED BY <1>0, <1>4, <2>1, EndInv, ElsewhereMisses, LinesKnownStep DEF CheckerPart
<1>5. CASE Scan
  BY <1>0, <1>5, ScanInv, ScanMisses, LinesKnownStep DEF CheckerPart
<1>6. CASE StartDeletion
  <2>1. pc = "idle" /\ pc' = "idle"
    BY <1>6 DEF StartDeletion, Inv, ExplainPart, StagesAgree
  <2> QED BY <1>0, <1>6, <2>1, RelaxInv, ElsewhereMisses, LinesKnownStep DEF CheckerPart
<1> QED BY <1>1, <1>2, <1>3, <1>4, <1>5, <1>6, CheckerSteps

-----------------------------------------------------------------------------
(* Subsets of the clauses.                                                 *)

LEMMA GivenFacts ==
    ASSUME Inv
    PROVE  /\ given \in Seq(Seq(Lits)) /\ NbClauses \in Nat /\ DOMAIN given = 1 .. NbClauses
           /\ ClausesAt(DOMAIN given) \subseteq Clauses
<1>1. given \in Seq(Seq(Lits)) /\ NbClauses \in Nat /\ DOMAIN given = 1 .. NbClauses
  BY InputFacts DEF Inv, CheckerPart, CheckerInv
<1>2. \A i \in DOMAIN given : Range(given[i]) \subseteq Lits
  BY <1>1, ClauseLits
<1> QED BY <1>1, <1>2 DEF ClausesAt, Clauses

\* Fewer clauses are satisfiable if more are.
LEMMA FewerSat ==
    ASSUME NEW J, NEW I \in SUBSET J, Unsat(I)
    PROVE  Unsat(J)
BY FewerClauses DEF Unsat, Satisfiable

\* No clause at all is satisfied by any assignment.
LEMMA NoneSat == ~ Unsat({})
<1>1. [v \in Vars |-> TRUE] \in Assignments
  BY DEF Assignments
<1>2. ClausesAt({}) = {}
  BY DEF ClausesAt
<1> QED BY <1>1, <1>2 DEF Unsat, Satisfiable, SatAll

\* What unit propagation alone refutes has no model: the literals a model makes
\* true are closed under it.
LEMMA RefutesUnsat ==
    ASSUME NEW F, F \subseteq Clauses, Refutes(F, {})
    PROVE  ~ Satisfiable(F)
<1> SUFFICES ASSUME NEW a \in Assignments, SatAll(a, F) PROVE FALSE
  BY DEF Satisfiable
<1> DEFINE T == {l \in Lits : Holds(a, l)}
<1>1. ASSUME NEW C \in F PROVE \E l \in C : l \in T /\ Negation(l) \notin T
  <2>1. PICK l \in C : Holds(a, l)
    BY DEF SatAll, SatClause
  <2>2. l \in Lits
    BY DEF Clauses
  <2> QED BY <2>1, <2>2, HoldsNegation
<1>2. \A l \in T : Negation(l) \notin T
  BY HoldsNegation
<1>3. Closed(F, T)
  <2> SUFFICES ASSUME NEW C \in F, NEW l \in C, \A k \in C \ {l} : Negation(k) \in T
               PROVE  l \in T
    BY DEF Closed
  <2> QED BY <1>1
<1>4. ~ Contradicts(F, T)
  BY <1>1, <1>2 DEF Contradicts
<1>5. T \in SUBSET Lits /\ {} \subseteq T
  OBVIOUS
<1> HIDE DEF T
<1> QED BY <1>3, <1>4, <1>5 DEF Refutes

\* The next clause is the first of those ahead.
LEMMA AheadFirst ==
    ASSUME Inv, Ahead # {}
    PROVE  LET i == Min(Ahead) IN
           /\ i \in pool /\ i \in Nat /\ i > idx /\ i \in Ahead
           /\ {j \in pool : j > i} = Ahead \ {i}
           /\ {j \in pool : j < i} = {j \in pool : j <= idx}
           /\ {j \in pool : j <= i} = {j \in pool : j <= idx} \union {i}
<1> DEFINE i == Min(Ahead)
<1>1. pool \subseteq Nat /\ idx \in Nat
  BY GivenFacts DEF Inv, ExplainPart, ExplainTypeOK
<1>2. i \in Ahead /\ \A j \in Ahead : i <= j
  <2>1. Ahead \subseteq Nat
    BY <1>1 DEF Ahead
  <2> QED BY <2>1, MinOfNats
<1>3. i \in pool /\ i \in Nat /\ i > idx
  BY <1>1, <1>2 DEF Ahead
<1>4. \A j \in pool : j \in Ahead <=> j > idx
  BY DEF Ahead
<1> HIDE DEF i
<1>5. \A j \in pool : j > i <=> (j \in Ahead /\ j # i)
  BY <1>1, <1>2, <1>3, <1>4
<1>6. \A j \in pool : j < i <=> j <= idx
  BY <1>1, <1>2, <1>3, <1>4
<1>7. Ahead \subseteq pool
  BY DEF Ahead
<1>8. \A j \in pool : j <= i <=> j <= idx \/ j = i
  BY <1>1, <1>3, <1>6
<1> QED BY <1>2, <1>3, <1>5, <1>6, <1>7, <1>8 DEF i

-----------------------------------------------------------------------------
(* UnsatSubset.                                                            *)

\* When a call neither moves nor touches its sets, only the checker matters.
LEMMA ExplainSame ==
    ASSUME Inv, UNCHANGED <<given, op, stage, pool, kept, idx, answer>>,
           sender' \in {"none", "solving", "proved", "returned", "closed"},
           status' \in {"Sat", "Unsat"},
           sender' = "solving" => stage = "check",
           stage \notin {"idle", "check"} => pc' = "idle",
           CertificateHolds'
    PROVE  ExplainPart'
<1> USE DEF Inv, ExplainPart
<1>1. ExplainTypeOK'
  BY DEF ExplainTypeOK, NbClauses
<1>2. StagesAgree'
  BY DEF StagesAgree
<1>3. (SubsetHolds /\ DeletionHolds /\ InsertionHolds /\ AnswerHolds)'
  BY DEF SubsetHolds, DeletionHolds, InsertionHolds, AnswerHolds, Ahead, Unsat, ClausesAt
<1> QED BY <1>1, <1>2, <1>3

\* A line sent by the solver is never refused.
LEMMA NeverRefused ==
    ASSUME DistinctLiterals, Inv, stage = "check", pc = "judge"
    PROVE  refuted
<1> SUFFICES ASSUME ~ refuted PROVE FALSE
  OBVIOUS
<1>1. line \in Lines /\ IsRup(Checked, Range(line))
  BY DEF Inv, CheckerPart, LinesKnown, ExplainPart, CertificateHolds
<1>2. /\ clauses \in Seq(Seq(Lits)) /\ NbClauses \in Nat /\ DOMAIN given = 1 .. NbClauses
      /\ \A i \in 1 .. NbClauses : clauses[i] = given[i]
      /\ \A k \in NbClauses + 1 .. Len(clauses) : clauses[k] \in Lines
      /\ given \in Inputs
  BY GivenFacts DEF Inv, CheckerPart, CheckerInv, LinesAppended, LinesKnown, TypeOK
<1>3. ASSUME NEW k \in DOMAIN clauses PROVE IsInjective(clauses[k])
  <2>1. k \in 1 .. NbClauses \/ k \in NbClauses + 1 .. Len(clauses)
    BY <1>2
  <2>2. CASE k \in 1 .. NbClauses
    BY <1>2, <2>2 DEF DistinctLiterals
  <2>3. CASE k \in NbClauses + 1 .. Len(clauses)
    BY <1>2, <2>3 DEF DistinctLiterals
  <2> QED BY <2>1, <2>2, <2>3
<1>4. ~ Tautology(Range(line))
  BY <1>1 DEF DistinctLiterals
<1> QED BY <1>1, <1>3, <1>4, RefusedIsNotRup DEF RefusedNotRup, Inv, CheckerPart

LEMMA ScanHolds ==
    ASSUME DistinctLiterals, Inv, Scan, stage = "check", UNCHANGED explainVars
    PROVE  CertificateHolds'
<1>1. CertificateHolds
  BY DEF Inv, ExplainPart
<1>2. CASE Skip \/ Open \/ Unit \/ Conflict \/ EndPass
  <2>1. /\ UNCHANGED <<given, clauses, line, channel>> /\ pc = "scan" /\ pc' \in {"scan", "judge"}
    BY <1>2 DEF Skip, Open, Unit, Conflict, EndPass, Scanning, problem
  <2>2. Checked' = Checked
    BY <2>1 DEF Checked
  <2> QED BY <1>1, <2>1, <2>2 DEF CertificateHolds, Proved, explainVars, Unsat, ClausesAt
<1>3. CASE Judge
  <2>1. pc = "judge" /\ refuted /\ channel /\ channel' = channel /\ given' = given
    BY <1>1, <1>3, NeverRefused DEF Judge, CertificateHolds
  <2>2. CASE line = <<>>
    <3>1. pc' = "idle" /\ verdict' = "refuted"
      BY <1>3, <2>1, <2>2 DEF Judge, Return
    <3>2. Proved
      BY <1>1, <2>1, <2>2 DEF CertificateHolds
    <3> QED BY <1>1, <2>1, <3>1, <3>2 DEF CertificateHolds, Proved, explainVars, Unsat, ClausesAt
  <2>3. CASE line # <<>>
    <3>1. pc' = "read"
      BY <1>3, <2>1, <2>3 DEF Judge
    <3>2. ~ Proved
      BY <1>1, <2>1, <2>3 DEF CertificateHolds
    <3> QED BY <1>1, <2>1, <3>1, <3>2 DEF CertificateHolds, Proved, explainVars, Unsat, ClausesAt
  <2> QED BY <2>2, <2>3
<1> QED BY <1>2, <1>3 DEF Scan

LEMMA ScanLineHolds ==
    ASSUME DistinctLiterals, Inv, ScanLine
    PROVE  ExplainPart'
<1>1. Scan /\ UNCHANGED explainVars /\ UNCHANGED given /\ pc # "idle"
  BY DEF ScanLine, Scan, Skip, Open, Unit, Conflict, EndPass, Judge, Scanning, problem
<1>2. stage \in {"idle", "check"}
  BY <1>1 DEF Inv, ExplainPart, StagesAgree
<1>3. CertificateHolds'
  <2>1. CASE stage = "check"
    BY <1>1, <2>1, ScanHolds
  <2>2. CASE stage = "idle"
    BY <1>1, <2>2 DEF CertificateHolds, explainVars
  <2> QED BY <1>2, <2>1, <2>2
<1> QED BY <1>1, <1>2, <1>3, ExplainSame DEF explainVars, Inv, ExplainPart, ExplainTypeOK, StagesAgree

LEMMA OwnLineHolds ==
    ASSUME Inv, OwnLine
    PROVE  ExplainPart'
<1>1. stage = "idle" /\ op = "check" /\ UNCHANGED explainVars
  BY DEF OwnLine, Inv, ExplainPart, StagesAgree, ExplainTypeOK
<1>2. UNCHANGED given
  BY DEF OwnLine, AnyLine, ReadLine, EndOfLines, ReadError
<1>3. CertificateHolds'
  BY <1>1 DEF CertificateHolds, explainVars
<1> QED BY <1>1, <1>2, <1>3, ExplainSame DEF explainVars, Inv, ExplainPart, ExplainTypeOK, StagesAgree

LEMMA SolverStepHolds ==
    ASSUME Inv, SolverStep
    PROVE  ExplainPart'
<1>0. CertificateHolds /\ (status = "Sat" \/ status = "Unsat") /\ (sender = "solving" => stage = "check")
  BY DEF Inv, ExplainPart, StagesAgree, ExplainTypeOK
<1>1. CASE SolverSends
  <2>1. PICK l \in NewLines \ {<<>>} : ReadLine(l)
    BY <1>1 DEF SolverSends
  <2>2. /\ sender = "solving" /\ UNCHANGED explainVars /\ stage = "check" /\ status = "Unsat"
        /\ UNCHANGED <<given, clauses, channel>> /\ pc' = "scan" /\ line' = l /\ l # <<>>
        /\ IsRup(Checked, Range(l))
    BY <1>0, <1>1, <2>1 DEF SolverSends, ReadLine, NewLines, CertificateHolds
  <2>3. Checked' = Checked
    BY <2>2 DEF Checked
  <2>4. CertificateHolds'
    BY <1>0, <2>2, <2>3 DEF CertificateHolds, Proved, explainVars, Unsat, ClausesAt
  <2> QED BY <2>2, <2>4, ExplainSame DEF explainVars, Inv, ExplainPart, ExplainTypeOK
<1>2. CASE SolverProves
  <2>1. ReadLine(<<>>) /\ IsRup(Checked, Range(<<>>))
    BY <1>2 DEF SolverProves, NewLines
  <2>2. /\ sender = "solving" /\ sender' = "proved" /\ UNCHANGED <<op, stage, status, pool, shared, kept, idx, answer>>
        /\ stage = "check" /\ status = "Unsat"
        /\ UNCHANGED <<given, clauses, channel>> /\ pc' = "scan" /\ line' = <<>>
    BY <1>0, <1>2, <2>1 DEF SolverProves, ReadLine, CertificateHolds
  <2>3. Checked' = Checked
    BY <2>2 DEF Checked
  <2>4. CertificateHolds'
    BY <1>0, <2>1, <2>2, <2>3 DEF CertificateHolds, Proved
  <2> QED BY <2>2, <2>4, ExplainSame DEF Inv, ExplainPart, ExplainTypeOK
<1>3. CASE SolverReturns
  <2>1. /\ UNCHANGED <<checkerVars, op, stage, pool, shared, kept, idx, answer>> /\ sender' = "returned"
        /\ \/ sender = "proved" /\ status' = "Unsat"
           \/ sender = "solving" /\ ~ Unsat(DOMAIN given) /\ status' = "Sat"
    BY <1>3 DEF SolverReturns, Unsat
  <2>2. UNCHANGED <<given, clauses, line, channel, pc, verdict>>
    BY <2>1 DEF checkerVars, problem, scanning
  <2>3. Checked' = Checked /\ (Unsat(DOMAIN given)' <=> Unsat(DOMAIN given))
    BY <2>2 DEF Checked, Unsat, ClausesAt
  <2>4. CertificateHolds'
    BY <1>0, <2>1, <2>2, <2>3 DEF CertificateHolds, Proved
  <2> QED BY <2>1, <2>2, <2>4, ExplainSame DEF Inv, ExplainPart, ExplainTypeOK, StagesAgree
<1>4. CASE SolverCloses
  <2>1. /\ UNCHANGED <<checkerVars, op, stage, status, pool, shared, kept, idx, answer>>
        /\ sender = "returned" /\ sender' = "closed"
    BY <1>4 DEF SolverCloses
  <2>2. UNCHANGED <<given, clauses, line, channel, pc, verdict>>
    BY <2>1 DEF checkerVars, problem, scanning
  <2>3. Checked' = Checked /\ (Unsat(DOMAIN given)' <=> Unsat(DOMAIN given))
    BY <2>2 DEF Checked, Unsat, ClausesAt
  <2>4. CertificateHolds'
    BY <1>0, <2>1, <2>2, <2>3 DEF CertificateHolds, Proved
  <2> QED BY <2>1, <2>2, <2>4, ExplainSame DEF Inv, ExplainPart, ExplainTypeOK, StagesAgree
<1> QED BY <1>1, <1>2, <1>3, <1>4 DEF SolverStep

LEMMA ChannelClosedHolds ==
    ASSUME Inv, ChannelClosed
    PROVE  ExplainPart'
<1>1. /\ stage = "check" /\ sender = "closed" /\ pc = "read" /\ pc' = "idle" /\ verdict' = "ended"
      /\ UNCHANGED explainVars /\ UNCHANGED <<given, channel>>
  BY DEF ChannelClosed, EndOfLines, Return
<1>2. CertificateHolds /\ status \in {"Sat", "Unsat"}
  BY DEF Inv, ExplainPart, ExplainTypeOK
<1>3. ~ Proved /\ status = "Sat"
  BY <1>1, <1>2 DEF CertificateHolds, Proved
<1>4. CertificateHolds'
  BY <1>1, <1>2, <1>3 DEF CertificateHolds, Proved, explainVars, Unsat, ClausesAt
<1> QED BY <1>1, <1>4, ExplainSame DEF explainVars, Inv, ExplainPart, ExplainTypeOK

\* The clauses that are tagged when the empty line is refuted are unsatisfiable;
\* otherwise the channel was closed because Solve found a model.
LEMMA SubsetReturnsHolds ==
    ASSUME Inv, SubsetReturns
    PROVE  ExplainPart'
<1> USE DEF Inv, CheckerPart, ExplainPart
<1>1. /\ stage = "check" /\ pc = "idle" /\ CertificateHolds
      /\ UNCHANGED <<checkerVars, op, sender, status, kept, idx>>
  BY DEF SubsetReturns
<1>2. UNCHANGED <<given, pc, tagged>>
  BY <1>1 DEF checkerVars, problem
<1>3. CASE verdict = "refuted" /\ status = "Unsat"
  <2>1. stage' = "subset" /\ pool' = tagged /\ UNCHANGED answer /\ sender # "solving"
    BY <1>1, <1>3 DEF SubsetReturns, NotUnsat, CertificateHolds, Proved
  <2>2. Unsat(tagged) /\ tagged \subseteq 1 .. NbClauses
    BY <1>3 DEF CheckerInv, LinesFollow, TypeOK, Unsat
  <2>3. ExplainTypeOK'
    BY <1>1, <1>2, <2>1, <2>2 DEF ExplainTypeOK, NbClauses
  <2>4. StagesAgree'
    BY <1>1, <1>2, <2>1 DEF StagesAgree
  <2>5. SubsetHolds'
    BY <1>2, <2>1, <2>2 DEF SubsetHolds, Unsat, ClausesAt
  <2>6. (CertificateHolds /\ DeletionHolds /\ InsertionHolds /\ AnswerHolds)'
    BY <1>2, <2>1 DEF CertificateHolds, DeletionHolds, InsertionHolds, AnswerHolds, Unsat, ClausesAt
  <2> QED BY <2>3, <2>4, <2>5, <2>6
<1>4. CASE status = "Sat" /\ ~ Unsat(DOMAIN given) /\ sender # "solving"
  <2>1. stage' = "idle" /\ answer' = [kind |-> "satisfiable", ids |-> {}] /\ UNCHANGED pool
    BY <1>4 DEF SubsetReturns, NotUnsat, Returns
  <2>2. ExplainTypeOK'
    BY <1>1, <1>2, <2>1 DEF ExplainTypeOK, NbClauses
  <2>3. StagesAgree'
    BY <1>1, <1>4, <2>1 DEF StagesAgree
  <2>4. AnswerHolds'
    BY <1>2, <1>4, <2>1 DEF AnswerHolds, Unsat, ClausesAt
  <2>5. (CertificateHolds /\ SubsetHolds /\ DeletionHolds /\ InsertionHolds)'
    BY <2>1 DEF CertificateHolds, SubsetHolds, DeletionHolds, InsertionHolds
  <2> QED BY <2>2, <2>3, <2>4, <2>5
<1> QED BY <1>1, <1>3, <1>4 DEF CertificateHolds, ExplainTypeOK, Proved

LEMMA CallHolds ==
    ASSUME Inv, \/ \E b \in BOOLEAN : CallCheck(b)
                \/ \E o \in {"subset", "deletion", "insertion"} : CallSubset(o)
                \/ CallMaxSat
    PROVE  ExplainPart'
<1> USE DEF Inv, ExplainPart
<1>0. Idle /\ answer' = NoAnswer /\ NoAnswer.kind = "none" /\ NoAnswer.ids = {}
      /\ NoAnswer \in [kind : {"none", "subset", "mus", "satisfiable"}, ids : SUBSET (1 .. NbClauses)]
  BY DEF CallCheck, CallSubset, CallMaxSat, NoAnswer
<1>1. /\ stage = "idle" /\ pc = "idle" /\ clauses = given /\ sender \in {"none", "closed"}
  BY <1>0 DEF Idle
<1>2. AnswerHolds'
  BY <1>0 DEF AnswerHolds
<1>3. CASE \E b \in BOOLEAN : CallCheck(b)
  <2>1. /\ op' = "check" /\ UNCHANGED <<given, stage, sender, status, pool, shared, kept, idx>>
    BY <1>3 DEF CallCheck, Start
  <2>2. ExplainTypeOK'
    BY <1>0, <2>1 DEF ExplainTypeOK, NbClauses
  <2>3. StagesAgree'
    BY <1>0, <1>1, <2>1 DEF StagesAgree
  <2>4. (CertificateHolds /\ SubsetHolds /\ DeletionHolds /\ InsertionHolds)'
    BY <1>1, <2>1 DEF CertificateHolds, SubsetHolds, DeletionHolds, InsertionHolds
  <2> QED BY <1>2, <2>2, <2>3, <2>4
<1>4. CASE CallMaxSat
  <2>1. /\ op' = "maxsat" /\ stage' = "maxsat" /\ kept' = {}
        /\ UNCHANGED <<checkerVars, sender, status, pool, shared, idx>>
    BY <1>4 DEF CallMaxSat
  <2>2. UNCHANGED <<given, pc>>
    BY <2>1 DEF checkerVars, problem
  <2>3. ExplainTypeOK'
    BY <1>0, <2>1, <2>2 DEF ExplainTypeOK, NbClauses
  <2>4. StagesAgree'
    BY <1>0, <1>1, <2>1, <2>2 DEF StagesAgree
  <2>5. (CertificateHolds /\ SubsetHolds /\ DeletionHolds /\ InsertionHolds)'
    BY <2>1 DEF CertificateHolds, SubsetHolds, DeletionHolds, InsertionHolds
  <2> QED BY <1>2, <2>3, <2>4, <2>5
<1>5. CASE \E o \in {"subset", "deletion", "insertion"} : CallSubset(o)
  <2>1. op' \in {"subset", "deletion", "insertion"} /\ kept' = {} /\ idx' = 0
    BY <1>5 DEF CallSubset
  <2>2. CASE Refutes(Checked, {})
    <3>1. /\ stage' = "subset" /\ pool' = DOMAIN clauses
          /\ UNCHANGED <<checkerVars, sender, status>>
      BY <1>5, <2>2 DEF CallSubset
    <3>2. UNCHANGED <<given, pc>>
      BY <3>1 DEF checkerVars, problem
    <3>3. pool' = 1 .. NbClauses /\ Unsat(1 .. NbClauses)
      <4>1. Checked = ClausesAt(DOMAIN given)
        BY <1>1 DEF Checked, ClausesAt
      <4> QED BY <1>1, <2>2, <3>1, <4>1, GivenFacts, RefutesUnsat DEF Unsat
    <3>4. ExplainTypeOK'
      BY <1>0, <2>1, <3>1, <3>2, <3>3 DEF ExplainTypeOK, NbClauses
    <3>5. StagesAgree'
      BY <1>1, <2>1, <3>1, <3>2, <1>0 DEF StagesAgree
    <3>6. SubsetHolds'
      BY <3>2, <3>3 DEF SubsetHolds, Unsat, ClausesAt
    <3>7. (CertificateHolds /\ DeletionHolds /\ InsertionHolds)'
      BY <3>1 DEF CertificateHolds, DeletionHolds, InsertionHolds
    <3> QED BY <1>2, <3>4, <3>5, <3>6, <3>7
  <2>3. CASE ~ Refutes(Checked, {})
    <3>1. /\ stage' = "check" /\ sender' = "solving" /\ status' = "Unsat"
          /\ pc' = "read" /\ channel' = TRUE
          /\ UNCHANGED <<given, pool>>
      BY <1>5, <2>3 DEF CallSubset, Start
    <3>2. ExplainTypeOK'
      BY <1>0, <2>1, <3>1 DEF ExplainTypeOK, NbClauses
    <3>3. StagesAgree'
      BY <1>0, <2>1, <3>1 DEF StagesAgree
    <3>4. CertificateHolds'
      BY <3>1 DEF CertificateHolds, Proved
    <3>5. (SubsetHolds /\ DeletionHolds /\ InsertionHolds)'
      BY <3>1 DEF SubsetHolds, DeletionHolds, InsertionHolds
    <3> QED BY <1>2, <3>2, <3>3, <3>4, <3>5
  <2> QED BY <2>2, <2>3
<1> QED BY <1>3, <1>4, <1>5

-----------------------------------------------------------------------------
(* The algorithms that look for a minimal subset.                          *)

\* What an answer that is a subset has to be.
LEMMA ReturnHolds ==
    ASSUME Inv, UNCHANGED <<given, pc, op, sender, status, pool, kept, idx>>, sender # "solving",
           NEW k \in {"subset", "mus", "satisfiable"}, NEW I \in SUBSET (1 .. NbClauses),
           Returns(k, I),
           k = "satisfiable" => ~ Unsat(DOMAIN given), k # "satisfiable" => Unsat(I)
    PROVE  ExplainPart'
<1> USE DEF Inv, ExplainPart
<1>1. stage' = "idle" /\ answer' = [kind |-> k, ids |-> I]
  BY DEF Returns
<1>2. ExplainTypeOK'
  BY <1>1 DEF ExplainTypeOK, NbClauses
<1>3. StagesAgree'
  BY <1>1 DEF StagesAgree
<1>4. AnswerHolds'
  BY <1>1 DEF AnswerHolds, Unsat, ClausesAt
<1>5. (CertificateHolds /\ SubsetHolds /\ DeletionHolds /\ InsertionHolds)'
  BY <1>1 DEF CertificateHolds, SubsetHolds, DeletionHolds, InsertionHolds
<1> QED BY <1>2, <1>3, <1>4, <1>5

LEMMA ReturnSubsetHolds ==
    ASSUME Inv, ReturnSubset
    PROVE  ExplainPart'
<1>1. /\ stage = "subset" /\ Returns("subset", pool)
      /\ UNCHANGED <<given, pc, op, sender, status, pool, kept, idx>>
  BY DEF ReturnSubset, checkerVars, problem
<1>2. Unsat(pool) /\ pool \in SUBSET (1 .. NbClauses) /\ sender # "solving"
  BY <1>1 DEF Inv, ExplainPart, SubsetHolds, ExplainTypeOK, StagesAgree
<1> QED BY <1>1, <1>2, ReturnHolds

LEMMA StartDeletionHolds ==
    ASSUME Inv, StartDeletion
    PROVE  ExplainPart'
<1> USE DEF Inv, ExplainPart
<1>1. /\ stage = "subset" /\ op = "deletion" /\ stage' = "delete" /\ idx' = 0 /\ kept' = pool
      /\ UNCHANGED <<given, pc, op, sender, status, pool, answer>>
  BY DEF StartDeletion
<1>2. pool \subseteq 1 .. NbClauses /\ NbClauses \in Nat /\ Unsat(pool)
  BY <1>1, GivenFacts DEF ExplainTypeOK, SubsetHolds
<1>3. ExplainTypeOK'
  BY <1>1, <1>2 DEF ExplainTypeOK, NbClauses
<1>4. StagesAgree'
  BY <1>1 DEF StagesAgree
<1>5. Ahead' = pool
  <2>1. \A i \in pool : i > 0
    BY <1>2
  <2> QED BY <1>1, <2>1 DEF Ahead
<1>6. DeletionHolds'
  BY <1>1, <1>2, <1>5 DEF DeletionHolds, Unsat, ClausesAt
<1>7. (CertificateHolds /\ SubsetHolds /\ InsertionHolds /\ AnswerHolds)'
  BY <1>1 DEF CertificateHolds, SubsetHolds, InsertionHolds, AnswerHolds, Unsat, ClausesAt
<1> QED BY <1>3, <1>4, <1>6, <1>7

\* Either the clause is needed by those that are left, or it is left out.
LEMMA DeletionTurnHolds ==
    ASSUME Inv, DeletionTurn
    PROVE  ExplainPart'
<1> USE DEF Inv, ExplainPart
<1> DEFINE i == Min(Ahead)
<1>1. /\ stage = "delete" /\ Ahead # {} /\ idx' = i
      /\ UNCHANGED <<given, pc, op, stage, sender, status, pool, answer>>
      /\ \/ ~ Unsat(kept \ {i}) /\ kept' = kept
         \/ Unsat(kept \ {i}) /\ kept' = kept \ {i}
  BY DEF DeletionTurn, Without, Unsat, checkerVars, problem
<1>2. i \in pool /\ i \in Nat /\ i \in Ahead /\ {j \in pool : j > i} = Ahead \ {i}
  BY <1>1, AheadFirst
<1> HIDE DEF i
<1>3. /\ Ahead \subseteq kept /\ Unsat(kept)
      /\ \A j \in kept \ Ahead : ~ Unsat(kept \ {j})
  BY <1>1 DEF DeletionHolds
<1>4. Ahead' = Ahead \ {i}
  BY <1>1, <1>2 DEF Ahead
<1>5. kept' \subseteq kept /\ Ahead' \subseteq kept' /\ Unsat(kept')
  BY <1>1, <1>3, <1>4
<1>6. ASSUME NEW j \in kept' \ Ahead' PROVE ~ Unsat(kept' \ {j})
  <2>1. CASE j = i
    BY <1>1, <1>6, <2>1
  <2>2. CASE j # i
    <3>1. j \in kept \ Ahead
      BY <1>4, <1>5, <1>6, <2>2
    <3>2. kept' \ {j} \in SUBSET (kept \ {j})
      BY <1>5
    <3> QED BY <1>3, <3>1, <3>2, FewerSat
  <2> QED BY <2>1, <2>2
<1>7. ExplainTypeOK'
  BY <1>1, <1>2, <1>5 DEF ExplainTypeOK, NbClauses
<1>8. StagesAgree'
  BY <1>1 DEF StagesAgree
<1>9. DeletionHolds'
  BY <1>1, <1>5, <1>6 DEF DeletionHolds, Unsat, ClausesAt
<1>10. (CertificateHolds /\ SubsetHolds /\ InsertionHolds /\ AnswerHolds)'
  BY <1>1 DEF CertificateHolds, SubsetHolds, InsertionHolds, AnswerHolds, Unsat, ClausesAt
<1> QED BY <1>7, <1>8, <1>9, <1>10

LEMMA ReturnDeletionHolds ==
    ASSUME Inv, ReturnDeletion
    PROVE  ExplainPart'
<1>1. /\ stage = "delete" /\ Returns("mus", kept)
      /\ UNCHANGED <<given, pc, op, sender, status, pool, kept, idx>>
  BY DEF ReturnDeletion, checkerVars, problem
<1>2. Unsat(kept) /\ kept \in SUBSET (1 .. NbClauses) /\ sender # "solving"
  BY <1>1 DEF Inv, ExplainPart, DeletionHolds, ExplainTypeOK, StagesAgree
<1> QED BY <1>1, <1>2, ReturnHolds

LEMMA StartInsertionHolds ==
    ASSUME Inv, StartInsertion
    PROVE  ExplainPart'
<1> USE DEF Inv, ExplainPart
<1>1. /\ stage = "subset" /\ op = "insertion" /\ stage' = "insert"
      /\ UNCHANGED <<given, pc, op, sender, status, pool, kept, idx, answer>>
  BY DEF StartInsertion, checkerVars, problem
<1>2. kept = {} /\ kept \union pool = pool /\ Unsat(pool)
  BY <1>1 DEF StagesAgree, SubsetHolds
<1>3. ExplainTypeOK'
  BY <1>1 DEF ExplainTypeOK, NbClauses
<1>4. StagesAgree'
  BY <1>1 DEF StagesAgree
<1>5. InsertionHolds'
  BY <1>1, <1>2 DEF InsertionHolds, Unsat, ClausesAt
<1>6. (CertificateHolds /\ SubsetHolds /\ DeletionHolds /\ AnswerHolds)'
  BY <1>1 DEF CertificateHolds, SubsetHolds, DeletionHolds, AnswerHolds, Unsat, ClausesAt
<1> QED BY <1>3, <1>4, <1>5, <1>6

LEMMA InsertionTurnHolds ==
    ASSUME Inv, InsertionTurn
    PROVE  ExplainPart'
<1> USE DEF Inv, ExplainPart
<1>1. /\ stage = "insert" /\ UNCHANGED <<given, pc, op, sender, status, pool, kept>>
      /\ \/ ~ Unsat(kept) /\ stage' = "add" /\ idx' = 0 /\ UNCHANGED answer
         \/ Unsat(kept) /\ Returns("mus", kept) /\ UNCHANGED idx
  BY DEF InsertionTurn, Unsat, checkerVars, problem
<1>2. pool \subseteq 1 .. NbClauses /\ kept \subseteq 1 .. NbClauses /\ NbClauses \in Nat /\ sender # "solving"
  BY <1>1, GivenFacts DEF ExplainTypeOK, StagesAgree
<1>3. CASE Unsat(kept) /\ Returns("mus", kept) /\ UNCHANGED idx
  BY <1>1, <1>2, <1>3, ReturnHolds
<1>4. CASE ~ Unsat(kept) /\ stage' = "add" /\ idx' = 0 /\ UNCHANGED answer
  <2>1. kept \union {j \in pool : j <= 0} = kept
    <3>1. \A j \in pool : ~ (j <= 0)
      BY <1>2
    <3> QED BY <3>1
  <2>2. ExplainTypeOK'
    BY <1>1, <1>4 DEF ExplainTypeOK, NbClauses
  <2>3. StagesAgree'
    BY <1>1, <1>4 DEF StagesAgree
  <2>4. ~ Unsat(kept \union {j \in pool : j <= idx'})
    BY <1>4, <2>1
  <2>5. /\ kept \intersect pool = {} /\ Unsat(kept \union pool)
        /\ \A i \in kept : ~ Unsat((kept \union pool) \ {i})
    BY <1>1 DEF InsertionHolds
  <2>6. InsertionHolds'
    BY <1>1, <2>4, <2>5 DEF InsertionHolds, Unsat, ClausesAt
  <2>7. (CertificateHolds /\ SubsetHolds /\ DeletionHolds /\ AnswerHolds)'
    BY <1>1, <1>4 DEF CertificateHolds, SubsetHolds, DeletionHolds, AnswerHolds, Unsat, ClausesAt
  <2> QED BY <2>2, <2>3, <2>6, <2>7
<1> QED BY <1>1, <1>3, <1>4

\* There is a clause to add: with all of them the problem is unsatisfiable.
LEMMA ClauseToAdd ==
    ASSUME Inv, stage = "add"
    PROVE  Ahead # {}
<1>1. /\ Unsat(kept \union pool) /\ ~ Unsat(kept \union {j \in pool : j <= idx})
      /\ pool \subseteq Nat /\ idx \in Nat
  BY GivenFacts DEF Inv, ExplainPart, InsertionHolds, ExplainTypeOK
<1> SUFFICES ASSUME Ahead = {} PROVE FALSE
  OBVIOUS
<1>2. \A j \in pool : j <= idx
  BY <1>1 DEF Ahead
<1>3. {j \in pool : j <= idx} = pool
  BY <1>2
<1> QED BY <1>1, <1>3

\* The clause that makes the others unsatisfiable is kept, and needed.
LEMMA InsertionAddHolds ==
    ASSUME Inv, InsertionAdd
    PROVE  ExplainPart'
<1> USE DEF Inv, ExplainPart
<1> DEFINE i == Min(Ahead)
           B == {j \in pool : j <= idx}
<1>1. /\ stage = "add" /\ UNCHANGED <<given, pc, op, sender, status, answer>>
      /\ \/ /\ ~ Unsat(kept \union {j \in pool : j <= i})
            /\ idx' = i /\ UNCHANGED <<stage, pool, kept>>
         \/ /\ Unsat(kept \union {j \in pool : j <= i})
            /\ kept' = kept \union {i} /\ pool' = {j \in pool : j < i}
            /\ stage' = "insert" /\ UNCHANGED idx
  BY DEF InsertionAdd, Unsat, checkerVars, problem
<1>2. /\ i \in pool /\ i \in Nat /\ {j \in pool : j < i} = B /\ i > idx
      /\ {j \in pool : j <= i} = B \union {i}
  BY <1>1, ClauseToAdd, AheadFirst
<1>3. idx \in Nat /\ i \notin B
  BY <1>2 DEF ExplainTypeOK
<1> HIDE DEF i
<1>4. /\ kept \intersect pool = {} /\ Unsat(kept \union pool)
      /\ \A j \in kept : ~ Unsat((kept \union pool) \ {j})
      /\ ~ Unsat(kept \union B)
  BY <1>1 DEF InsertionHolds
<1>5. CASE ~ Unsat(kept \union {j \in pool : j <= i}) /\ idx' = i /\ UNCHANGED <<stage, pool, kept>>
  <2>1. ExplainTypeOK'
    BY <1>1, <1>2, <1>5 DEF ExplainTypeOK, NbClauses
  <2>2. StagesAgree'
    BY <1>1, <1>5 DEF StagesAgree
  <2>3. InsertionHolds'
    BY <1>1, <1>4, <1>5 DEF InsertionHolds, Unsat, ClausesAt
  <2>4. (CertificateHolds /\ SubsetHolds /\ DeletionHolds /\ AnswerHolds)'
    BY <1>1, <1>5 DEF CertificateHolds, SubsetHolds, DeletionHolds, AnswerHolds, Unsat, ClausesAt
  <2> QED BY <2>1, <2>2, <2>3, <2>4
<1>6. CASE /\ Unsat(kept \union {j \in pool : j <= i})
           /\ kept' = kept \union {i} /\ pool' = {j \in pool : j < i}
           /\ stage' = "insert" /\ UNCHANGED idx
  <2>1. /\ pool' = B /\ B \subseteq pool /\ kept' \union pool' = kept \union (B \union {i})
        /\ Unsat(kept' \union pool') /\ kept' \intersect pool' = {}
    <3>1. pool' = B
      BY <1>2, <1>6
    <3>2. kept' \union pool' = kept \union {j \in pool : j <= i}
      BY <1>2, <1>6, <3>1
    <3> QED BY <1>2, <1>3, <1>4, <1>6, <3>1, <3>2
  <2>2. ASSUME NEW j \in kept' PROVE ~ Unsat((kept' \union pool') \ {j})
    <3>1. CASE j = i
      <4>1. (kept' \union pool') \ {j} = kept \union B
        BY <1>2, <1>3, <1>4, <2>1, <3>1
      <4> QED BY <1>4, <4>1
    <3>2. CASE j # i
      <4>1. j \in kept
        BY <1>6, <2>2, <3>2
      <4>2. (kept' \union pool') \ {j} \in SUBSET ((kept \union pool) \ {j})
        BY <1>2, <2>1
      <4> QED BY <1>4, <4>1, <4>2, FewerSat
    <3> QED BY <3>1, <3>2
  <2>3. ExplainTypeOK'
    BY <1>1, <1>2, <1>6, <2>1 DEF ExplainTypeOK, NbClauses
  <2>4. StagesAgree'
    BY <1>1, <1>6 DEF StagesAgree
  <2>5. InsertionHolds'
    BY <1>1, <1>6, <2>1, <2>2 DEF InsertionHolds, Unsat, ClausesAt
  <2>6. (CertificateHolds /\ SubsetHolds /\ DeletionHolds /\ AnswerHolds)'
    BY <1>1, <1>6 DEF CertificateHolds, SubsetHolds, DeletionHolds, AnswerHolds, Unsat, ClausesAt
  <2> QED BY <2>3, <2>4, <2>5, <2>6
<1> QED BY <1>1, <1>5, <1>6

\* An assignment that satisfies the hard clauses and falsifies as few of the
\* others as possible exists if any satisfies the hard ones.
LEMMA OptimumExists ==
    ASSUME Inv, Optima = {}
    PROVE  Unsat(kept)
<1> DEFINE M0 == {a \in Assignments : SatAll(a, ClausesAt(kept))}
           Cost(a) == Cardinality(FalsifiedBy(a))
           T == {Cost(a) : a \in M0}
<1>1. ASSUME NEW a \in M0 PROVE Cost(a) \in Nat
  <2>1. IsFiniteSet(1 .. NbClauses)
    BY GivenFacts, FS_Interval
  <2>2. FalsifiedBy(a) \in SUBSET (1 .. NbClauses)
    BY GivenFacts DEF FalsifiedBy
  <2> QED BY <2>1, <2>2, FS_Subset, FS_CardinalityType
<1>2. Optima = {a \in M0 : \A b \in M0 : Cost(a) <= Cost(b)}
  BY DEF Optima
<1>3. ASSUME M0 # {} PROVE FALSE
  <2>1. T \subseteq Nat /\ T # {}
    <3> HIDE DEF M0, Cost
    <3> QED BY <1>1, <1>3
  <2>2. PICK x \in T : \A y \in T : x <= y
    <3> HIDE DEF T
    <3> QED BY <2>1, NatMin
  <2>3. PICK a \in M0 : x = Cost(a)
    BY <2>2
  <2>4. \A b \in M0 : Cost(a) <= Cost(b)
    <3> HIDE DEF M0, Cost
    <3> QED BY <2>2, <2>3
  <2>5. a \in Optima
    BY <1>2, <2>3, <2>4
  <2> QED BY <2>5
<1> QED BY <1>3 DEF Unsat, Satisfiable

LEMMA MaxSatTurnHolds ==
    ASSUME Inv, MaxSatTurn
    PROVE  ExplainPart'
<1> USE DEF Inv, ExplainPart
<1>1. /\ stage = "maxsat" /\ UNCHANGED <<given, pc, op, sender, status, pool, idx>>
  BY DEF MaxSatTurn, checkerVars, problem
<1>2. kept \subseteq 1 .. NbClauses /\ sender # "solving" /\ DOMAIN given = 1 .. NbClauses
  BY <1>1, GivenFacts DEF ExplainTypeOK, StagesAgree
<1>3. CASE Optima = {} /\ Returns("mus", kept) /\ UNCHANGED kept
  BY <1>1, <1>2, <1>3, OptimumExists, ReturnHolds
<1>4. ASSUME NEW a \in Optima, FalsifiedBy(a) = {}, Returns("satisfiable", {}), UNCHANGED kept
      PROVE  ExplainPart'
  <2>1. a \in Assignments /\ SatAll(a, ClausesAt(kept))
    BY DEF Optima
  <2>2. ASSUME NEW i \in DOMAIN given PROVE SatClause(a, Range(given[i]))
    <3>1. CASE i \in kept
      BY <2>1, <3>1 DEF SatAll, ClausesAt
    <3>2. CASE i \notin kept
      BY <1>4, <3>2 DEF FalsifiedBy
    <3> QED BY <3>1, <3>2
  <2>3. ~ Unsat(DOMAIN given)
    BY <2>1, <2>2 DEF Unsat, Satisfiable, SatAll, ClausesAt
  <2> QED BY <1>1, <1>2, <1>4, <2>3, ReturnHolds
<1>5. ASSUME NEW a \in Optima, kept' = kept \union FalsifiedBy(a), UNCHANGED <<stage, answer>>
      PROVE  ExplainPart'
  <2>1. kept' \subseteq 1 .. NbClauses
    BY <1>2, <1>5 DEF FalsifiedBy
  <2>2. ExplainTypeOK'
    BY <1>1, <1>5, <2>1 DEF ExplainTypeOK, NbClauses
  <2>3. StagesAgree'
    BY <1>1, <1>5 DEF StagesAgree
  <2>4. (CertificateHolds /\ SubsetHolds /\ DeletionHolds /\ InsertionHolds /\ AnswerHolds)'
    BY <1>1, <1>5 DEF CertificateHolds, SubsetHolds, DeletionHolds, InsertionHolds, AnswerHolds, Unsat, ClausesAt
  <2> QED BY <2>2, <2>3, <2>4
<1> QED BY <1>3, <1>4, <1>5 DEF MaxSatTurn

-----------------------------------------------------------------------------
(* The inductive invariant.                                                *)

LEMMA EInitInv == EInit => Inv
<1> SUFFICES ASSUME EInit PROVE Inv
  OBVIOUS
<1>1. CheckerInv /\ pc = "idle"
  BY InitInv DEF EInit, Init
<1>2. CheckerPart
  BY <1>1 DEF CheckerPart, PassesMissNothing, LinesKnown
<1>3. ExplainPart
  BY <1>1 DEF EInit, NoAnswer, ExplainPart, ExplainTypeOK, StagesAgree, CertificateHolds,
              SubsetHolds, DeletionHolds, InsertionHolds, AnswerHolds
<1> QED BY <1>2, <1>3 DEF Inv

LEMMA EStutterInv ==
    ASSUME Inv, UNCHANGED vars
    PROVE  Inv'
<1>1. UNCHANGED checkerVars /\ UNCHANGED explainVars
  BY DEF vars
<1>2. CheckerPart'
  <2>1. LinesKnown'
    BY <1>1 DEF checkerVars, problem, scanning, Inv, CheckerPart, LinesKnown, NbClauses
  <2> QED BY <1>1, <2>1, StutterInv, StutterMisses DEF Inv, CheckerPart
<1>3. UNCHANGED <<given, clauses, line, channel, pc, verdict>>
  BY <1>1 DEF checkerVars, problem, scanning
<1>4. CertificateHolds'
  <2>1. Checked' = Checked /\ (Unsat(DOMAIN given)' <=> Unsat(DOMAIN given))
    BY <1>3 DEF Checked, Unsat, ClausesAt
  <2> QED BY <1>1, <1>3, <2>1 DEF Inv, ExplainPart, CertificateHolds, Proved, explainVars
<1>5. ExplainPart'
  BY <1>1, <1>3, <1>4, ExplainSame DEF explainVars, Inv, ExplainPart, ExplainTypeOK, StagesAgree
<1> QED BY <1>2, <1>5 DEF Inv

LEMMA EStepInv ==
    ASSUME DistinctLiterals, Inv, [Next]_vars
    PROVE  Inv'
<1>1. CASE UNCHANGED vars
  BY <1>1, EStutterInv
<1>2. CASE Next
  <2>1. CASE Overwritten
    BY <2>1, EStutterInv DEF Overwritten
  <2>2. CASE CallStep
    <3>1. ExplainPart'
      BY <2>2, ScanLineHolds, ChannelClosedHolds, SubsetReturnsHolds, ReturnSubsetHolds,
         StartDeletionHolds, DeletionTurnHolds, ReturnDeletionHolds,
         StartInsertionHolds, InsertionTurnHolds, InsertionAddHolds, MaxSatTurnHolds DEF CallStep
    <3> QED BY <1>2, <3>1, CheckerPartStep DEF Inv
  <2>3. CASE \/ \E b \in BOOLEAN : CallCheck(b)
             \/ \E o \in {"subset", "deletion", "insertion"} : CallSubset(o)
             \/ CallMaxSat
    BY <1>2, <2>3, CallHolds, CheckerPartStep DEF Inv
  <2>4. CASE OwnLine \/ SolverStep
    BY <1>2, <2>4, OwnLineHolds, SolverStepHolds, CheckerPartStep DEF Inv
  <2> QED BY <1>2, <2>1, <2>2, <2>3, <2>4 DEF Next
<1> QED BY <1>1, <1>2

\* Whatever the problems, the certificates and the calls, the checker misses
\* nothing and the subsets under construction are what they should be.
THEOREM ExplainInvariance == ASSUME DistinctLiterals PROVE Spec => []Inv
<1>1. Inv /\ [Next]_vars => Inv'
  BY EStepInv
<1> QED BY <1>1, EInitInv, PTL DEF Spec

-----------------------------------------------------------------------------
(* What the client can count on.                                           *)

\* Every line accepted follows from the tagged clauses, during UnsatSubset too,
\* and these are unsatisfiable when the empty line is accepted.
THEOREM AcceptedFollow == ASSUME DistinctLiterals PROVE Spec => []LinesFollow
<1>1. Inv => LinesFollow
  BY DEF Inv, CheckerPart, CheckerInv
<1> QED BY <1>1, ExplainInvariance, PTL

\* unsat refuses no line that unit propagation refutes.
THEOREM CheckerComplete == ASSUME DistinctLiterals PROVE Spec => []RefusedNotRup
<1>1. Inv => RefusedNotRup
  BY RefusedIsNotRup DEF Inv, CheckerPart
<1> QED BY <1>1, ExplainInvariance, PTL

\* UnsatSubset, MUSDeletion, MUSInsertion and MUSMaxSat return an unsatisfiable
\* subset, or say that the problem is satisfiable when it is; and MUSInsertion
\* does not run out of clauses.
THEOREM SubsetsCorrect == ASSUME DistinctLiterals PROVE Spec => []SubsetsUnsat
<1>1. Inv => SubsetsUnsat
  BY ClauseToAdd DEF Inv, ExplainPart, AnswerHolds, SubsetsUnsat, Unsat
<1> QED BY <1>1, ExplainInvariance, PTL

-----------------------------------------------------------------------------
(* Extracting a minimal subset.                                            *)

Result == IF Minimal THEN answer ELSE NoAnswer

\* The clauses at some indices mean the same to module Mus.
LEMMA SameSubsets == \A I : M!Satisfiable(M!ClausesAt(given, I)) <=> ~ Unsat(I)
<1>1. \A I : M!ClausesAt(given, I) = ClausesAt(I)
  BY DEF M!ClausesAt, ClausesAt, M!Range, Range
<1>2. M!Assignments = Assignments
  BY DEF M!Assignments, Assignments, M!Vars, Vars
<1>3. \A a, C : M!SatClause(a, C) <=> SatClause(a, C)
  BY DEF M!SatClause, SatClause, M!Holds, Holds, M!VarOf, VarOf, M!IsPositive, IsPositive
<1>4. \A F : M!Satisfiable(F) <=> Satisfiable(F)
  BY <1>2, <1>3 DEF M!Satisfiable, Satisfiable, M!SatAll, SatAll
<1> QED BY <1>1, <1>4 DEF Unsat

\* A step that leaves the variables of UnsatSubset alone is not seen.
LEMMA Unseen ==
    ASSUME UNCHANGED <<given, op, stage, pool, kept, idx, answer>>
    PROVE  UNCHANGED M!vars
<1>1. Candidates' = Candidates
  BY DEF Candidates, Minimal, ClausesAt
<1>2. Needed' = Needed
  BY DEF Needed, Minimal, Ahead
<1>3. UNCHANGED (IF Minimal THEN answer ELSE NoAnswer)
  BY DEF Minimal
<1> QED BY <1>1, <1>2, <1>3 DEF M!vars

\* What to show of a step that leaves clauses out or finds some needed.
LEMMA Narrows ==
    ASSUME NEW C, NEW D, NEW N, NEW P,
           Candidates = C, Candidates' = D, Needed = N, Needed' = P,
           Result = NoAnswer, Result' = NoAnswer, given' = given,
           D \subseteq C, Unsat(D), P \subseteq D, N \subseteq P,
           \A i \in P \ N : ~ Unsat(D \ {i})
    PROVE  M!Narrow
<1>1. NoAnswer = M!NoResult
  BY DEF NoAnswer, M!NoResult
<1> QED BY <1>1, SameSubsets DEF M!Narrow, Result

LEMMA CallExtracts ==
    ASSUME Inv, \/ \E b \in BOOLEAN : CallCheck(b)
                \/ \E o \in {"subset", "deletion", "insertion"} : CallSubset(o)
                \/ CallMaxSat
    PROVE  M!Begin
<1>1. answer' = NoAnswer /\ NoAnswer = M!NoResult /\ NoAnswer.kind = "none"
  BY DEF CallCheck, CallSubset, CallMaxSat, NoAnswer, M!NoResult
<1>2. given' = given
  BY DEF CallCheck, CallSubset, CallMaxSat, Start, checkerVars, problem
<1>3. Candidates' = DOMAIN given /\ Needed' = {}
  <2>1. CASE (\E b \in BOOLEAN : CallCheck(b)) \/ CallMaxSat
    <3>1. op' \in {"check", "maxsat"}
      BY <2>1 DEF CallCheck, CallMaxSat
    <3> QED BY <1>2, <3>1 DEF Candidates, Needed, Minimal
  <2>2. CASE \E o \in {"subset", "deletion", "insertion"} : CallSubset(o)
    <3>1. /\ kept' = {}
          /\ \/ stage' = "subset" /\ pool' = DOMAIN given
             \/ stage' = "check"
      BY <2>2 DEF CallSubset, Idle
    <3> QED BY <1>1, <1>2, <3>1 DEF Candidates, Needed
  <2> QED BY <2>1, <2>2
<1> QED BY <1>1, <1>2, <1>3 DEF M!Begin, M!All

\* MUSMaxSat and UnsatSubset alone extract nothing.
LEMMA OthersUnseen ==
    ASSUME op \notin {"deletion", "insertion"}, UNCHANGED <<given, op>>
    PROVE  UNCHANGED M!vars
BY DEF Candidates, Needed, Minimal, M!vars

LEMMA SubsetReturnsExtracts ==
    ASSUME Inv, Inv', SubsetReturns, op \in {"deletion", "insertion"}
    PROVE  M!Next
<1> USE DEF Inv, CheckerPart, ExplainPart
<1>1. /\ stage = "check" /\ pc = "idle" /\ CertificateHolds /\ answer = NoAnswer /\ kept = {}
      /\ UNCHANGED <<given, op, sender, status, kept, idx>>
  BY DEF SubsetReturns, StagesAgree, checkerVars, problem
<1>2. /\ Candidates = DOMAIN given /\ Needed = {} /\ Minimal /\ Minimal' /\ NoAnswer.kind = "none"
      /\ NoAnswer = M!NoResult
  BY <1>1 DEF Candidates, Needed, Minimal, NoAnswer, M!NoResult
<1>3. CASE NotUnsat(verdict, status)
  <2>1. stage' = "idle" /\ answer' = [kind |-> "satisfiable", ids |-> {}]
    BY <1>3 DEF SubsetReturns, Returns
  <2>2. Candidates' = DOMAIN given /\ Needed' = {}
    BY <1>1, <2>1 DEF Candidates, Needed
  <2>3. ~ Unsat(DOMAIN given)
    <3>1. AnswerHolds'
      OBVIOUS
    <3> QED BY <1>1, <2>1, <3>1 DEF AnswerHolds, Unsat, ClausesAt
  <2> QED BY <1>1, <1>2, <2>1, <2>2, <2>3, SameSubsets DEF M!Next, M!Refuse, M!All
<1>4. CASE ~ NotUnsat(verdict, status)
  <2>1. stage' = "subset" /\ pool' = tagged /\ answer' = NoAnswer
    BY <1>1, <1>4 DEF SubsetReturns
  <2>2. Candidates' = tagged /\ Needed' = {}
    BY <1>1, <1>2, <2>1 DEF Candidates, Needed
  <2>3. Unsat(tagged)
    <3>1. SubsetHolds'
      OBVIOUS
    <3> QED BY <1>1, <2>1, <3>1 DEF SubsetHolds, Unsat, ClausesAt
  <2>4. tagged \subseteq DOMAIN given
    BY GivenFacts DEF CheckerInv, TypeOK
  <2> QED BY <1>1, <1>2, <2>1, <2>2, <2>3, <2>4, Narrows DEF M!Next, Result
<1> QED BY <1>3, <1>4

LEMMA DeletionExtracts ==
    ASSUME Inv, Inv', StartDeletion \/ DeletionTurn \/ ReturnDeletion
    PROVE  [M!Next]_(M!vars)
<1> USE DEF Inv, ExplainPart
<1>0. op = "deletion" /\ answer = NoAnswer /\ NoAnswer.kind = "none" /\ NoAnswer = M!NoResult
      /\ UNCHANGED <<given, op>>
  BY DEF StartDeletion, DeletionTurn, ReturnDeletion, StagesAgree, NoAnswer, M!NoResult,
         checkerVars, problem
<1>1. Minimal /\ Minimal'
  BY <1>0 DEF Minimal
<1>2. CASE StartDeletion
  <2>1. /\ stage = "subset" /\ stage' = "delete" /\ idx' = 0 /\ kept' = pool /\ kept = {}
        /\ UNCHANGED <<pool, answer>>
    BY <1>2 DEF StartDeletion, StagesAgree
  <2>2. Ahead' = pool
    <3>1. \A i \in pool : i > 0
      BY GivenFacts DEF ExplainTypeOK
    <3> QED BY <2>1, <3>1 DEF Ahead
  <2>3. Candidates = pool /\ Candidates' = pool /\ Needed = {} /\ Needed' = {}
    BY <1>0, <1>1, <2>1, <2>2 DEF Candidates, Needed
  <2> QED BY <1>0, <1>1, <2>1, <2>3 DEF M!vars
<1>3. CASE DeletionTurn
  <2> DEFINE i == Min(Ahead)
  <2>1. /\ stage = "delete" /\ stage' = "delete" /\ Ahead # {} /\ idx' = i /\ UNCHANGED <<pool, answer>>
        /\ \/ kept' = kept
           \/ kept' = kept \ {i}
    BY <1>3 DEF DeletionTurn, Without
  <2>2. i \in Ahead /\ {j \in pool : j > i} = Ahead \ {i}
    BY <2>1, AheadFirst
  <2> HIDE DEF i
  <2>3. Ahead' = Ahead \ {i}
    BY <2>1, <2>2 DEF Ahead
  <2>4. /\ Candidates = kept /\ Candidates' = kept'
        /\ Needed = kept \ Ahead /\ Needed' = kept' \ Ahead'
    BY <1>0, <1>1, <2>1 DEF Candidates, Needed
  <2>5. kept' \subseteq kept /\ kept \ Ahead \subseteq kept' \ Ahead' /\ kept' \ Ahead' \subseteq kept'
    BY <2>1, <2>2, <2>3
  <2>6. Unsat(kept') /\ \A j \in kept' \ Ahead' : ~ Unsat(kept' \ {j})
    <3>1. DeletionHolds'
      OBVIOUS
    <3> QED BY <1>0, <2>1, <3>1 DEF DeletionHolds, Unsat, ClausesAt
  <2>7. Result = NoAnswer /\ Result' = NoAnswer
    BY <1>0, <2>1 DEF Result
  <2>8. M!Narrow
    BY <1>0, <2>4, <2>5, <2>6, <2>7, Narrows
  <2> QED BY <2>8 DEF M!Next
<1>4. CASE ReturnDeletion
  <2>1. /\ stage = "delete" /\ Ahead = {} /\ stage' = "idle" /\ answer' = [kind |-> "mus", ids |-> kept]
    BY <1>4 DEF ReturnDeletion, Returns
  <2>2. /\ Candidates = kept /\ Needed = kept /\ Candidates' = kept /\ Needed' = kept
    BY <1>0, <1>1, <2>1 DEF Candidates, Needed
  <2>3. Unsat(kept)
    BY <2>1 DEF DeletionHolds
  <2> QED BY <1>0, <1>1, <2>1, <2>2, <2>3, SameSubsets DEF M!Next, M!Return
<1> QED BY <1>2, <1>3, <1>4

LEMMA InsertionExtracts ==
    ASSUME Inv, Inv', StartInsertion \/ InsertionTurn \/ InsertionAdd
    PROVE  [M!Next]_(M!vars)
<1> USE DEF Inv, ExplainPart
<1>0. op = "insertion" /\ answer = NoAnswer /\ NoAnswer.kind = "none" /\ NoAnswer = M!NoResult
      /\ UNCHANGED <<given, op>>
  BY DEF StartInsertion, InsertionTurn, InsertionAdd, StagesAgree, NoAnswer, M!NoResult,
         checkerVars, problem
<1>1. Minimal /\ Minimal'
  BY <1>0 DEF Minimal
<1>2. CASE StartInsertion
  <2>1. /\ stage = "subset" /\ stage' = "insert" /\ kept = {} /\ UNCHANGED <<pool, kept, answer>>
    BY <1>2 DEF StartInsertion, StagesAgree
  <2>2. Candidates = pool /\ Needed = {} /\ Needed' = {}
    BY <1>0, <1>1, <2>1 DEF Candidates, Needed
  <2>3. Candidates' = pool
    <3>1. Satisfiable(ClausesAt(kept)')
      BY <1>0, <2>1, NoneSat DEF Unsat, ClausesAt
    <3> QED BY <1>0, <1>1, <2>1, <3>1 DEF Candidates
  <2> QED BY <1>0, <1>1, <2>1, <2>2, <2>3 DEF M!vars
<1>3. CASE InsertionTurn
  <2>1. stage = "insert" /\ UNCHANGED <<pool, kept>>
    BY <1>3 DEF InsertionTurn
  <2>2. CASE Unsat(kept)
    <3>1. stage' = "idle" /\ answer' = [kind |-> "mus", ids |-> kept]
      BY <1>3, <2>2 DEF InsertionTurn, Returns, Unsat
    <3>2. /\ Candidates = kept /\ Needed = kept /\ Candidates' = kept /\ Needed' = kept
      BY <1>0, <1>1, <2>1, <2>2, <3>1 DEF Candidates, Needed, Unsat
    <3> QED BY <1>0, <1>1, <2>2, <3>1, <3>2, SameSubsets DEF M!Next, M!Return
  <2>3. CASE ~ Unsat(kept)
    <3>1. stage' = "add" /\ answer' = answer
      BY <1>3, <2>3 DEF InsertionTurn, Unsat
    <3>2. /\ Candidates = kept \union pool /\ Candidates' = kept \union pool
          /\ Needed = kept /\ Needed' = kept
      BY <1>0, <1>1, <2>1, <2>3, <3>1 DEF Candidates, Needed, Unsat
    <3> QED BY <1>0, <1>1, <3>1, <3>2 DEF M!vars
  <2> QED BY <2>2, <2>3
<1>4. CASE InsertionAdd
  <2> DEFINE i == Min(Ahead)
             B == {j \in pool : j <= idx}
  <2>1. /\ stage = "add" /\ answer' = answer
        /\ \/ stage' = stage /\ UNCHANGED <<pool, kept>>
           \/ kept' = kept \union {i} /\ pool' = {j \in pool : j < i} /\ stage' = "insert"
    BY <1>4 DEF InsertionAdd
  <2>2. i \in pool /\ {j \in pool : j < i} = B /\ i > idx /\ i \in Nat
    BY <2>1, ClauseToAdd, AheadFirst
  <2>3. Candidates = kept \union pool /\ Needed = kept
    BY <1>0, <1>1, <2>1 DEF Candidates, Needed
  <2>4. Result = NoAnswer /\ Result' = NoAnswer
    BY <1>0, <2>1 DEF Result
  <2>5. CASE stage' = stage /\ UNCHANGED <<pool, kept>>
    <3>1. Candidates' = kept \union pool /\ Needed' = kept
      BY <1>0, <1>1, <2>1, <2>5 DEF Candidates, Needed
    <3> QED BY <1>0, <1>1, <2>1, <2>3, <3>1 DEF M!vars
  <2>6. CASE kept' = kept \union {i} /\ pool' = {j \in pool : j < i} /\ stage' = "insert"
    <3> DEFINE D == Candidates'
    <3>1. /\ Unsat(kept' \union pool') /\ \A j \in kept' : ~ Unsat((kept' \union pool') \ {j})
      <4>1. InsertionHolds'
        OBVIOUS
      <4> QED BY <1>0, <2>6, <4>1 DEF InsertionHolds, Unsat, ClausesAt
    <3>2. Needed' = kept'
      BY <1>0, <1>1, <2>1, <2>6 DEF Needed
    <3>3. (Unsat(kept') /\ D = kept') \/ D = kept' \union pool'
      BY <1>0, <1>1, <2>1, <2>6 DEF Candidates, Unsat, ClausesAt
    <3>4. ~ Unsat(kept)
      <4>1. ~ Unsat(kept \union B)
        BY <2>1 DEF InsertionHolds
      <4> QED BY <4>1, FewerSat, kept \in SUBSET (kept \union B)
    <3>5. ASSUME NEW j \in kept' \ kept PROVE ~ Unsat(D \ {j})
      <4>1. CASE D = kept' \union pool'
        BY <3>1, <4>1
      <4>2. CASE D = kept'
        <5>1. kept' \ {j} \in SUBSET ((kept' \union pool') \ {j})
          OBVIOUS
        <5> QED BY <3>1, <4>2, <5>1, FewerSat
      <4> QED BY <3>3, <4>1, <4>2
    <3>6. D \subseteq kept \union pool /\ kept' \subseteq D /\ kept \subseteq kept' /\ Unsat(D)
      BY <2>2, <2>6, <3>1, <3>3
    <3>7. Candidates' = D
      OBVIOUS
    <3> HIDE DEF D, i, B
    <3>8. M!Narrow
      BY <1>0, <2>3, <2>4, <3>2, <3>5, <3>6, <3>7, Narrows
    <3> QED BY <3>8 DEF M!Next
  <2> QED BY <2>1, <2>5, <2>6
<1> QED BY <1>2, <1>3, <1>4

LEMMA StepExtracts ==
    ASSUME Inv, Inv', [Next]_vars
    PROVE  [M!Next]_(M!vars)
<1>1. CASE UNCHANGED vars \/ ScanLine \/ OwnLine \/ SolverStep \/ ChannelClosed \/ Overwritten
  <2>1. UNCHANGED <<given, op, stage, pool, kept, idx, answer>>
    <3>1. CASE ScanLine
      BY <3>1 DEF ScanLine, explainVars, Scan, Skip, Open, Unit, Conflict, EndPass, Judge, problem
    <3>2. CASE OwnLine
      BY <3>2 DEF OwnLine, AnyLine, ReadLine, EndOfLines, ReadError, explainVars
    <3>3. CASE SolverStep
      BY <3>3 DEF SolverStep, SolverSends, SolverProves, SolverReturns, SolverCloses, ReadLine,
                  explainVars, checkerVars, problem
    <3>4. CASE ChannelClosed
      BY <3>4 DEF ChannelClosed, EndOfLines, explainVars
    <3>5. CASE UNCHANGED vars \/ Overwritten
      BY <3>5 DEF Overwritten, vars, checkerVars, problem, explainVars
    <3> QED BY <1>1, <3>1, <3>2, <3>3, <3>4, <3>5
  <2> QED BY <2>1, Unseen
<1>2. CASE \/ \E b \in BOOLEAN : CallCheck(b)
           \/ \E o \in {"subset", "deletion", "insertion"} : CallSubset(o)
           \/ CallMaxSat
  BY <1>2, CallExtracts DEF M!Next
<1>3. CASE SubsetReturns \/ ReturnSubset \/ MaxSatTurn
  <2>1. CASE op \notin {"deletion", "insertion"}
    <3>1. UNCHANGED <<given, op>>
      BY <1>3 DEF SubsetReturns, ReturnSubset, MaxSatTurn, checkerVars, problem
    <3> QED BY <2>1, <3>1, OthersUnseen
  <2>2. CASE op \in {"deletion", "insertion"}
    <3>1. SubsetReturns
      BY <1>3, <2>2 DEF ReturnSubset, MaxSatTurn, Inv, ExplainPart, StagesAgree
    <3> QED BY <2>2, <3>1, SubsetReturnsExtracts
  <2> QED BY <2>1, <2>2
<1> QED BY <1>1, <1>2, <1>3, DeletionExtracts, InsertionExtracts DEF Next, CallStep

\* MUSDeletion and MUSInsertion implement what extracting a minimal subset
\* promises, which MusCorrectness below shows to be enough.
THEOREM Refinement == ASSUME DistinctLiterals PROVE Spec => RefinesMus
<1>1. EInit => M!Init
  BY DEF EInit, M!Init, M!All, M!NoResult, Candidates, Needed, Minimal, NoAnswer
<1>2. Inv /\ Inv' /\ [Next]_vars => [M!Next]_(M!vars)
  BY StepExtracts
<1>3. EInit /\ [][Next]_vars /\ []Inv => M!Init /\ [][M!Next]_(M!vars)
  BY <1>1, <1>2, PTL
<1>4. Spec => EInit /\ [][Next]_vars /\ []Inv
  BY ExplainInvariance, PTL DEF Spec
<1> QED BY <1>3, <1>4 DEF RefinesMus, M!Spec

-----------------------------------------------------------------------------
(* What extracting a subset as module Mus says is worth.                   *)

\* Fewer clauses are satisfiable if more are.
LEMMA FewerSatisfiable ==
    ASSUME NEW cs, NEW J, NEW I \in SUBSET J, M!Satisfiable(M!ClausesAt(cs, J))
    PROVE  M!Satisfiable(M!ClausesAt(cs, I))
<1>1. M!ClausesAt(cs, I) \subseteq M!ClausesAt(cs, J)
  BY DEF M!ClausesAt
<1> QED BY <1>1 DEF M!Satisfiable, M!SatAll

\* Whether the result is right depends on the clauses and the result only.
LEMMA RightKept ==
    ASSUME M!ResultRight, given' = given, Result' = Result
    PROVE  M!ResultRight'
<1>1. /\ Result.kind = "mus" => M!IsMus(given, Result.ids)
      /\ Result.kind = "satisfiable" => M!Satisfiable(M!ClausesAt(given, M!All))
  BY DEF M!ResultRight, Result
<1>2. /\ Result'.kind = "mus" => M!IsMus(given', Result'.ids)
      /\ Result'.kind = "satisfiable" => M!Satisfiable(M!ClausesAt(given', DOMAIN given'))
  BY <1>1 DEF M!All
<1> QED BY <1>2, Zenon DEF M!ResultRight, M!All, Result

\* A question is asked.
LEMMA MusBegin ==
    ASSUME M!MusInv, M!Begin
    PROVE  M!MusInv'
BY DEF M!MusInv, M!Begin, M!ResultRight, M!NoResult

\* What was needed before is still needed among fewer candidates.
LEMMA MusNarrow ==
    ASSUME M!MusInv, M!Narrow
    PROVE  M!MusInv'
<1>1. given' = given /\ Result' = Result /\ Candidates' \subseteq Candidates
  BY DEF M!Narrow, Result
<1>2. ASSUME NEW i \in Needed' PROVE M!Satisfiable(M!ClausesAt(given, Candidates' \ {i}))
  <2>1. CASE i \in Needed
    <3>1. M!Satisfiable(M!ClausesAt(given, Candidates \ {i}))
      BY <2>1 DEF M!MusInv
    <3>2. Candidates' \ {i} \in SUBSET (Candidates \ {i})
      BY <1>1
    <3> QED BY <3>1, <3>2, FewerSatisfiable
  <2>2. CASE i \notin Needed
    BY <1>2, <2>2 DEF M!Narrow
  <2> QED BY <2>1, <2>2
<1>3. Needed' \subseteq Candidates'
  BY DEF M!Narrow, Result
<1>4. M!ResultRight'
  BY <1>1, RightKept DEF M!MusInv
<1>5. (\A i \in Needed : M!Satisfiable(M!ClausesAt(given, Candidates \ {i})))'
  BY <1>1, <1>2 DEF M!ClausesAt
<1> QED BY <1>3, <1>4, <1>5 DEF M!MusInv

\* When all candidates are needed, they are a minimal subset.
LEMMA MusReturn ==
    ASSUME M!MusInv, M!Return
    PROVE  M!MusInv'
<1>1. /\ given' = given /\ Candidates' = Candidates /\ Needed' = Needed
      /\ Result'.kind = "mus" /\ Result'.ids = Candidates
  BY DEF M!Return, Result
<1>2. M!IsMus(given, Candidates)
  BY DEF M!MusInv, M!Return, M!IsMus, Result
<1> QED BY <1>1, <1>2 DEF M!MusInv, M!ResultRight, M!ClausesAt, Result

\* The problem is satisfiable.
LEMMA MusRefuse ==
    ASSUME M!MusInv, M!Refuse
    PROVE  M!MusInv'
BY DEF M!MusInv, M!Refuse, M!ResultRight, M!ClausesAt, M!All

\* The subset MUSDeletion and MUSInsertion return is unsatisfiable, and is not
\* without any one of its clauses; and a problem they say is satisfiable is so.
THEOREM MusCorrectness == M!Spec => []M!ResultRight
<1>1. M!Init => M!MusInv
  BY DEF M!Init, M!MusInv, M!ResultRight, M!NoResult
<1>2. M!MusInv /\ [M!Next]_(M!vars) => M!MusInv'
  <2>1. CASE UNCHANGED M!vars
    BY <2>1, RightKept DEF M!vars, M!MusInv, Result, M!ClausesAt
  <2> QED BY <2>1, MusBegin, MusNarrow, MusReturn, MusRefuse DEF M!Next
<1>3. M!MusInv => M!ResultRight
  BY DEF M!MusInv
<1> QED BY <1>1, <1>2, <1>3, PTL DEF M!Spec

\* So what MUSDeletion and MUSInsertion of this code return is such a subset.
THEOREM SubsetsMinimal ==
    ASSUME DistinctLiterals
    PROVE  Spec => [](Minimal /\ answer.kind = "mus" => M!IsMus(given, answer.ids))
<1>1. M!ResultRight => (Minimal /\ answer.kind = "mus" => M!IsMus(given, answer.ids))
  BY DEF M!ResultRight
<1> QED BY <1>1, Refinement, MusCorrectness, PTL DEF RefinesMus
=============================================================================
