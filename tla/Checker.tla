------------------------------- MODULE Checker -------------------------------
(***************************************************************************)
(* The checker of certificates (explain/check.go, explain/problem.go): a   *)
(* problem, and the lines of a certificate, each of which must follow by   *)
(* unit propagation from the problem and the lines before.                 *)
(*                                                                         *)
(* Literals are those of module Lits instead of signed numbers.  Clauses   *)
(* are sequences of literals: a literal that comes twice counts twice.     *)
(* One action is one clause looked at by unsat.  Lines that are no clause  *)
(* are skipped by the code and left out.                                   *)
(***************************************************************************)
EXTENDS Lits, Sequences, SequencesExt

CONSTANTS
    Inputs,     \* problems given: sequences of clauses
    Lines,      \* clauses that may be in a certificate
    MaxLines    \* bound on the length of a certificate

ASSUME CheckerAssumption ==
    /\ \A p \in Inputs : p \in Seq(Seq(Lits))
    /\ \A l \in Lines : l \in Seq(Lits)
    /\ MaxLines \in Nat

VARIABLES
    given,      \* the problem as it was given (history)
    clauses,    \* pb.Clauses: the problem, then the lines accepted
    units,      \* pb.units: 1 for a true variable, -1 for a false one, or 0
    tagged,     \* pb.tagged: the indices of the clauses that were used
    channel,    \* UnsatChan is running, not Unsat
    line,       \* the line being checked
    saved,      \* oldUnits
    done,       \* indices of the clauses unsat is through with
    at,         \* index of the clause unsat looks at next
    modified,   \* a unit was found in this pass
    refuted,    \* what unsat returned
    verdict,    \* what UnsatChan or Unsat returned, and why
    pc          \* "idle", "read", "scan" or "judge"

problem == <<given, clauses, units, tagged>>
scanning == <<line, saved, done, at, modified, refuted>>
checkerVars == <<problem, scanning, channel, verdict, pc>>

NbClauses == Len(given)

ClausesAt(I) == {Range(given[i]) : i \in I}

\* 1 or -1, as pb.units has it.
Sign(l) == IF IsPositive(l) THEN 1 ELSE -1

-----------------------------------------------------------------------------
(* One clause under the current bindings.                                  *)

IsTrue(l) == units[VarOf(l)] = Sign(l)

Unbound(c) == {k \in DOMAIN c : units[VarOf(c[k])] = 0}

\* The loop on literals stops at a true one, or at the second unbound one.
IsSat(c) == \E k \in DOMAIN c : IsTrue(c[k]) /\ Cardinality(Unbound(c) \intersect 1 .. k) < 2

SatClauses == {i \in DOMAIN clauses : IsSat(clauses[i])}

\* Index of the last literal on v in c, 0 if there is none.
LastOn(v, c) == Max({0} \union {k \in DOMAIN c : VarOf(c[k]) = v})

\* Variant for TLC: what is bound stays so.
FalsifiedFree(us, c) ==
    [v \in Vars |-> IF LastOn(v, c) = 0 \/ us[v] # 0 THEN us[v] ELSE Sign(Negation(c[LastOn(v, c)]))]

\* The negation of each literal of the clause, over the bindings us.
Falsified(us, c) ==
    [v \in Vars |-> IF LastOn(v, c) = 0 THEN us[v] ELSE Sign(Negation(c[LastOn(v, c)]))]

\* Indices of the unit clauses of a problem.
UnitsIn(cs) == {k \in DOMAIN cs : Len(cs[k]) = 1}

\* What ParseCNF puts in pb.units: for each variable its last unit clause.
ParsedUnits(cs) ==
    [v \in Vars |->
        LET K == {k \in UnitsIn(cs) : VarOf(cs[k][1]) = v} IN
        IF K = {} THEN 0 ELSE Sign(cs[Max(K)][1])]

-----------------------------------------------------------------------------
Init ==
    /\ given \in Inputs
    /\ clauses = given /\ units = ParsedUnits(given) /\ tagged = {}
    /\ channel = FALSE
    /\ line = <<>> /\ saved = units
    /\ done = {} /\ at = 1 /\ modified = FALSE /\ refuted = FALSE
    /\ verdict = "none" /\ pc = "idle"

\* UnsatChan or Unsat is called: initTagged.
Start(isChannel) ==
    /\ pc = "idle" /\ pc' = "read"
    /\ channel' = isChannel
    /\ tagged' = UnitsIn(clauses)
    /\ verdict' = "none"
    /\ UNCHANGED <<given, clauses, units, scanning>>

\* The call returns, with its local variables: restore drops the lines.
Return(v) ==
    /\ pc' = "idle" /\ verdict' = v
    /\ clauses' = SubSeq(clauses, 1, NbClauses)
    /\ line' = <<>> /\ done' = {} /\ at' = 1 /\ modified' = FALSE /\ refuted' = FALSE
    /\ UNCHANGED saved

\* A line arrives, and its literals are made false.
ReadLine(l) ==
    /\ pc = "read" /\ pc' = "scan"
    /\ line' = l
    /\ saved' = units /\ units' = Falsified(units, l)
    /\ done' = {} /\ at' = 1 /\ modified' = FALSE
    /\ UNCHANGED <<given, clauses, tagged, refuted, channel, verdict>>

\* The channel is closed, or the file ends: the certificate is accepted.
EndOfLines ==
    /\ pc = "read" /\ Return("ended")
    /\ UNCHANGED <<given, units, tagged, channel>>

\* A line starts with a number but is no clause, or the file cannot be read.
ReadError ==
    /\ pc = "read" /\ Return("error")
    /\ UNCHANGED <<given, units, tagged, channel>>

-----------------------------------------------------------------------------
(* unsat: passes over the clauses until one is falsified, or nothing new.  *)

Scanning == pc = "scan" /\ at <= Len(clauses)

\* Variant for TLC: only the unit clauses, tagged when the call starts, are.
TagUnits(i) == tagged

\* Only the clauses of the problem are tagged, not the lines.
Tag(i) == IF i <= NbClauses THEN tagged \union {i} ELSE tagged

Skip ==
    /\ Scanning
    /\ \/ at \in done /\ UNCHANGED done
       \/ /\ at \notin done /\ at \in SatClauses
          /\ done' = done \union {at}
    /\ at' = at + 1
    /\ UNCHANGED <<problem, line, saved, modified, refuted, channel, verdict, pc>>

\* Two literals or more are unbound.
Open ==
    /\ Scanning /\ at \notin done \union SatClauses
    /\ Cardinality(Unbound(clauses[at])) >= 2
    /\ at' = at + 1
    /\ UNCHANGED <<problem, line, saved, done, modified, refuted, channel, verdict, pc>>

\* One literal is unbound: it has to be true.
Unit ==
    /\ Scanning /\ at \notin done \union SatClauses
    /\ \E k \in DOMAIN clauses[at] :
        /\ Unbound(clauses[at]) = {k}
        /\ units' = [units EXCEPT ![VarOf(clauses[at][k])] = Sign(clauses[at][k])]
    /\ done' = done \union {at} /\ modified' = TRUE
    /\ tagged' = Tag(at)
    /\ at' = at + 1
    /\ UNCHANGED <<given, clauses, line, saved, refuted, channel, verdict, pc>>

\* No literal is left: the negation of the line is refuted.
Conflict ==
    /\ Scanning /\ at \notin done \union SatClauses
    /\ Unbound(clauses[at]) = {}
    /\ tagged' = Tag(at)
    /\ refuted' = TRUE /\ pc' = "judge"
    /\ UNCHANGED <<given, clauses, units, line, saved, done, at, modified, channel, verdict>>

\* Variant for TLC: one pass is enough.
AnotherPassNever(m) == FALSE

\* What a pass found may matter to the clauses it had already looked at.
AnotherPass(m) == m

EndPass ==
    /\ pc = "scan" /\ at > Len(clauses)
    /\ IF AnotherPass(modified)
       THEN at' = 1 /\ modified' = FALSE /\ UNCHANGED <<refuted, pc>>
       ELSE refuted' = FALSE /\ pc' = "judge" /\ UNCHANGED <<at, modified>>
    /\ UNCHANGED <<problem, line, saved, done, channel, verdict>>

-----------------------------------------------------------------------------
\* Variant for TLC: the bindings found for a line are kept for the next ones.
RestoredNot(us, old) == us

Restored(us, old) == old

\* The line is refused, or ends the check, or becomes a clause.
Judge ==
    /\ pc = "judge"
    /\ units' = Restored(units, saved)
    /\ \/ ~ refuted /\ Return("refused")
       \/ refuted /\ line = <<>> /\ channel /\ Return("refuted")
       \/ /\ refuted /\ ~ (line = <<>> /\ channel)
          /\ clauses' = Append(clauses, line)
          /\ pc' = "read" /\ UNCHANGED <<scanning, verdict>>
    /\ UNCHANGED <<given, tagged, channel>>

Scan == Skip \/ Open \/ Unit \/ Conflict \/ EndPass \/ Judge

\* A certificate from anyone.
AnyLine == \E l \in Lines : Len(clauses) < NbClauses + MaxLines /\ ReadLine(l)

CheckerNext ==
    \/ \E b \in BOOLEAN : Start(b)
    \/ AnyLine \/ EndOfLines \/ ReadError
    \/ Scan

CheckerSpec == Init /\ [][CheckerNext]_checkerVars

\* The lines accepted so far follow from the clauses tagged so far, and the
\* certificate is taken for a proof only if those are unsatisfiable.
LinesFollow ==
    /\ \A k \in NbClauses + 1 .. Len(clauses) : Entails(ClausesAt(tagged), Range(clauses[k]))
    /\ verdict = "refuted" => ~ Satisfiable(ClausesAt(tagged))

-----------------------------------------------------------------------------
(* The inductive invariant.                                                *)

TypeOK ==
    /\ given \in Inputs
    /\ tagged \in SUBSET (1 .. NbClauses)
    /\ units \in [Vars -> {-1, 0, 1}] /\ saved = ParsedUnits(given)
    /\ line \in Seq(Lits) /\ at \in Nat \ {0}
    /\ modified \in BOOLEAN /\ refuted \in BOOLEAN /\ channel \in BOOLEAN
    /\ pc \in {"idle", "read", "scan", "judge"}
    /\ verdict \in {"none", "ended", "refused", "refuted", "error"}

\* While a certificate is checked, the clauses are those of the problem, of
\* which the unit ones are tagged, and then the lines; each line starts from
\* the bindings of the problem.
LinesAppended ==
    /\ IF pc = "idle" THEN DOMAIN clauses = 1 .. NbClauses
       ELSE /\ clauses \in Seq(Seq(Lits)) /\ NbClauses <= Len(clauses)
            /\ \A i \in 1 .. NbClauses : clauses[i] = given[i]
            /\ UnitsIn(given) \subseteq tagged
    /\ pc \in {"idle", "read"} => units = saved

\* The bindings are those of the assignment, as far as they go.
Agrees(a, us) ==
    \A v \in Vars : (us[v] = 1 => a[v] = TRUE) /\ (us[v] = -1 => a[v] = FALSE)

\* A model of the tagged clauses that falsifies the line has all the bindings
\* found so far.
BindingsFollow ==
    pc \in {"scan", "judge"} =>
        \A a \in Assignments :
            SatAll(a, ClausesAt(tagged)) /\ ~ SatClause(a, Range(line)) => Agrees(a, units)

RefutedFollows ==
    pc = "judge" /\ refuted => Entails(ClausesAt(tagged), Range(line))

\* A clause that has nothing to tell: one of its literals is true, or two are
\* unbound.
HasTrue(c) == \E k \in DOMAIN c : IsTrue(c[k])

Settled(c) == HasTrue(c) \/ Cardinality(Unbound(c)) >= 2

\* The clauses unsat is through with stay satisfied, those it has passed by
\* without a change have nothing to tell, and neither has any in the end; and
\* the literals of the line stay false, when it is no tautology.
PassesMissNothing ==
    /\ pc = "scan" =>
          /\ \A i \in done : i \in DOMAIN clauses /\ HasTrue(clauses[i])
          /\ ~ modified => \A i \in 1 .. at - 1 : Settled(clauses[i])
    /\ pc = "judge" /\ ~ refuted => \A i \in DOMAIN clauses : Settled(clauses[i])
    /\ pc \in {"scan", "judge"} /\ ~ Tautology(Range(line)) =>
          \A l \in Range(line) : IsTrue(Negation(l))

CheckerInv == TypeOK /\ LinesAppended /\ BindingsFollow /\ RefutedFollows /\ LinesFollow
=============================================================================
